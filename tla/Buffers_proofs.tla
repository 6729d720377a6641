--------------------------- MODULE Buffers_proofs ---------------------------
(***************************************************************************)
(* Proofs about Buffers, for every set of blocks and processes and any     *)
(* number of transactions and changes.                                     *)
(***************************************************************************)
EXTENDS Buffers, Extrema

-----------------------------------------------------------------------------
(* Types *)

Phases == {"none", "locked", "data", "log", "wait_for_data", "wait_for_iobuf", "record", "forget"}
Places == {"idle", "open", "access", "alloc", "shadow", "queued", "asleep",
           "granted", "created", "modified", "new", "shrunk"}
Uses   == {"off", "used", "free", "orphan", "unmapped", "freed"}

(* The type invariant, by groups of variables. *)
CommitType ==
  /\ running \in 0 .. MaxTid /\ committing \in 0 .. MaxTid /\ last \in 0 .. MaxTid /\ phase \in Phases
  /\ todo \subseteq Blocks /\ committed \subseteq 0 .. MaxTid
  /\ closed \in [Tids -> [Blocks -> Versions \cup {None}]] /\ tagged \in [Tids -> SUBSET Data]

ProcType ==
  /\ pc \in [Procs -> Places] /\ h_tid \in [Procs -> 0 .. MaxTid]
  /\ h_buf \in [Procs -> Blocks \cup {"none"}]
  /\ h_frozen \in [Procs -> BOOLEAN] /\ h_dirty \in [Procs -> BOOLEAN]

FsType ==
  /\ use \in [Blocks -> Uses] /\ born \in [Blocks -> 0 .. MaxTid]
  /\ orphan \in [Blocks -> 0 .. MaxTid] /\ freed \in [Blocks -> 0 .. MaxTid]
  /\ eio \subseteq Blocks

BufType == buf \in [Blocks -> Buffer]

RestType ==
  /\ io \in [Blocks -> {"none", "page", "frozen", "done"}]
  /\ aborted \in BOOLEAN /\ tail \in 1 .. MaxTid + 1
  /\ home \in [Blocks -> Versions] /\ version \in Versions
  /\ log \in [Tids -> [Blocks -> Versions \cup {None}]]
  /\ wrote \subseteq Blocks /\ tags \subseteq Data

\* The type invariant is the conjunction of its groups.
LEMMA Groups ==
  TypeOK <=> CommitType /\ ProcType /\ FsType /\ BufType /\ RestType
BY DEF TypeOK, CommitType, ProcType, FsType, BufType, RestType, Phases, Places, Uses

\* Constants.
LEMMA Constant ==
  /\ MaxTid \in Nat \ {0} /\ MaxVersion \in Nat /\ 0 \in 0 .. MaxTid /\ 0 \in Versions
  /\ Data \subseteq Blocks /\ Meta \subseteq Blocks
BY ConstantsAssumption DEF Blocks, Versions

-----------------------------------------------------------------------------
(* What the operations on a journal head do to its fields *)

\* The fields of a buffer.
LEMMA Fields ==
  ASSUME NEW s \in Buffer
  PROVE  /\ s.b_transaction \in 0 .. MaxTid /\ s.b_next_transaction \in 0 .. MaxTid /\ s.b_jlist \in Lists
         /\ s.b_modified \in BOOLEAN /\ s.b_frozen_data \in Versions \cup {None}
         /\ s.b_cp_transaction \in 0 .. MaxTid /\ s.data \in Versions
         /\ s.dirty \in BOOLEAN /\ s.jbddirty \in BOOLEAN /\ s.freed \in BOOLEAN /\ s.bug \in BOOLEAN
BY DEF Buffer

(* r differs from s in its list, its dirty bits and the record of failed assertions alone. *)
SameContents(r, s) ==
  /\ r.b_cp_transaction = s.b_cp_transaction /\ r.data = s.data /\ r.freed = s.freed

\* J_ASSERT changes the record of failed assertions alone.
LEMMA Asserted ==
  ASSUME NEW s \in Buffer, NEW cond \in BOOLEAN
  PROVE  /\ J_ASSERT(s, cond) \in Buffer
         /\ SameContents(J_ASSERT(s, cond), s)
         /\ J_ASSERT(s, cond).b_transaction = s.b_transaction
         /\ J_ASSERT(s, cond).b_next_transaction = s.b_next_transaction
         /\ J_ASSERT(s, cond).b_jlist = s.b_jlist
         /\ J_ASSERT(s, cond).b_modified = s.b_modified
         /\ J_ASSERT(s, cond).b_frozen_data = s.b_frozen_data
         /\ J_ASSERT(s, cond).dirty = s.dirty
         /\ J_ASSERT(s, cond).jbddirty = s.jbddirty
         /\ J_ASSERT(s, cond).bug = (s.bug \/ ~cond)
BY DEF J_ASSERT, Buffer, SameContents

\* A buffer leaves its list: a jbddirty buffer is dirty then.
LEMMA Unlinked ==
  ASSUME NEW s \in Buffer
  PROVE  /\ temp_unlink(s) \in Buffer
         /\ SameContents(temp_unlink(s), s)
         /\ temp_unlink(s).b_transaction = s.b_transaction
         /\ temp_unlink(s).b_next_transaction = s.b_next_transaction
         /\ temp_unlink(s).b_jlist = "None"
         /\ temp_unlink(s).b_modified = s.b_modified
         /\ temp_unlink(s).b_frozen_data = s.b_frozen_data
         /\ temp_unlink(s).dirty = (s.dirty \/ (s.b_jlist # "None" /\ s.jbddirty))
         /\ temp_unlink(s).jbddirty = (s.b_jlist = "None" /\ s.jbddirty)
         /\ temp_unlink(s).bug = s.bug
BY DEF temp_unlink, Buffer, Lists, SameContents

\* The journal head goes away when it has no transaction and no checkpoint.
LEMMA Put ==
  ASSUME NEW s \in Buffer
  PROVE  LET r == put_journal_head(s)
             gone == s.b_transaction = 0 /\ s.b_cp_transaction = 0 IN
         /\ r \in Buffer
         /\ SameContents(r, s)
         /\ r.b_transaction = s.b_transaction
         /\ r.b_next_transaction = s.b_next_transaction
         /\ r.b_jlist = s.b_jlist
         /\ r.b_modified = (s.b_modified /\ ~gone)
         /\ r.b_frozen_data = IF gone THEN None ELSE s.b_frozen_data
         /\ r.dirty = s.dirty
         /\ r.jbddirty = s.jbddirty
         /\ r.bug = (s.bug \/ (gone /\ ~(s.b_next_transaction = 0 /\ s.b_jlist = "None")))
<1> DEFINE c == s.b_next_transaction = 0 /\ s.b_jlist = "None"
           a == J_ASSERT(s, c)
<1>1. c \in BOOLEAN
  OBVIOUS
<1>2. \A r \in Buffer :
        LET q == [r EXCEPT !.b_frozen_data = None, !.b_modified = FALSE] IN
        /\ q \in Buffer /\ SameContents(q, r)
        /\ q.b_transaction = r.b_transaction /\ q.b_next_transaction = r.b_next_transaction
        /\ q.b_jlist = r.b_jlist /\ ~q.b_modified /\ q.b_frozen_data = None
        /\ q.dirty = r.dirty /\ q.jbddirty = r.jbddirty /\ q.bug = r.bug
  BY DEF Buffer, SameContents
<1>3. put_journal_head(s) = IF s.b_transaction = 0 /\ s.b_cp_transaction = 0
                            THEN [a EXCEPT !.b_frozen_data = None, !.b_modified = FALSE] ELSE s
  BY DEF put_journal_head
<1>4. /\ a \in Buffer /\ SameContents(a, s)
      /\ a.b_transaction = s.b_transaction /\ a.b_next_transaction = s.b_next_transaction
      /\ a.b_jlist = s.b_jlist /\ a.b_modified = s.b_modified /\ a.b_frozen_data = s.b_frozen_data
      /\ a.dirty = s.dirty /\ a.jbddirty = s.jbddirty /\ a.bug = (s.bug \/ ~c)
  BY <1>1, Asserted
<1> DEFINE q == [a EXCEPT !.b_frozen_data = None, !.b_modified = FALSE]
<1> HIDE DEF a
<1>5. /\ q \in Buffer /\ SameContents(q, a)
      /\ q.b_transaction = a.b_transaction /\ q.b_next_transaction = a.b_next_transaction
      /\ q.b_jlist = a.b_jlist /\ ~q.b_modified /\ q.b_frozen_data = None
      /\ q.dirty = a.dirty /\ q.jbddirty = a.jbddirty /\ q.bug = a.bug
  BY <1>2, <1>4
<1> HIDE DEF q
<1>6. CASE s.b_transaction = 0 /\ s.b_cp_transaction = 0
  <2>1. put_journal_head(s) = q
    BY <1>3, <1>6 DEF q
  <2> QED
    BY <1>4, <1>5, <1>6, <2>1, Fields DEF SameContents
<1>7. CASE ~(s.b_transaction = 0 /\ s.b_cp_transaction = 0)
  <2>1. put_journal_head(s) = s
    BY <1>3, <1>7
  <2> QED
    BY <1>7, <2>1, Fields DEF SameContents
<1> QED
  BY <1>6, <1>7

\* unfile takes a buffer from its list and its transaction.
LEMMA Unfiled ==
  ASSUME NEW s \in Buffer
  PROVE  LET r == unfile(s) IN
         /\ r \in Buffer
         /\ SameContents(r, s)
         /\ r.b_transaction = 0
         /\ r.b_next_transaction = s.b_next_transaction
         /\ r.b_jlist = "None"
         /\ r.b_modified = (s.b_modified /\ s.b_cp_transaction # 0)
         /\ r.b_frozen_data = IF s.b_cp_transaction = 0 THEN None ELSE s.b_frozen_data
         /\ r.dirty = (s.dirty \/ (s.b_jlist # "None" /\ s.jbddirty))
         /\ r.jbddirty = (s.b_jlist = "None" /\ s.jbddirty)
         /\ r.bug = (s.bug \/ (s.b_cp_transaction = 0 /\ s.b_next_transaction # 0))
<1> DEFINE u == temp_unlink(s)
           q == [u EXCEPT !.b_transaction = 0]
<1>1. u \in Buffer
  BY Unlinked
<1>2. /\ q \in Buffer /\ SameContents(q, u) /\ q.b_transaction = 0
      /\ q.b_next_transaction = u.b_next_transaction /\ q.b_jlist = u.b_jlist
      /\ q.b_modified = u.b_modified /\ q.b_frozen_data = u.b_frozen_data
      /\ q.dirty = u.dirty /\ q.jbddirty = u.jbddirty /\ q.bug = u.bug
  BY <1>1, Constant DEF Buffer, SameContents
<1>3. unfile(s) = put_journal_head(q)
  BY DEF unfile
<1> HIDE DEF q
<1> QED
  BY <1>1, <1>2, <1>3, Put, Unlinked, Fields DEF SameContents

\* file puts a buffer on a list of t, unless it is on such a list already.  A list
\* of the journal takes the dirty bit over as jbddirty; other lists do the reverse.
LEMMA Filed ==
  ASSUME NEW s \in Buffer, NEW t \in 0 .. MaxTid, NEW jlist \in Lists
  PROVE  LET r == file(s, t, jlist)
             journal == jlist \in {"Metadata", "Reserved", "Shadow", "Forget"}
             there == s.b_transaction # 0 /\ s.b_jlist = jlist
             linked == s.b_transaction # 0 /\ s.b_jlist # "None" IN
         /\ r \in Buffer
         /\ SameContents(r, s)
         /\ r.b_transaction = IF there THEN s.b_transaction ELSE t
         /\ r.b_next_transaction = s.b_next_transaction
         /\ r.b_jlist = jlist
         /\ r.b_modified = s.b_modified
         /\ r.b_frozen_data = s.b_frozen_data
         /\ ~there /\ journal => /\ r.dirty = (linked /\ s.dirty /\ s.jbddirty)
                                 /\ r.jbddirty = (s.dirty \/ s.jbddirty)
         /\ ~there /\ ~journal => /\ r.dirty = (s.dirty \/ (linked /\ s.jbddirty))
                                  /\ r.jbddirty = (s.jbddirty /\ ~linked)
         /\ there => r.dirty = s.dirty /\ r.jbddirty = s.jbddirty
         /\ r.bug = (s.bug \/ s.b_transaction \notin {0, t})
<1> DEFINE checked  == J_ASSERT(s, s.b_transaction \in {0, t})
           journal  == jlist \in {"Metadata", "Reserved", "Shadow", "Forget"}
           wasdirty == journal /\ (s.dirty \/ s.jbddirty)
           clean    == IF ~journal THEN checked
                       ELSE IF s.dirty THEN [checked EXCEPT !.dirty = FALSE]
                            ELSE [checked EXCEPT !.jbddirty = FALSE]
           off      == IF s.b_transaction # 0 THEN temp_unlink(clean) ELSE clean
           moved    == [off EXCEPT !.b_transaction = t, !.b_jlist = jlist, !.jbddirty = @ \/ wasdirty]
<1>0. file(s, t, jlist) = IF s.b_transaction # 0 /\ s.b_jlist = jlist THEN checked ELSE moved
  BY DEF file
<1>1. /\ checked \in Buffer /\ SameContents(checked, s)
      /\ checked.b_transaction = s.b_transaction /\ checked.b_next_transaction = s.b_next_transaction
      /\ checked.b_jlist = s.b_jlist /\ checked.b_modified = s.b_modified
      /\ checked.b_frozen_data = s.b_frozen_data
      /\ checked.dirty = s.dirty /\ checked.jbddirty = s.jbddirty
      /\ checked.bug = (s.bug \/ s.b_transaction \notin {0, t})
  BY DEF J_ASSERT, Buffer, SameContents
<1> HIDE DEF checked
<1>3. /\ clean \in Buffer /\ SameContents(clean, s)
      /\ clean.b_transaction = s.b_transaction /\ clean.b_next_transaction = s.b_next_transaction
      /\ clean.b_jlist = s.b_jlist /\ clean.b_modified = s.b_modified
      /\ clean.b_frozen_data = s.b_frozen_data
      /\ clean.dirty = (s.dirty /\ ~journal)
      /\ clean.jbddirty = (s.jbddirty /\ (s.dirty \/ ~journal))
      /\ clean.bug = checked.bug
  <2> HIDE DEF journal
  <2>1. CASE ~journal
    <3>1. clean = checked
      BY <2>1
    <3> HIDE DEF clean
    <3> QED
      BY <1>1, <2>1, <3>1, Fields
  <2>2. CASE journal /\ s.dirty
    <3>1. clean = [checked EXCEPT !.dirty = FALSE]
      BY <2>2
    <3> HIDE DEF clean
    <3>2. /\ clean \in Buffer /\ SameContents(clean, checked)
          /\ clean.b_transaction = checked.b_transaction
          /\ clean.b_next_transaction = checked.b_next_transaction /\ clean.b_jlist = checked.b_jlist
          /\ clean.b_modified = checked.b_modified /\ clean.b_frozen_data = checked.b_frozen_data
          /\ clean.jbddirty = checked.jbddirty /\ ~clean.dirty /\ clean.bug = checked.bug
      BY <1>1, <3>1 DEF Buffer, SameContents
    <3> QED
      BY <1>1, <2>2, <3>2, Fields DEF SameContents
  <2>3. CASE journal /\ ~s.dirty
    <3>1. clean = [checked EXCEPT !.jbddirty = FALSE]
      BY <2>3
    <3> HIDE DEF clean
    <3>2. /\ clean \in Buffer /\ SameContents(clean, checked)
          /\ clean.b_transaction = checked.b_transaction
          /\ clean.b_next_transaction = checked.b_next_transaction /\ clean.b_jlist = checked.b_jlist
          /\ clean.b_modified = checked.b_modified /\ clean.b_frozen_data = checked.b_frozen_data
          /\ clean.dirty = checked.dirty /\ ~clean.jbddirty /\ clean.bug = checked.bug
      BY <1>1, <3>1 DEF Buffer, SameContents
    <3> QED
      BY <1>1, <2>3, <3>2, Fields DEF SameContents
  <2> QED
    BY <2>1, <2>2, <2>3
<1> HIDE DEF clean
<1>4. /\ off \in Buffer /\ SameContents(off, s)
      /\ off.b_next_transaction = s.b_next_transaction
      /\ off.b_modified = s.b_modified /\ off.b_frozen_data = s.b_frozen_data
      /\ off.dirty = (clean.dirty \/ (s.b_transaction # 0 /\ s.b_jlist # "None" /\ clean.jbddirty))
      /\ off.jbddirty = (clean.jbddirty /\ ~(s.b_transaction # 0 /\ s.b_jlist # "None"))
      /\ off.bug = checked.bug
  <2>1. CASE s.b_transaction = 0
    BY <1>3, <2>1, Fields DEF SameContents
  <2>2. CASE s.b_transaction # 0
    BY <1>3, <2>2, Unlinked, Fields DEF SameContents
  <2> QED
    BY <2>1, <2>2
<1>5. wasdirty \in BOOLEAN
  OBVIOUS
<1> HIDE DEF off, wasdirty
<1>6. /\ moved \in Buffer /\ SameContents(moved, off) /\ moved.b_transaction = t
      /\ moved.b_next_transaction = off.b_next_transaction /\ moved.b_jlist = jlist
      /\ moved.b_modified = off.b_modified /\ moved.b_frozen_data = off.b_frozen_data
      /\ moved.dirty = off.dirty /\ moved.jbddirty = (off.jbddirty \/ wasdirty) /\ moved.bug = off.bug
  BY <1>4, <1>5 DEF Buffer, SameContents
<1> HIDE DEF moved
<1>7. CASE s.b_transaction # 0 /\ s.b_jlist = jlist
  BY <1>0, <1>1, <1>7
<1>8. CASE ~(s.b_transaction # 0 /\ s.b_jlist = jlist)
  <2>1. file(s, t, jlist) = moved
    BY <1>0, <1>8
  <2>2. moved.dirty = (clean.dirty \/ (s.b_transaction # 0 /\ s.b_jlist # "None" /\ clean.jbddirty))
    BY <1>6, <1>4
  <2>3. moved.jbddirty = ((clean.jbddirty /\ ~(s.b_transaction # 0 /\ s.b_jlist # "None")) \/ wasdirty)
    BY <1>6, <1>4
  <2> QED
    BY <1>1, <1>3, <1>4, <1>6, <1>8, <2>1, <2>2, <2>3, Fields DEF SameContents, wasdirty
<1> QED
  BY <1>7, <1>8

\* refile gives a buffer to its next transaction, or to none.
LEMMA Refiled ==
  ASSUME NEW s \in Buffer, running \in 0 .. MaxTid
  PROVE  LET r == refile(s)
             next == s.b_next_transaction # 0 IN
         /\ r \in Buffer
         /\ SameContents(r, s)
         /\ r.b_transaction = s.b_next_transaction
         /\ r.b_next_transaction = 0
         /\ r.b_jlist = IF ~next THEN "None" ELSE IF s.freed THEN "Forget"
                        ELSE IF s.b_modified THEN "Metadata" ELSE "Reserved"
         /\ r.b_modified = (s.b_modified /\ (next \/ s.b_cp_transaction # 0))
         /\ r.b_frozen_data = IF ~next /\ s.b_cp_transaction = 0 THEN None ELSE s.b_frozen_data
         /\ next => ~r.dirty /\ r.jbddirty = (s.dirty \/ s.jbddirty)
         /\ ~next => /\ r.dirty = (s.dirty \/ (s.b_jlist # "None" /\ s.jbddirty))
                     /\ r.jbddirty = (s.b_jlist = "None" /\ s.jbddirty)
         /\ r.bug = (s.bug \/ (next /\ s.b_next_transaction # running))
<1> DEFINE d     == [s EXCEPT !.jbddirty = FALSE]
           off   == temp_unlink(d)
           moved == [off EXCEPT !.b_transaction = s.b_next_transaction, !.b_next_transaction = 0]
           jlist == IF s.freed THEN "Forget" ELSE IF s.b_modified THEN "Metadata" ELSE "Reserved"
           filed == file(moved, s.b_next_transaction, jlist)
           kept  == [filed EXCEPT !.jbddirty = @ \/ s.jbddirty]
           mine  == s.b_next_transaction = running
<1>1. CASE s.b_next_transaction = 0
  BY <1>1, Unfiled, Fields DEF refile
<1>2. CASE s.b_next_transaction # 0
  <2>1. /\ d \in Buffer /\ SameContents(d, s) /\ d.b_jlist = s.b_jlist
        /\ d.b_modified = s.b_modified /\ d.b_frozen_data = s.b_frozen_data
        /\ d.dirty = s.dirty /\ ~d.jbddirty /\ d.bug = s.bug
    BY DEF Buffer, SameContents
  <2> HIDE DEF d
  <2>2. /\ off \in Buffer /\ SameContents(off, s) /\ off.b_jlist = "None"
        /\ off.b_modified = s.b_modified /\ off.b_frozen_data = s.b_frozen_data
        /\ off.dirty = s.dirty /\ ~off.jbddirty /\ off.bug = s.bug
    BY <2>1, Unlinked, Fields DEF SameContents
  <2> HIDE DEF off
  <2>3. /\ moved \in Buffer /\ SameContents(moved, off) /\ moved.b_jlist = "None"
        /\ moved.b_transaction = s.b_next_transaction /\ moved.b_next_transaction = 0
        /\ moved.b_modified = off.b_modified /\ moved.b_frozen_data = off.b_frozen_data
        /\ moved.dirty = off.dirty /\ ~moved.jbddirty /\ moved.bug = off.bug
    BY <2>2, Fields, Constant DEF Buffer, SameContents
  <2>4. jlist \in Lists /\ jlist # "None" /\ jlist \in {"Metadata", "Reserved", "Shadow", "Forget"}
    BY DEF Lists
  <2>5. s.b_next_transaction \in 0 .. MaxTid
    BY Fields
  <2> HIDE DEF moved, jlist
  <2>6. /\ filed \in Buffer /\ SameContents(filed, moved) /\ filed.b_jlist = jlist
        /\ filed.b_transaction = s.b_next_transaction /\ filed.b_next_transaction = 0
        /\ filed.b_modified = moved.b_modified /\ filed.b_frozen_data = moved.b_frozen_data
        /\ ~filed.dirty /\ filed.jbddirty = moved.dirty /\ filed.bug = moved.bug
    <3>1. moved.b_jlist # jlist /\ moved.dirty \in BOOLEAN
      BY <2>3, <2>4, Fields
    <3>2. /\ filed \in Buffer /\ SameContents(filed, moved) /\ filed.b_jlist = jlist
          /\ filed.b_transaction = s.b_next_transaction
          /\ filed.b_next_transaction = moved.b_next_transaction
          /\ filed.b_modified = moved.b_modified /\ filed.b_frozen_data = moved.b_frozen_data
          /\ filed.bug = (moved.bug \/ moved.b_transaction \notin {0, s.b_next_transaction})
          /\ filed.dirty = (moved.dirty /\ moved.jbddirty /\ moved.b_transaction # 0 /\ moved.b_jlist # "None")
          /\ filed.jbddirty = (moved.dirty \/ moved.jbddirty)
      BY <2>3, <2>4, <2>5, <3>1, Filed
    <3> QED
      BY <2>3, <3>1, <3>2, Fields
  <2> HIDE DEF filed
  <2>7. s.jbddirty \in BOOLEAN
    BY Fields
  <2>8. /\ kept \in Buffer /\ SameContents(kept, filed) /\ kept.b_jlist = filed.b_jlist
        /\ kept.b_transaction = filed.b_transaction /\ kept.b_next_transaction = filed.b_next_transaction
        /\ kept.b_modified = filed.b_modified /\ kept.b_frozen_data = filed.b_frozen_data
        /\ kept.dirty = filed.dirty /\ kept.jbddirty = (filed.jbddirty \/ s.jbddirty)
        /\ kept.bug = filed.bug
    BY <2>6, <2>7 DEF Buffer, SameContents
  <2> HIDE DEF kept
  <2>9. refile(s) = J_ASSERT(kept, mine)
    BY <1>2 DEF refile, kept, filed, jlist, moved, off, d
  <2>10. mine \in BOOLEAN
    OBVIOUS
  <2>11. /\ refile(s) \in Buffer /\ SameContents(refile(s), kept)
         /\ refile(s).b_transaction = kept.b_transaction
         /\ refile(s).b_next_transaction = kept.b_next_transaction
         /\ refile(s).b_jlist = kept.b_jlist /\ refile(s).b_modified = kept.b_modified
         /\ refile(s).b_frozen_data = kept.b_frozen_data
         /\ refile(s).dirty = kept.dirty /\ refile(s).jbddirty = kept.jbddirty
         /\ refile(s).bug = (kept.bug \/ ~mine)
    BY <2>8, <2>9 DEF J_ASSERT, Buffer, SameContents
  <2>12. jlist = IF s.freed THEN "Forget" ELSE IF s.b_modified THEN "Metadata" ELSE "Reserved"
    BY DEF jlist
  <2>13. SameContents(refile(s), s)
    BY <2>2, <2>3, <2>6, <2>8, <2>11 DEF SameContents
  <2>14. /\ refile(s).b_transaction = s.b_next_transaction /\ refile(s).b_next_transaction = 0
         /\ refile(s).b_jlist = jlist
         /\ refile(s).b_modified = s.b_modified /\ refile(s).b_frozen_data = s.b_frozen_data
         /\ ~refile(s).dirty /\ refile(s).jbddirty = (s.dirty \/ s.jbddirty)
         /\ refile(s).bug = (s.bug \/ ~mine)
    BY <2>2, <2>3, <2>6, <2>8, <2>11
  <2> QED
    BY <1>2, <2>11, <2>12, <2>13, <2>14, Fields
<1> QED
  BY <1>1, <1>2


-----------------------------------------------------------------------------
(* Transactions and handles *)

(* The running transaction is the newest one, the committing one is older, and so   *)
(* is every transaction with a commit record.                                       *)
TidInv ==
  /\ running \in {0, last}
  /\ committing # 0 => committing <= last /\ (running # 0 => committing < running)
  /\ committing = 0 <=> phase \in {"none", "locked"}
  /\ phase = "locked" => running # 0
  /\ \A t \in committed : /\ t <= last
                          /\ running # 0 => t < running
                          /\ committing # 0 => t <= committing
  /\ committing # 0 /\ committing \in committed => phase = "forget"

Waiting(p) == pc[p] \in {"access", "alloc", "shadow", "queued", "asleep"}
Holding(p) == pc[p] \in {"granted", "created", "modified"}

(* A handle belongs to the running transaction, and what a process works on is in   *)
(* use.                                                                             *)
HandleInv ==
  \A p \in Procs :
    /\ h_tid[p] \in {0, running}
    /\ pc[p] = "idle" <=> h_tid[p] = 0
    /\ Waiting(p) \/ Holding(p) \/ pc[p] = "new" => h_buf[p] \in Blocks /\ use[h_buf[p]] = "used"
    /\ pc[p] = "new" => h_buf[p] \in Data

Base == TypeOK /\ TidInv /\ HandleInv

\* The buffer of a process that works on one.
LEMMA Working ==
  ASSUME Base, NEW p \in Procs, pc[p] \notin {"idle", "open", "shrunk"}
  PROVE  /\ h_buf[p] \in Blocks /\ use[h_buf[p]] = "used" /\ buf[h_buf[p]] \in Buffer
         /\ h_tid[p] = running /\ running # 0 /\ h_tid[p] \in 0 .. MaxTid
         /\ running \in 0 .. MaxTid /\ committing \in 0 .. MaxTid
<1>1. CommitType /\ ProcType /\ BufType
  BY Groups DEF Base
<1>2. Waiting(p) \/ Holding(p) \/ pc[p] = "new"
  BY <1>1 DEF ProcType, Places, Waiting, Holding
<1> QED
  BY <1>1, <1>2 DEF Base, HandleInv, CommitType, ProcType, BufType



\* A dirty buffer becomes jbddirty.
LEMMA UndirtyFields ==
  ASSUME Base, NEW p \in Procs, pc[p] = "access"
  PROVE  LET s == buf[h_buf[p]]
             r == Undirty(p) IN
         /\ r \in Buffer /\ r.b_transaction = s.b_transaction
         /\ r.b_next_transaction = s.b_next_transaction /\ r.b_jlist = s.b_jlist
         /\ r.b_modified = s.b_modified /\ r.b_frozen_data = s.b_frozen_data
         /\ r.b_cp_transaction = s.b_cp_transaction /\ r.data = s.data /\ ~r.dirty
         /\ r.jbddirty = (s.jbddirty \/ s.dirty) /\ r.freed = s.freed
         /\ r.bug = (s.bug \/ (s.dirty /\ s.b_transaction # 0 /\ ~(s.b_transaction \in {h_tid[p], committing} /\ s.b_next_transaction \in {0, h_tid[p]})))
<1> DEFINE s == buf[h_buf[p]]
<1>1. s \in Buffer
  BY Working
<1>2. CASE ~s.dirty
  BY <1>1, <1>2, Fields DEF Undirty
<1>3. CASE s.dirty
  <2> DEFINE q == J_ASSERT(s, s.b_transaction # 0 => /\ s.b_transaction \in {h_tid[p], committing}
                                                      /\ s.b_next_transaction \in {0, h_tid[p]})
  <2>1. Undirty(p) = [q EXCEPT !.dirty = FALSE, !.jbddirty = TRUE]
    BY <1>3 DEF Undirty
  <2> HIDE DEF s
  <2>2. /\ q \in Buffer /\ q.b_transaction = s.b_transaction
        /\ q.b_next_transaction = s.b_next_transaction /\ q.b_jlist = s.b_jlist
        /\ q.b_modified = s.b_modified /\ q.b_frozen_data = s.b_frozen_data
        /\ q.b_cp_transaction = s.b_cp_transaction /\ q.data = s.data /\ q.dirty = s.dirty
        /\ q.jbddirty = s.jbddirty /\ q.freed = s.freed
        /\ q.bug = (s.bug \/ (s.b_transaction # 0 /\ ~(s.b_transaction \in {h_tid[p], committing} /\ s.b_next_transaction \in {0, h_tid[p]})))
    BY <1>1 DEF J_ASSERT, Buffer
  <2> HIDE DEF q
  <2> DEFINE r == [q EXCEPT !.dirty = FALSE, !.jbddirty = TRUE]
  <2>3. /\ r \in Buffer /\ r.b_transaction = q.b_transaction
        /\ r.b_next_transaction = q.b_next_transaction /\ r.b_jlist = q.b_jlist
        /\ r.b_modified = q.b_modified /\ r.b_frozen_data = q.b_frozen_data
        /\ r.b_cp_transaction = q.b_cp_transaction /\ r.data = q.data /\ ~r.dirty /\ r.jbddirty
        /\ r.freed = q.freed /\ r.bug = q.bug
    BY <2>2 DEF Buffer
  <2> HIDE DEF r
  <2>4. /\ r \in Buffer /\ r.b_transaction = s.b_transaction
        /\ r.b_next_transaction = s.b_next_transaction /\ r.b_jlist = s.b_jlist
        /\ r.b_modified = s.b_modified /\ r.b_frozen_data = s.b_frozen_data
        /\ r.b_cp_transaction = s.b_cp_transaction /\ r.data = s.data /\ ~r.dirty
        /\ r.jbddirty = (s.jbddirty \/ s.dirty) /\ r.freed = s.freed
        /\ r.bug = (s.bug \/ (s.dirty /\ s.b_transaction # 0 /\ ~(s.b_transaction \in {h_tid[p], committing} /\ s.b_next_transaction \in {0, h_tid[p]})))
    BY <1>1, <1>3, <2>2, <2>3, Fields
  <2> QED
    BY <2>1, <2>4 DEF r, s
<1> QED
  BY <1>2, <1>3

-----------------------------------------------------------------------------
(* The operations that steps make of these *)


\* A buffer is put on a list of the journal.
LEMMA FiledJournal ==
  ASSUME NEW s \in Buffer, NEW t \in 0 .. MaxTid,
         NEW jlist \in {"Metadata", "Reserved", "Shadow", "Forget"},
         ~(s.b_transaction # 0 /\ s.b_jlist = jlist)
  PROVE  LET r == file(s, t, jlist) IN
         /\ r \in Buffer /\ r.b_transaction = t /\ r.b_next_transaction = s.b_next_transaction
         /\ r.b_jlist = jlist /\ r.b_modified = s.b_modified /\ r.b_frozen_data = s.b_frozen_data
         /\ r.b_cp_transaction = s.b_cp_transaction /\ r.data = s.data
         /\ r.dirty = (s.b_transaction # 0 /\ s.b_jlist # "None" /\ s.dirty /\ s.jbddirty)
         /\ r.jbddirty = (s.dirty \/ s.jbddirty) /\ r.freed = s.freed
         /\ r.bug = (s.bug \/ s.b_transaction \notin {0, t})
<1>1. jlist \in Lists
  BY DEF Lists
<1> QED
  BY <1>1, Filed DEF SameContents

\* A buffer is put on the list of the data of the transaction.
LEMMA FiledData ==
  ASSUME NEW s \in Buffer, NEW t \in 0 .. MaxTid, s.b_transaction # 0, s.b_jlist = "Reserved"
  PROVE  LET r == file(s, t, "Dirtydata") IN
         /\ r \in Buffer /\ r.b_transaction = t /\ r.b_next_transaction = s.b_next_transaction
         /\ r.b_jlist = "Dirtydata" /\ r.b_modified = s.b_modified
         /\ r.b_frozen_data = s.b_frozen_data /\ r.b_cp_transaction = s.b_cp_transaction
         /\ r.data = s.data /\ r.dirty = (s.dirty \/ s.jbddirty) /\ ~r.jbddirty
         /\ r.freed = s.freed /\ r.bug = (s.bug \/ s.b_transaction \notin {0, t})
<1>1. "Dirtydata" \in Lists
  BY DEF Lists
<1>2. s.b_jlist # "Dirtydata" /\ s.b_jlist # "None"
  OBVIOUS
<1>3. "Dirtydata" \notin {"Metadata", "Reserved", "Shadow", "Forget"}
  OBVIOUS
<1>4. s.dirty \in BOOLEAN /\ s.jbddirty \in BOOLEAN
  BY Fields
<1> DEFINE r == file(s, t, "Dirtydata")
<1>5. /\ r.dirty = (s.dirty \/ (s.b_transaction # 0 /\ s.b_jlist # "None" /\ s.jbddirty))
      /\ r.jbddirty = (s.jbddirty /\ ~(s.b_transaction # 0 /\ s.b_jlist # "None"))
  BY <1>1, <1>2, <1>3, Filed
<1>6. r.dirty = (s.dirty \/ s.jbddirty) /\ ~r.jbddirty
  BY <1>2, <1>4, <1>5
<1>7. r \in Buffer /\ SameContents(r, s) /\ r.b_transaction = t
      /\ r.b_next_transaction = s.b_next_transaction
      /\ r.b_jlist = "Dirtydata" /\ r.b_modified = s.b_modified /\ r.b_frozen_data = s.b_frozen_data
      /\ r.bug = (s.bug \/ s.b_transaction \notin {0, t})
  BY <1>1, <1>2, Filed
<1> HIDE DEF r
<1>8. r = file(s, t, "Dirtydata")
  BY DEF r
<1> QED
  BY <1>6, <1>7, <1>8 DEF SameContents


\* dirty_metadata of a buffer that the transaction has already.
LEMMA MetadataAgain ==
  ASSUME NEW s \in Buffer, NEW t \in 0 .. MaxTid, s.b_transaction = t, s.b_jlist = "Metadata"
  PROVE  LET r == Metadata(s, t) IN
         /\ r \in Buffer /\ r.b_transaction = s.b_transaction
         /\ r.b_next_transaction = s.b_next_transaction /\ r.b_jlist = s.b_jlist /\ r.b_modified
         /\ r.b_frozen_data = s.b_frozen_data /\ r.b_cp_transaction = s.b_cp_transaction
         /\ r.data = s.data /\ r.dirty = s.dirty /\ r.jbddirty = s.jbddirty /\ r.freed = s.freed
         /\ r.bug = (s.bug \/ t # running)
<1> DEFINE v == [s EXCEPT !.b_modified = TRUE]
           w == J_ASSERT(v, t = running)
<1>1. Metadata(s, t) = w
  BY DEF Metadata
<1> HIDE DEF v, w
<1>2. /\ v \in Buffer /\ v.b_transaction = s.b_transaction
      /\ v.b_next_transaction = s.b_next_transaction /\ v.b_jlist = s.b_jlist /\ v.b_modified
      /\ v.b_frozen_data = s.b_frozen_data /\ v.b_cp_transaction = s.b_cp_transaction
      /\ v.data = s.data /\ v.dirty = s.dirty /\ v.jbddirty = s.jbddirty /\ v.freed = s.freed
      /\ v.bug = s.bug
  BY DEF v, Buffer
<1>3. /\ w \in Buffer /\ w.b_transaction = v.b_transaction
      /\ w.b_next_transaction = v.b_next_transaction /\ w.b_jlist = v.b_jlist
      /\ w.b_modified = v.b_modified /\ w.b_frozen_data = v.b_frozen_data
      /\ w.b_cp_transaction = v.b_cp_transaction /\ w.data = v.data /\ w.dirty = v.dirty
      /\ w.jbddirty = v.jbddirty /\ w.freed = v.freed /\ w.bug = (v.bug \/ t # running)
  BY <1>2 DEF w, Buffer, J_ASSERT
<1>4. /\ w \in Buffer /\ w.b_transaction = s.b_transaction
      /\ w.b_next_transaction = s.b_next_transaction /\ w.b_jlist = s.b_jlist /\ w.b_modified
      /\ w.b_frozen_data = s.b_frozen_data /\ w.b_cp_transaction = s.b_cp_transaction
      /\ w.data = s.data /\ w.dirty = s.dirty /\ w.jbddirty = s.jbddirty /\ w.freed = s.freed
      /\ w.bug = (s.bug \/ t # running)
  BY <1>2, <1>3, Fields
<1> QED
  BY <1>1, <1>4

\* dirty_metadata of a buffer of the committing transaction.
LEMMA MetadataOlder ==
  ASSUME NEW s \in Buffer, NEW t \in 0 .. MaxTid, s.b_transaction # t
  PROVE  LET r == Metadata(s, t) IN
         /\ r \in Buffer /\ r.b_transaction = s.b_transaction
         /\ r.b_next_transaction = s.b_next_transaction /\ r.b_jlist = s.b_jlist /\ r.b_modified
         /\ r.b_frozen_data = s.b_frozen_data /\ r.b_cp_transaction = s.b_cp_transaction
         /\ r.data = s.data /\ r.dirty = s.dirty /\ r.jbddirty /\ r.freed = s.freed
         /\ r.bug = (s.bug \/ ~(s.b_transaction = committing /\ s.b_next_transaction = t))
<1> DEFINE v == [s EXCEPT !.b_modified = TRUE, !.jbddirty = TRUE]
           w == J_ASSERT(v, s.b_transaction = committing /\ s.b_next_transaction = t)
<1>1. Metadata(s, t) = w
  BY DEF Metadata
<1> HIDE DEF v, w
<1>2. /\ v \in Buffer /\ v.b_transaction = s.b_transaction
      /\ v.b_next_transaction = s.b_next_transaction /\ v.b_jlist = s.b_jlist /\ v.b_modified
      /\ v.b_frozen_data = s.b_frozen_data /\ v.b_cp_transaction = s.b_cp_transaction
      /\ v.data = s.data /\ v.dirty = s.dirty /\ v.jbddirty /\ v.freed = s.freed /\ v.bug = s.bug
  BY DEF v, Buffer
<1>3. /\ w \in Buffer /\ w.b_transaction = v.b_transaction
      /\ w.b_next_transaction = v.b_next_transaction /\ w.b_jlist = v.b_jlist
      /\ w.b_modified = v.b_modified /\ w.b_frozen_data = v.b_frozen_data
      /\ w.b_cp_transaction = v.b_cp_transaction /\ w.data = v.data /\ w.dirty = v.dirty
      /\ w.jbddirty = v.jbddirty /\ w.freed = v.freed
      /\ w.bug = (v.bug \/ ~(s.b_transaction = committing /\ s.b_next_transaction = t))
  BY <1>2 DEF w, Buffer, J_ASSERT
<1>4. /\ w \in Buffer /\ w.b_transaction = s.b_transaction
      /\ w.b_next_transaction = s.b_next_transaction /\ w.b_jlist = s.b_jlist /\ w.b_modified
      /\ w.b_frozen_data = s.b_frozen_data /\ w.b_cp_transaction = s.b_cp_transaction
      /\ w.data = s.data /\ w.dirty = s.dirty /\ w.jbddirty /\ w.freed = s.freed
      /\ w.bug = (s.bug \/ ~(s.b_transaction = committing /\ s.b_next_transaction = t))
  BY <1>2, <1>3, Fields
<1> QED
  BY <1>1, <1>4

\* dirty_metadata of a buffer that the transaction has on another list.
LEMMA MetadataFiled ==
  ASSUME NEW s \in Buffer, NEW t \in 0 .. MaxTid, t # 0, s.b_transaction = t, s.b_jlist # "Metadata"
  PROVE  LET r == Metadata(s, t) IN
         /\ r \in Buffer /\ r.b_transaction = s.b_transaction
         /\ r.b_next_transaction = s.b_next_transaction /\ r.b_jlist = "Metadata" /\ r.b_modified
         /\ r.b_frozen_data = s.b_frozen_data /\ r.b_cp_transaction = s.b_cp_transaction
         /\ r.data = s.data /\ r.dirty = (s.dirty /\ s.b_jlist # "None") /\ r.jbddirty
         /\ r.freed = s.freed /\ r.bug = (s.bug \/ s.b_frozen_data # None)
<1> DEFINE v == [s EXCEPT !.b_modified = TRUE, !.jbddirty = TRUE]
           w == J_ASSERT(v, s.b_frozen_data = None)
           x == file(w, t, "Metadata")
<1>1. Metadata(s, t) = x
  BY DEF Metadata
<1> HIDE DEF v, w, x
<1>2. /\ v \in Buffer /\ v.b_transaction = s.b_transaction
      /\ v.b_next_transaction = s.b_next_transaction /\ v.b_jlist = s.b_jlist /\ v.b_modified
      /\ v.b_frozen_data = s.b_frozen_data /\ v.b_cp_transaction = s.b_cp_transaction
      /\ v.data = s.data /\ v.dirty = s.dirty /\ v.jbddirty /\ v.freed = s.freed /\ v.bug = s.bug
  BY DEF v, Buffer
<1>3. /\ w \in Buffer /\ w.b_transaction = v.b_transaction
      /\ w.b_next_transaction = v.b_next_transaction /\ w.b_jlist = v.b_jlist
      /\ w.b_modified = v.b_modified /\ w.b_frozen_data = v.b_frozen_data
      /\ w.b_cp_transaction = v.b_cp_transaction /\ w.data = v.data /\ w.dirty = v.dirty
      /\ w.jbddirty = v.jbddirty /\ w.freed = v.freed /\ w.bug = (v.bug \/ s.b_frozen_data # None)
  BY <1>2 DEF w, Buffer, J_ASSERT
<1>4. w \in Buffer /\ ~(w.b_transaction # 0 /\ w.b_jlist = "Metadata")
  BY <1>2, <1>3
<1>5. /\ x \in Buffer /\ x.b_transaction = t /\ x.b_next_transaction = w.b_next_transaction
      /\ x.b_jlist = "Metadata" /\ x.b_modified = w.b_modified
      /\ x.b_frozen_data = w.b_frozen_data /\ x.b_cp_transaction = w.b_cp_transaction
      /\ x.data = w.data
      /\ x.dirty = (w.b_transaction # 0 /\ w.b_jlist # "None" /\ w.dirty /\ w.jbddirty)
      /\ x.jbddirty = (w.dirty \/ w.jbddirty) /\ x.freed = w.freed
      /\ x.bug = (w.bug \/ w.b_transaction \notin {0, t})
  BY <1>4, FiledJournal DEF x
<1>6. /\ x \in Buffer /\ x.b_transaction = s.b_transaction
      /\ x.b_next_transaction = s.b_next_transaction /\ x.b_jlist = "Metadata" /\ x.b_modified
      /\ x.b_frozen_data = s.b_frozen_data /\ x.b_cp_transaction = s.b_cp_transaction
      /\ x.data = s.data /\ x.dirty = (s.dirty /\ s.b_jlist # "None") /\ x.jbddirty
      /\ x.freed = s.freed /\ x.bug = (s.bug \/ s.b_frozen_data # None)
  BY <1>2, <1>3, <1>5, Fields
<1> QED
  BY <1>1, <1>6

\* An append is filed for its data to be written in place.
LEMMA DirtydataFiled ==
  ASSUME NEW s \in Buffer, NEW t \in 0 .. MaxTid, t # 0, s.b_transaction = t, s.b_jlist = "Reserved"
  PROVE  LET r == Dirtydata(s, t) IN
         /\ r \in Buffer /\ r.b_transaction = s.b_transaction
         /\ r.b_next_transaction = s.b_next_transaction /\ r.b_jlist = "Dirtydata" /\ r.b_modified
         /\ r.b_frozen_data = s.b_frozen_data /\ r.b_cp_transaction = s.b_cp_transaction
         /\ r.data = s.data /\ r.dirty /\ ~r.jbddirty /\ r.freed = s.freed /\ r.bug = s.bug
<1> DEFINE v == [s EXCEPT !.b_modified = TRUE, !.jbddirty = TRUE]
           w == file(v, t, "Dirtydata")
<1>1. Dirtydata(s, t) = w
  BY DEF Dirtydata
<1> HIDE DEF v, w
<1>2. /\ v \in Buffer /\ v.b_transaction = s.b_transaction
      /\ v.b_next_transaction = s.b_next_transaction /\ v.b_jlist = s.b_jlist /\ v.b_modified
      /\ v.b_frozen_data = s.b_frozen_data /\ v.b_cp_transaction = s.b_cp_transaction
      /\ v.data = s.data /\ v.dirty = s.dirty /\ v.jbddirty /\ v.freed = s.freed /\ v.bug = s.bug
  BY DEF v, Buffer
<1>3. v \in Buffer /\ v.b_transaction # 0 /\ v.b_jlist = "Reserved"
  BY <1>2
<1>4. /\ w \in Buffer /\ w.b_transaction = t /\ w.b_next_transaction = v.b_next_transaction
      /\ w.b_jlist = "Dirtydata" /\ w.b_modified = v.b_modified
      /\ w.b_frozen_data = v.b_frozen_data /\ w.b_cp_transaction = v.b_cp_transaction
      /\ w.data = v.data /\ w.dirty = (v.dirty \/ v.jbddirty) /\ ~w.jbddirty /\ w.freed = v.freed
      /\ w.bug = (v.bug \/ v.b_transaction \notin {0, t})
  BY <1>3, FiledData DEF w
<1>5. /\ w \in Buffer /\ w.b_transaction = s.b_transaction
      /\ w.b_next_transaction = s.b_next_transaction /\ w.b_jlist = "Dirtydata" /\ w.b_modified
      /\ w.b_frozen_data = s.b_frozen_data /\ w.b_cp_transaction = s.b_cp_transaction
      /\ w.data = s.data /\ w.dirty /\ ~w.jbddirty /\ w.freed = s.freed /\ w.bug = s.bug
  BY <1>2, <1>4, Fields
<1> QED
  BY <1>1, <1>5

\* get_create_access of a buffer that no transaction has.
LEMMA CreateFiled ==
  ASSUME NEW s \in Buffer, NEW t \in 0 .. MaxTid, t # 0, s.b_transaction = 0
  PROVE  LET r == CreateAccess(s, t) IN
         /\ r \in Buffer /\ r.b_transaction = t /\ r.b_next_transaction = s.b_next_transaction
         /\ r.b_jlist = "Reserved" /\ ~r.b_modified /\ r.b_frozen_data = s.b_frozen_data
         /\ r.b_cp_transaction = s.b_cp_transaction /\ r.data = s.data /\ ~r.dirty
         /\ r.jbddirty = s.jbddirty /\ r.freed = s.freed
         /\ r.bug = (s.bug \/ s.b_next_transaction # 0)
<1> DEFINE v == J_ASSERT(s, (s.b_transaction \in {0, t} \/ (s.b_transaction = committing /\ s.b_jlist = "Forget")) /\ s.b_next_transaction = 0)
           w == [v EXCEPT !.dirty = FALSE, !.b_modified = FALSE]
           x == file(w, t, "Reserved")
<1>1. CreateAccess(s, t) = x
  BY DEF CreateAccess
<1> HIDE DEF v, w, x
<1>2. /\ v \in Buffer /\ v.b_transaction = s.b_transaction
      /\ v.b_next_transaction = s.b_next_transaction /\ v.b_jlist = s.b_jlist
      /\ v.b_modified = s.b_modified /\ v.b_frozen_data = s.b_frozen_data
      /\ v.b_cp_transaction = s.b_cp_transaction /\ v.data = s.data /\ v.dirty = s.dirty
      /\ v.jbddirty = s.jbddirty /\ v.freed = s.freed
      /\ v.bug = (s.bug \/ s.b_next_transaction # 0)
  BY DEF v, Buffer, J_ASSERT
<1>3. /\ w \in Buffer /\ w.b_transaction = v.b_transaction
      /\ w.b_next_transaction = v.b_next_transaction /\ w.b_jlist = v.b_jlist /\ ~w.b_modified
      /\ w.b_frozen_data = v.b_frozen_data /\ w.b_cp_transaction = v.b_cp_transaction
      /\ w.data = v.data /\ ~w.dirty /\ w.jbddirty = v.jbddirty /\ w.freed = v.freed
      /\ w.bug = v.bug
  BY <1>2 DEF w, Buffer
<1>4. w \in Buffer /\ ~(w.b_transaction # 0 /\ w.b_jlist = "Reserved")
  BY <1>2, <1>3
<1>5. /\ x \in Buffer /\ x.b_transaction = t /\ x.b_next_transaction = w.b_next_transaction
      /\ x.b_jlist = "Reserved" /\ x.b_modified = w.b_modified
      /\ x.b_frozen_data = w.b_frozen_data /\ x.b_cp_transaction = w.b_cp_transaction
      /\ x.data = w.data
      /\ x.dirty = (w.b_transaction # 0 /\ w.b_jlist # "None" /\ w.dirty /\ w.jbddirty)
      /\ x.jbddirty = (w.dirty \/ w.jbddirty) /\ x.freed = w.freed
      /\ x.bug = (w.bug \/ w.b_transaction \notin {0, t})
  BY <1>4, FiledJournal DEF x
<1>6. /\ x \in Buffer /\ x.b_transaction = t /\ x.b_next_transaction = s.b_next_transaction
      /\ x.b_jlist = "Reserved" /\ ~x.b_modified /\ x.b_frozen_data = s.b_frozen_data
      /\ x.b_cp_transaction = s.b_cp_transaction /\ x.data = s.data /\ ~x.dirty
      /\ x.jbddirty = s.jbddirty /\ x.freed = s.freed
      /\ x.bug = (s.bug \/ s.b_next_transaction # 0)
  BY <1>2, <1>3, <1>5, Fields
<1> QED
  BY <1>1, <1>6

\* forget of a buffer of the transaction that a checkpoint holds.
LEMMA ForgetPinned ==
  ASSUME NEW s \in Buffer, NEW t \in 0 .. MaxTid, t # 0, s.b_transaction = t, s.b_cp_transaction # 0
  PROVE  LET r == Forget(s, t) IN
         /\ r \in Buffer /\ r.b_transaction = s.b_transaction
         /\ r.b_next_transaction = s.b_next_transaction /\ r.b_jlist = "Forget" /\ ~r.b_modified
         /\ r.b_frozen_data = s.b_frozen_data /\ r.b_cp_transaction = s.b_cp_transaction
         /\ r.data = s.data /\ ~r.dirty /\ ~r.jbddirty /\ r.freed = s.freed
         /\ r.bug = (s.bug \/ s.b_frozen_data # None)
<1> DEFINE u == [s EXCEPT !.b_modified = FALSE]
           v == J_ASSERT(u, s.b_frozen_data = None)
           w == [v EXCEPT !.dirty = FALSE, !.jbddirty = FALSE]
           x == temp_unlink(w)
           y == file(x, t, "Forget")
<1>1. Forget(s, t) = y
  BY DEF Forget
<1> HIDE DEF u, v, w, x, y
<1>2. /\ u \in Buffer /\ u.b_transaction = s.b_transaction
      /\ u.b_next_transaction = s.b_next_transaction /\ u.b_jlist = s.b_jlist /\ ~u.b_modified
      /\ u.b_frozen_data = s.b_frozen_data /\ u.b_cp_transaction = s.b_cp_transaction
      /\ u.data = s.data /\ u.dirty = s.dirty /\ u.jbddirty = s.jbddirty /\ u.freed = s.freed
      /\ u.bug = s.bug
  BY DEF u, Buffer
<1>3. /\ v \in Buffer /\ v.b_transaction = u.b_transaction
      /\ v.b_next_transaction = u.b_next_transaction /\ v.b_jlist = u.b_jlist
      /\ v.b_modified = u.b_modified /\ v.b_frozen_data = u.b_frozen_data
      /\ v.b_cp_transaction = u.b_cp_transaction /\ v.data = u.data /\ v.dirty = u.dirty
      /\ v.jbddirty = u.jbddirty /\ v.freed = u.freed /\ v.bug = (u.bug \/ s.b_frozen_data # None)
  BY <1>2 DEF v, Buffer, J_ASSERT
<1>4. /\ w \in Buffer /\ w.b_transaction = v.b_transaction
      /\ w.b_next_transaction = v.b_next_transaction /\ w.b_jlist = v.b_jlist
      /\ w.b_modified = v.b_modified /\ w.b_frozen_data = v.b_frozen_data
      /\ w.b_cp_transaction = v.b_cp_transaction /\ w.data = v.data /\ ~w.dirty /\ ~w.jbddirty
      /\ w.freed = v.freed /\ w.bug = v.bug
  BY <1>3 DEF w, Buffer
<1>5. /\ x \in Buffer /\ x.b_transaction = w.b_transaction
      /\ x.b_next_transaction = w.b_next_transaction /\ x.b_jlist = "None"
      /\ x.b_modified = w.b_modified /\ x.b_frozen_data = w.b_frozen_data
      /\ x.b_cp_transaction = w.b_cp_transaction /\ x.data = w.data /\ ~x.dirty /\ ~x.jbddirty
      /\ x.freed = w.freed /\ x.bug = w.bug
  BY <1>4, Unlinked, Fields DEF x, SameContents
<1>6. x \in Buffer /\ ~(x.b_transaction # 0 /\ x.b_jlist = "Forget")
  BY <1>2, <1>3, <1>4, <1>5
<1>7. /\ y \in Buffer /\ y.b_transaction = t /\ y.b_next_transaction = x.b_next_transaction
      /\ y.b_jlist = "Forget" /\ y.b_modified = x.b_modified /\ y.b_frozen_data = x.b_frozen_data
      /\ y.b_cp_transaction = x.b_cp_transaction /\ y.data = x.data
      /\ y.dirty = (x.b_transaction # 0 /\ x.b_jlist # "None" /\ x.dirty /\ x.jbddirty)
      /\ y.jbddirty = (x.dirty \/ x.jbddirty) /\ y.freed = x.freed
      /\ y.bug = (x.bug \/ x.b_transaction \notin {0, t})
  BY <1>6, FiledJournal DEF y
<1>8. /\ y \in Buffer /\ y.b_transaction = s.b_transaction
      /\ y.b_next_transaction = s.b_next_transaction /\ y.b_jlist = "Forget" /\ ~y.b_modified
      /\ y.b_frozen_data = s.b_frozen_data /\ y.b_cp_transaction = s.b_cp_transaction
      /\ y.data = s.data /\ ~y.dirty /\ ~y.jbddirty /\ y.freed = s.freed
      /\ y.bug = (s.bug \/ s.b_frozen_data # None)
  BY <1>2, <1>3, <1>4, <1>5, <1>7, Fields
<1> QED
  BY <1>1, <1>8

\* forget of a buffer of the transaction that no checkpoint holds.
LEMMA ForgetUnfiled ==
  ASSUME NEW s \in Buffer, NEW t \in 0 .. MaxTid, t # 0, s.b_transaction = t, s.b_cp_transaction = 0
  PROVE  LET r == Forget(s, t) IN
         /\ r \in Buffer /\ r.b_transaction = 0 /\ r.b_next_transaction = s.b_next_transaction
         /\ r.b_jlist = "None" /\ ~r.b_modified /\ r.b_frozen_data = None
         /\ r.b_cp_transaction = s.b_cp_transaction /\ r.data = s.data /\ ~r.dirty /\ ~r.jbddirty
         /\ r.freed = s.freed
         /\ r.bug = (s.bug \/ s.b_frozen_data # None \/ s.b_next_transaction # 0)
<1> DEFINE u == [s EXCEPT !.b_modified = FALSE]
           v == J_ASSERT(u, s.b_frozen_data = None)
           w == [v EXCEPT !.dirty = FALSE, !.jbddirty = FALSE]
           x == unfile(w)
<1>1. Forget(s, t) = x
  BY DEF Forget
<1> HIDE DEF u, v, w, x
<1>2. /\ u \in Buffer /\ u.b_transaction = s.b_transaction
      /\ u.b_next_transaction = s.b_next_transaction /\ u.b_jlist = s.b_jlist /\ ~u.b_modified
      /\ u.b_frozen_data = s.b_frozen_data /\ u.b_cp_transaction = s.b_cp_transaction
      /\ u.data = s.data /\ u.dirty = s.dirty /\ u.jbddirty = s.jbddirty /\ u.freed = s.freed
      /\ u.bug = s.bug
  BY DEF u, Buffer
<1>3. /\ v \in Buffer /\ v.b_transaction = u.b_transaction
      /\ v.b_next_transaction = u.b_next_transaction /\ v.b_jlist = u.b_jlist
      /\ v.b_modified = u.b_modified /\ v.b_frozen_data = u.b_frozen_data
      /\ v.b_cp_transaction = u.b_cp_transaction /\ v.data = u.data /\ v.dirty = u.dirty
      /\ v.jbddirty = u.jbddirty /\ v.freed = u.freed /\ v.bug = (u.bug \/ s.b_frozen_data # None)
  BY <1>2 DEF v, Buffer, J_ASSERT
<1>4. /\ w \in Buffer /\ w.b_transaction = v.b_transaction
      /\ w.b_next_transaction = v.b_next_transaction /\ w.b_jlist = v.b_jlist
      /\ w.b_modified = v.b_modified /\ w.b_frozen_data = v.b_frozen_data
      /\ w.b_cp_transaction = v.b_cp_transaction /\ w.data = v.data /\ ~w.dirty /\ ~w.jbddirty
      /\ w.freed = v.freed /\ w.bug = v.bug
  BY <1>3 DEF w, Buffer
<1>5. /\ x \in Buffer /\ x.b_transaction = 0 /\ x.b_next_transaction = w.b_next_transaction
      /\ x.b_jlist = "None" /\ ~x.b_modified /\ x.b_frozen_data = None
      /\ x.b_cp_transaction = w.b_cp_transaction /\ x.data = w.data /\ ~x.dirty /\ ~x.jbddirty
      /\ x.freed = w.freed /\ x.bug = (w.bug \/ w.b_next_transaction # 0)
  BY <1>4, <1>2, <1>3, Unfiled, Fields DEF x, SameContents
<1>6. /\ x \in Buffer /\ x.b_transaction = 0 /\ x.b_next_transaction = s.b_next_transaction
      /\ x.b_jlist = "None" /\ ~x.b_modified /\ x.b_frozen_data = None
      /\ x.b_cp_transaction = s.b_cp_transaction /\ x.data = s.data /\ ~x.dirty /\ ~x.jbddirty
      /\ x.freed = s.freed
      /\ x.bug = (s.bug \/ s.b_frozen_data # None \/ s.b_next_transaction # 0)
  BY <1>2, <1>3, <1>4, <1>5, Fields
<1> QED
  BY <1>1, <1>6

\* forget of a buffer of the committing transaction.
LEMMA ForgetOlder ==
  ASSUME NEW s \in Buffer, NEW t \in 0 .. MaxTid, s.b_transaction # t, s.b_transaction # 0
  PROVE  LET r == Forget(s, t) IN
         /\ r \in Buffer /\ r.b_transaction = s.b_transaction /\ r.b_next_transaction = 0
         /\ r.b_jlist = s.b_jlist /\ ~r.b_modified /\ r.b_frozen_data = s.b_frozen_data
         /\ r.b_cp_transaction = s.b_cp_transaction /\ r.data = s.data /\ r.dirty = s.dirty
         /\ r.jbddirty = s.jbddirty /\ r.freed = s.freed
         /\ r.bug = (s.bug \/ ~(s.b_transaction = committing /\ s.b_next_transaction \in {0, t}))
<1> DEFINE u == [s EXCEPT !.b_modified = FALSE]
           v == J_ASSERT(u, /\ s.b_transaction = committing /\ s.b_next_transaction \in {0, t})
           w == [v EXCEPT !.b_next_transaction = 0]
<1>1. Forget(s, t) = w
  BY DEF Forget
<1> HIDE DEF u, v, w
<1>2. /\ u \in Buffer /\ u.b_transaction = s.b_transaction
      /\ u.b_next_transaction = s.b_next_transaction /\ u.b_jlist = s.b_jlist /\ ~u.b_modified
      /\ u.b_frozen_data = s.b_frozen_data /\ u.b_cp_transaction = s.b_cp_transaction
      /\ u.data = s.data /\ u.dirty = s.dirty /\ u.jbddirty = s.jbddirty /\ u.freed = s.freed
      /\ u.bug = s.bug
  BY DEF u, Buffer
<1>3. /\ v \in Buffer /\ v.b_transaction = u.b_transaction
      /\ v.b_next_transaction = u.b_next_transaction /\ v.b_jlist = u.b_jlist
      /\ v.b_modified = u.b_modified /\ v.b_frozen_data = u.b_frozen_data
      /\ v.b_cp_transaction = u.b_cp_transaction /\ v.data = u.data /\ v.dirty = u.dirty
      /\ v.jbddirty = u.jbddirty /\ v.freed = u.freed
      /\ v.bug = (u.bug \/ ~(s.b_transaction = committing /\ s.b_next_transaction \in {0, t}))
  BY <1>2 DEF v, Buffer, J_ASSERT
<1>4. /\ w \in Buffer /\ w.b_transaction = v.b_transaction /\ w.b_next_transaction = 0
      /\ w.b_jlist = v.b_jlist /\ w.b_modified = v.b_modified /\ w.b_frozen_data = v.b_frozen_data
      /\ w.b_cp_transaction = v.b_cp_transaction /\ w.data = v.data /\ w.dirty = v.dirty
      /\ w.jbddirty = v.jbddirty /\ w.freed = v.freed /\ w.bug = v.bug
  BY <1>3, Constant DEF w, Buffer
<1>5. /\ w \in Buffer /\ w.b_transaction = s.b_transaction /\ w.b_next_transaction = 0
      /\ w.b_jlist = s.b_jlist /\ ~w.b_modified /\ w.b_frozen_data = s.b_frozen_data
      /\ w.b_cp_transaction = s.b_cp_transaction /\ w.data = s.data /\ w.dirty = s.dirty
      /\ w.jbddirty = s.jbddirty /\ w.freed = s.freed
      /\ w.bug = (s.bug \/ ~(s.b_transaction = committing /\ s.b_next_transaction \in {0, t}))
  BY <1>2, <1>3, <1>4, Fields
<1> QED
  BY <1>1, <1>5

\* forget of a buffer that no transaction has.
LEMMA ForgetNone ==
  ASSUME NEW s \in Buffer, NEW t \in 0 .. MaxTid, t # 0, s.b_transaction = 0
  PROVE  LET r == Forget(s, t) IN
         /\ r \in Buffer /\ r.b_transaction = s.b_transaction
         /\ r.b_next_transaction = s.b_next_transaction /\ r.b_jlist = s.b_jlist
         /\ r.b_modified = (s.b_modified /\ s.b_cp_transaction = 0)
         /\ r.b_frozen_data = s.b_frozen_data /\ r.b_cp_transaction = s.b_cp_transaction
         /\ r.data = s.data /\ r.dirty = s.dirty /\ r.jbddirty = s.jbddirty /\ r.freed = s.freed
         /\ r.bug = s.bug
<1>1. CASE s.b_cp_transaction = 0
  <2>1. Forget(s, t) = s
    BY <1>1 DEF Forget
  <2> QED
    BY <1>1, <2>1, Fields
<1>2. CASE s.b_cp_transaction # 0
  <2> DEFINE u == [s EXCEPT !.b_modified = FALSE]
  <2>1. Forget(s, t) = u
    BY <1>2 DEF Forget
  <2>2. /\ u \in Buffer /\ u.b_transaction = s.b_transaction
        /\ u.b_next_transaction = s.b_next_transaction /\ u.b_jlist = s.b_jlist /\ ~u.b_modified
        /\ u.b_frozen_data = s.b_frozen_data /\ u.b_cp_transaction = s.b_cp_transaction
        /\ u.data = s.data /\ u.dirty = s.dirty /\ u.jbddirty = s.jbddirty /\ u.freed = s.freed
        /\ u.bug = s.bug
    BY DEF Buffer
  <2> HIDE DEF u
  <2> QED
    BY <1>2, <2>1, <2>2, Fields
<1> QED
  BY <1>1, <1>2

\* The buffer of a truncated block is cleaned.
LEMMA ZapFields ==
  ASSUME NEW s \in Buffer
  PROVE  LET r == Zap(s) IN
         /\ r \in Buffer /\ r.b_transaction = s.b_transaction
         /\ r.b_next_transaction = s.b_next_transaction /\ r.b_jlist = s.b_jlist
         /\ r.b_modified = s.b_modified /\ r.b_frozen_data = s.b_frozen_data
         /\ r.b_cp_transaction = s.b_cp_transaction /\ r.data = s.data /\ ~r.dirty
         /\ r.jbddirty = s.jbddirty /\ r.freed = s.freed /\ r.bug = (s.bug \/ s.jbddirty)
<1> DEFINE u == [s EXCEPT !.dirty = FALSE]
           v == J_ASSERT(u, ~s.jbddirty)
<1>1. Zap(s) = v
  BY DEF Zap
<1> HIDE DEF u, v
<1>2. /\ u \in Buffer /\ u.b_transaction = s.b_transaction
      /\ u.b_next_transaction = s.b_next_transaction /\ u.b_jlist = s.b_jlist
      /\ u.b_modified = s.b_modified /\ u.b_frozen_data = s.b_frozen_data
      /\ u.b_cp_transaction = s.b_cp_transaction /\ u.data = s.data /\ ~u.dirty
      /\ u.jbddirty = s.jbddirty /\ u.freed = s.freed /\ u.bug = s.bug
  BY DEF u, Buffer
<1>3. /\ v \in Buffer /\ v.b_transaction = u.b_transaction
      /\ v.b_next_transaction = u.b_next_transaction /\ v.b_jlist = u.b_jlist
      /\ v.b_modified = u.b_modified /\ v.b_frozen_data = u.b_frozen_data
      /\ v.b_cp_transaction = u.b_cp_transaction /\ v.data = u.data /\ v.dirty = u.dirty
      /\ v.jbddirty = u.jbddirty /\ v.freed = u.freed /\ v.bug = (u.bug \/ s.jbddirty)
  BY <1>2, Fields DEF v, Buffer, J_ASSERT
<1>4. /\ v \in Buffer /\ v.b_transaction = s.b_transaction
      /\ v.b_next_transaction = s.b_next_transaction /\ v.b_jlist = s.b_jlist
      /\ v.b_modified = s.b_modified /\ v.b_frozen_data = s.b_frozen_data
      /\ v.b_cp_transaction = s.b_cp_transaction /\ v.data = s.data /\ ~v.dirty
      /\ v.jbddirty = s.jbddirty /\ v.freed = s.freed /\ v.bug = (s.bug \/ s.jbddirty)
  BY <1>2, <1>3, Fields
<1> QED
  BY <1>1, <1>4

\* A truncated buffer that a checkpoint holds goes to the forget list.
LEMMA DisposePinned ==
  ASSUME NEW s \in Buffer, NEW t \in 0 .. MaxTid, s.b_cp_transaction # 0
  PROVE  LET r == Dispose(s, t) IN
         /\ r \in Buffer /\ r.b_transaction = t /\ r.b_next_transaction = s.b_next_transaction
         /\ r.b_jlist = "Forget" /\ r.b_modified = s.b_modified
         /\ r.b_frozen_data = s.b_frozen_data /\ r.b_cp_transaction = s.b_cp_transaction
         /\ r.data = s.data /\ ~r.dirty /\ r.jbddirty = (s.b_jlist = "None" /\ s.jbddirty)
         /\ r.freed = s.freed /\ r.bug = (s.bug \/ s.b_transaction \notin {0, t})
<1> DEFINE u == temp_unlink(s)
           v == [u EXCEPT !.dirty = FALSE]
           w == file(v, t, "Forget")
<1>1. Dispose(s, t) = w
  BY DEF Dispose
<1> HIDE DEF u, v, w
<1>2. /\ u \in Buffer /\ u.b_transaction = s.b_transaction
      /\ u.b_next_transaction = s.b_next_transaction /\ u.b_jlist = "None"
      /\ u.b_modified = s.b_modified /\ u.b_frozen_data = s.b_frozen_data
      /\ u.b_cp_transaction = s.b_cp_transaction /\ u.data = s.data
      /\ u.dirty = (s.dirty \/ (s.b_jlist # "None" /\ s.jbddirty))
      /\ u.jbddirty = (s.b_jlist = "None" /\ s.jbddirty) /\ u.freed = s.freed /\ u.bug = s.bug
  BY Unlinked DEF u, SameContents
<1>3. /\ v \in Buffer /\ v.b_transaction = u.b_transaction
      /\ v.b_next_transaction = u.b_next_transaction /\ v.b_jlist = u.b_jlist
      /\ v.b_modified = u.b_modified /\ v.b_frozen_data = u.b_frozen_data
      /\ v.b_cp_transaction = u.b_cp_transaction /\ v.data = u.data /\ ~v.dirty
      /\ v.jbddirty = u.jbddirty /\ v.freed = u.freed /\ v.bug = u.bug
  BY <1>2 DEF v, Buffer
<1>4. v \in Buffer /\ ~(v.b_transaction # 0 /\ v.b_jlist = "Forget")
  BY <1>2, <1>3
<1>5. /\ w \in Buffer /\ w.b_transaction = t /\ w.b_next_transaction = v.b_next_transaction
      /\ w.b_jlist = "Forget" /\ w.b_modified = v.b_modified /\ w.b_frozen_data = v.b_frozen_data
      /\ w.b_cp_transaction = v.b_cp_transaction /\ w.data = v.data
      /\ w.dirty = (v.b_transaction # 0 /\ v.b_jlist # "None" /\ v.dirty /\ v.jbddirty)
      /\ w.jbddirty = (v.dirty \/ v.jbddirty) /\ w.freed = v.freed
      /\ w.bug = (v.bug \/ v.b_transaction \notin {0, t})
  BY <1>4, FiledJournal DEF w
<1>6. /\ w \in Buffer /\ w.b_transaction = t /\ w.b_next_transaction = s.b_next_transaction
      /\ w.b_jlist = "Forget" /\ w.b_modified = s.b_modified /\ w.b_frozen_data = s.b_frozen_data
      /\ w.b_cp_transaction = s.b_cp_transaction /\ w.data = s.data /\ ~w.dirty
      /\ w.jbddirty = (s.b_jlist = "None" /\ s.jbddirty) /\ w.freed = s.freed
      /\ w.bug = (s.bug \/ s.b_transaction \notin {0, t})
  BY <1>2, <1>3, <1>5, Fields
<1> QED
  BY <1>1, <1>6

\* A truncated buffer that no checkpoint holds leaves its transaction.
LEMMA DisposeUnfiled ==
  ASSUME NEW s \in Buffer, NEW t \in 0 .. MaxTid, s.b_cp_transaction = 0
  PROVE  LET r == Dispose(s, t) IN
         /\ r \in Buffer /\ r.b_transaction = 0 /\ r.b_next_transaction = s.b_next_transaction
         /\ r.b_jlist = "None" /\ ~r.b_modified /\ r.b_frozen_data = None
         /\ r.b_cp_transaction = s.b_cp_transaction /\ r.data = s.data
         /\ r.dirty = (s.dirty \/ (s.b_jlist # "None" /\ s.jbddirty))
         /\ r.jbddirty = (s.b_jlist = "None" /\ s.jbddirty) /\ r.freed = s.freed
         /\ r.bug = (s.bug \/ s.b_next_transaction # 0)
<1> DEFINE u == unfile(s)
<1>1. Dispose(s, t) = u
  BY DEF Dispose
<1> HIDE DEF u
<1>2. /\ u \in Buffer /\ u.b_transaction = 0 /\ u.b_next_transaction = s.b_next_transaction
      /\ u.b_jlist = "None" /\ ~u.b_modified /\ u.b_frozen_data = None
      /\ u.b_cp_transaction = s.b_cp_transaction /\ u.data = s.data
      /\ u.dirty = (s.dirty \/ (s.b_jlist # "None" /\ s.jbddirty))
      /\ u.jbddirty = (s.b_jlist = "None" /\ s.jbddirty) /\ u.freed = s.freed
      /\ u.bug = (s.bug \/ s.b_next_transaction # 0)
  BY Unfiled, Fields DEF u, SameContents
<1> QED
  BY <1>1, <1>2

\* A buffer of no transaction that no checkpoint waits for is cleaned.
LEMMA UnmapClean ==
  ASSUME NEW s \in Buffer, running \in 0 .. MaxTid, committing \in 0 .. MaxTid,
         s.b_transaction = 0, s.b_cp_transaction = 0 \/ ~s.dirty
  PROVE  LET r == Unmap(s) IN
         /\ r \in Buffer /\ r.b_transaction = s.b_transaction
         /\ r.b_next_transaction = s.b_next_transaction /\ r.b_jlist = s.b_jlist
         /\ r.b_modified = s.b_modified /\ r.b_frozen_data = s.b_frozen_data
         /\ r.b_cp_transaction = s.b_cp_transaction /\ r.data = s.data /\ ~r.dirty
         /\ r.jbddirty = s.jbddirty /\ r.freed = s.freed /\ r.bug = (s.bug \/ s.jbddirty)
<1> DEFINE v == Zap(s)
<1>1. Unmap(s) = v
  BY DEF Unmap
<1> HIDE DEF v
<1>2. /\ v \in Buffer /\ v.b_transaction = s.b_transaction
      /\ v.b_next_transaction = s.b_next_transaction /\ v.b_jlist = s.b_jlist
      /\ v.b_modified = s.b_modified /\ v.b_frozen_data = s.b_frozen_data
      /\ v.b_cp_transaction = s.b_cp_transaction /\ v.data = s.data /\ ~v.dirty
      /\ v.jbddirty = s.jbddirty /\ v.freed = s.freed /\ v.bug = (s.bug \/ s.jbddirty)
  BY ZapFields DEF v
<1> QED
  BY <1>1, <1>2

\* A buffer that a checkpoint waits for is given to the running transaction.
LEMMA UnmapRunning ==
  ASSUME NEW s \in Buffer, running \in 0 .. MaxTid, committing \in 0 .. MaxTid,
         s.b_transaction = 0, s.b_cp_transaction # 0, s.dirty, running # 0
  PROVE  LET r == Unmap(s) IN
         /\ r \in Buffer /\ r.b_transaction = running
         /\ r.b_next_transaction = s.b_next_transaction /\ r.b_jlist = "Forget"
         /\ r.b_modified = s.b_modified /\ r.b_frozen_data = s.b_frozen_data
         /\ r.b_cp_transaction = s.b_cp_transaction /\ r.data = s.data /\ ~r.dirty
         /\ r.jbddirty = (s.b_jlist = "None" /\ s.jbddirty) /\ r.freed = s.freed /\ r.bug = s.bug
<1> DEFINE v == Dispose(s, running)
<1>1. Unmap(s) = v
  BY DEF Unmap
<1> HIDE DEF v
<1>2. /\ v \in Buffer /\ v.b_transaction = running /\ v.b_next_transaction = s.b_next_transaction
      /\ v.b_jlist = "Forget" /\ v.b_modified = s.b_modified /\ v.b_frozen_data = s.b_frozen_data
      /\ v.b_cp_transaction = s.b_cp_transaction /\ v.data = s.data /\ ~v.dirty
      /\ v.jbddirty = (s.b_jlist = "None" /\ s.jbddirty) /\ v.freed = s.freed
      /\ v.bug = (s.bug \/ s.b_transaction \notin {0, running})
  BY DisposePinned DEF v
<1>3. /\ v \in Buffer /\ v.b_transaction = running /\ v.b_next_transaction = s.b_next_transaction
      /\ v.b_jlist = "Forget" /\ v.b_modified = s.b_modified /\ v.b_frozen_data = s.b_frozen_data
      /\ v.b_cp_transaction = s.b_cp_transaction /\ v.data = s.data /\ ~v.dirty
      /\ v.jbddirty = (s.b_jlist = "None" /\ s.jbddirty) /\ v.freed = s.freed /\ v.bug = s.bug
  BY <1>2, Fields
<1> QED
  BY <1>1, <1>3

\* Without a running transaction it is given to the committing one.
LEMMA UnmapCommitting ==
  ASSUME NEW s \in Buffer, running \in 0 .. MaxTid, committing \in 0 .. MaxTid,
         s.b_transaction = 0, s.b_cp_transaction # 0, s.dirty, running = 0, committing # 0
  PROVE  LET r == Unmap(s) IN
         /\ r \in Buffer /\ r.b_transaction = committing
         /\ r.b_next_transaction = s.b_next_transaction /\ r.b_jlist = "Forget"
         /\ r.b_modified = s.b_modified /\ r.b_frozen_data = s.b_frozen_data
         /\ r.b_cp_transaction = s.b_cp_transaction /\ r.data = s.data /\ ~r.dirty
         /\ r.jbddirty = (s.b_jlist = "None" /\ s.jbddirty) /\ r.freed = s.freed /\ r.bug = s.bug
<1> DEFINE v == Dispose(s, committing)
<1>1. Unmap(s) = v
  BY DEF Unmap
<1> HIDE DEF v
<1>2. /\ v \in Buffer /\ v.b_transaction = committing
      /\ v.b_next_transaction = s.b_next_transaction /\ v.b_jlist = "Forget"
      /\ v.b_modified = s.b_modified /\ v.b_frozen_data = s.b_frozen_data
      /\ v.b_cp_transaction = s.b_cp_transaction /\ v.data = s.data /\ ~v.dirty
      /\ v.jbddirty = (s.b_jlist = "None" /\ s.jbddirty) /\ v.freed = s.freed
      /\ v.bug = (s.bug \/ s.b_transaction \notin {0, committing})
  BY DisposePinned DEF v
<1>3. /\ v \in Buffer /\ v.b_transaction = committing
      /\ v.b_next_transaction = s.b_next_transaction /\ v.b_jlist = "Forget"
      /\ v.b_modified = s.b_modified /\ v.b_frozen_data = s.b_frozen_data
      /\ v.b_cp_transaction = s.b_cp_transaction /\ v.data = s.data /\ ~v.dirty
      /\ v.jbddirty = (s.b_jlist = "None" /\ s.jbddirty) /\ v.freed = s.freed /\ v.bug = s.bug
  BY <1>2, Fields
<1> QED
  BY <1>1, <1>3

\* Without any transaction it is cleaned.
LEMMA UnmapIdle ==
  ASSUME NEW s \in Buffer, running \in 0 .. MaxTid, committing \in 0 .. MaxTid,
         s.b_transaction = 0, s.b_cp_transaction # 0, s.dirty, running = 0, committing = 0
  PROVE  LET r == Unmap(s) IN
         /\ r \in Buffer /\ r.b_transaction = s.b_transaction
         /\ r.b_next_transaction = s.b_next_transaction /\ r.b_jlist = s.b_jlist
         /\ r.b_modified = s.b_modified /\ r.b_frozen_data = s.b_frozen_data
         /\ r.b_cp_transaction = s.b_cp_transaction /\ r.data = s.data /\ ~r.dirty /\ ~r.jbddirty
         /\ r.freed = s.freed /\ r.bug = s.bug
<1> DEFINE v == [s EXCEPT !.jbddirty = FALSE]
           w == Zap(v)
<1>1. Unmap(s) = w
  BY DEF Unmap
<1> HIDE DEF v, w
<1>2. /\ v \in Buffer /\ v.b_transaction = s.b_transaction
      /\ v.b_next_transaction = s.b_next_transaction /\ v.b_jlist = s.b_jlist
      /\ v.b_modified = s.b_modified /\ v.b_frozen_data = s.b_frozen_data
      /\ v.b_cp_transaction = s.b_cp_transaction /\ v.data = s.data /\ v.dirty = s.dirty
      /\ ~v.jbddirty /\ v.freed = s.freed /\ v.bug = s.bug
  BY DEF v, Buffer
<1>3. /\ w \in Buffer /\ w.b_transaction = v.b_transaction
      /\ w.b_next_transaction = v.b_next_transaction /\ w.b_jlist = v.b_jlist
      /\ w.b_modified = v.b_modified /\ w.b_frozen_data = v.b_frozen_data
      /\ w.b_cp_transaction = v.b_cp_transaction /\ w.data = v.data /\ ~w.dirty
      /\ w.jbddirty = v.jbddirty /\ w.freed = v.freed /\ w.bug = (v.bug \/ v.jbddirty)
  BY <1>2, ZapFields DEF w
<1>4. /\ w \in Buffer /\ w.b_transaction = s.b_transaction
      /\ w.b_next_transaction = s.b_next_transaction /\ w.b_jlist = s.b_jlist
      /\ w.b_modified = s.b_modified /\ w.b_frozen_data = s.b_frozen_data
      /\ w.b_cp_transaction = s.b_cp_transaction /\ w.data = s.data /\ ~w.dirty /\ ~w.jbddirty
      /\ w.freed = s.freed /\ w.bug = s.bug
  BY <1>2, <1>3, Fields
<1> QED
  BY <1>1, <1>4

\* A buffer of the committing transaction is marked and given to the running one.
LEMMA UnmapOlder ==
  ASSUME NEW s \in Buffer, running \in 0 .. MaxTid, committing \in 0 .. MaxTid,
         s.b_transaction # 0, s.b_transaction = committing
  PROVE  LET r == Unmap(s) IN
         /\ r \in Buffer /\ r.b_transaction = s.b_transaction
         /\ r.b_next_transaction = IF running # 0 /\ s.jbddirty THEN running ELSE s.b_next_transaction
         /\ r.b_jlist = s.b_jlist /\ r.b_modified = s.b_modified
         /\ r.b_frozen_data = s.b_frozen_data /\ r.b_cp_transaction = s.b_cp_transaction
         /\ r.data = s.data /\ r.dirty = s.dirty /\ r.jbddirty = s.jbddirty /\ r.freed
         /\ r.bug = s.bug
<1> DEFINE v == [s EXCEPT !.freed = TRUE,
                          !.b_next_transaction = IF running # 0 /\ s.jbddirty THEN running ELSE @]
<1>1. Unmap(s) = v
  BY DEF Unmap
<1> HIDE DEF v
<1>2. /\ v \in Buffer /\ v.b_transaction = s.b_transaction
      /\ v.b_next_transaction = IF running # 0 /\ s.jbddirty THEN running ELSE s.b_next_transaction
      /\ v.b_jlist = s.b_jlist /\ v.b_modified = s.b_modified /\ v.b_frozen_data = s.b_frozen_data
      /\ v.b_cp_transaction = s.b_cp_transaction /\ v.data = s.data /\ v.dirty = s.dirty
      /\ v.jbddirty = s.jbddirty /\ v.freed /\ v.bug = s.bug
  BY Fields DEF v, Buffer
<1> QED
  BY <1>1, <1>2

\* A buffer of the running transaction that a checkpoint holds goes to the forget list.
LEMMA UnmapOwnPinned ==
  ASSUME NEW s \in Buffer, running \in 0 .. MaxTid, committing \in 0 .. MaxTid,
         s.b_transaction # 0, s.b_transaction # committing, s.b_cp_transaction # 0
  PROVE  LET r == Unmap(s) IN
         /\ r \in Buffer /\ r.b_transaction = s.b_transaction
         /\ r.b_next_transaction = s.b_next_transaction /\ r.b_jlist = "Forget"
         /\ r.b_modified = s.b_modified /\ r.b_frozen_data = s.b_frozen_data
         /\ r.b_cp_transaction = s.b_cp_transaction /\ r.data = s.data /\ ~r.dirty
         /\ r.jbddirty = (s.b_jlist = "None" /\ s.jbddirty) /\ r.freed = s.freed
         /\ r.bug = (s.bug \/ s.b_transaction # running \/ (s.b_jlist = "None" /\ s.jbddirty))
<1> DEFINE v == J_ASSERT(s, s.b_transaction = running)
           w == Dispose(v, s.b_transaction)
           x == Zap(w)
<1>1. Unmap(s) = x
  BY DEF Unmap
<1> HIDE DEF v, w, x
<1>2. /\ v \in Buffer /\ v.b_transaction = s.b_transaction
      /\ v.b_next_transaction = s.b_next_transaction /\ v.b_jlist = s.b_jlist
      /\ v.b_modified = s.b_modified /\ v.b_frozen_data = s.b_frozen_data
      /\ v.b_cp_transaction = s.b_cp_transaction /\ v.data = s.data /\ v.dirty = s.dirty
      /\ v.jbddirty = s.jbddirty /\ v.freed = s.freed
      /\ v.bug = (s.bug \/ s.b_transaction # running)
  BY DEF v, Buffer, J_ASSERT
<1>3. /\ w \in Buffer /\ w.b_transaction = s.b_transaction
      /\ w.b_next_transaction = v.b_next_transaction /\ w.b_jlist = "Forget"
      /\ w.b_modified = v.b_modified /\ w.b_frozen_data = v.b_frozen_data
      /\ w.b_cp_transaction = v.b_cp_transaction /\ w.data = v.data /\ ~w.dirty
      /\ w.jbddirty = (v.b_jlist = "None" /\ v.jbddirty) /\ w.freed = v.freed
      /\ w.bug = (v.bug \/ v.b_transaction \notin {0, s.b_transaction})
  BY <1>2, DisposePinned, Fields DEF w
<1>4. /\ x \in Buffer /\ x.b_transaction = w.b_transaction
      /\ x.b_next_transaction = w.b_next_transaction /\ x.b_jlist = w.b_jlist
      /\ x.b_modified = w.b_modified /\ x.b_frozen_data = w.b_frozen_data
      /\ x.b_cp_transaction = w.b_cp_transaction /\ x.data = w.data /\ ~x.dirty
      /\ x.jbddirty = w.jbddirty /\ x.freed = w.freed /\ x.bug = (w.bug \/ w.jbddirty)
  BY <1>3, ZapFields DEF x
<1>5. /\ x \in Buffer /\ x.b_transaction = s.b_transaction
      /\ x.b_next_transaction = s.b_next_transaction /\ x.b_jlist = "Forget"
      /\ x.b_modified = s.b_modified /\ x.b_frozen_data = s.b_frozen_data
      /\ x.b_cp_transaction = s.b_cp_transaction /\ x.data = s.data /\ ~x.dirty
      /\ x.jbddirty = (s.b_jlist = "None" /\ s.jbddirty) /\ x.freed = s.freed
      /\ x.bug = (s.bug \/ s.b_transaction # running \/ (s.b_jlist = "None" /\ s.jbddirty))
  BY <1>2, <1>3, <1>4, Fields
<1> QED
  BY <1>1, <1>5

\* A buffer of the running transaction that no checkpoint holds leaves it.
LEMMA UnmapOwn ==
  ASSUME NEW s \in Buffer, running \in 0 .. MaxTid, committing \in 0 .. MaxTid,
         s.b_transaction # 0, s.b_transaction # committing, s.b_cp_transaction = 0
  PROVE  LET r == Unmap(s) IN
         /\ r \in Buffer /\ r.b_transaction = 0 /\ r.b_next_transaction = s.b_next_transaction
         /\ r.b_jlist = "None" /\ ~r.b_modified /\ r.b_frozen_data = None
         /\ r.b_cp_transaction = s.b_cp_transaction /\ r.data = s.data /\ ~r.dirty
         /\ r.jbddirty = (s.b_jlist = "None" /\ s.jbddirty) /\ r.freed = s.freed
         /\ r.bug = (s.bug \/ s.b_transaction # running \/ s.b_next_transaction # 0 \/ (s.b_jlist = "None" /\ s.jbddirty))
<1> DEFINE v == J_ASSERT(s, s.b_transaction = running)
           w == Dispose(v, s.b_transaction)
           x == Zap(w)
<1>1. Unmap(s) = x
  BY DEF Unmap
<1> HIDE DEF v, w, x
<1>2. /\ v \in Buffer /\ v.b_transaction = s.b_transaction
      /\ v.b_next_transaction = s.b_next_transaction /\ v.b_jlist = s.b_jlist
      /\ v.b_modified = s.b_modified /\ v.b_frozen_data = s.b_frozen_data
      /\ v.b_cp_transaction = s.b_cp_transaction /\ v.data = s.data /\ v.dirty = s.dirty
      /\ v.jbddirty = s.jbddirty /\ v.freed = s.freed
      /\ v.bug = (s.bug \/ s.b_transaction # running)
  BY DEF v, Buffer, J_ASSERT
<1>3. /\ w \in Buffer /\ w.b_transaction = 0 /\ w.b_next_transaction = v.b_next_transaction
      /\ w.b_jlist = "None" /\ ~w.b_modified /\ w.b_frozen_data = None
      /\ w.b_cp_transaction = v.b_cp_transaction /\ w.data = v.data
      /\ w.dirty = (v.dirty \/ (v.b_jlist # "None" /\ v.jbddirty))
      /\ w.jbddirty = (v.b_jlist = "None" /\ v.jbddirty) /\ w.freed = v.freed
      /\ w.bug = (v.bug \/ v.b_next_transaction # 0)
  BY <1>2, DisposeUnfiled, Fields DEF w
<1>4. /\ x \in Buffer /\ x.b_transaction = w.b_transaction
      /\ x.b_next_transaction = w.b_next_transaction /\ x.b_jlist = w.b_jlist
      /\ x.b_modified = w.b_modified /\ x.b_frozen_data = w.b_frozen_data
      /\ x.b_cp_transaction = w.b_cp_transaction /\ x.data = w.data /\ ~x.dirty
      /\ x.jbddirty = w.jbddirty /\ x.freed = w.freed /\ x.bug = (w.bug \/ w.jbddirty)
  BY <1>3, ZapFields DEF x
<1>5. /\ x \in Buffer /\ x.b_transaction = 0 /\ x.b_next_transaction = s.b_next_transaction
      /\ x.b_jlist = "None" /\ ~x.b_modified /\ x.b_frozen_data = None
      /\ x.b_cp_transaction = s.b_cp_transaction /\ x.data = s.data /\ ~x.dirty
      /\ x.jbddirty = (s.b_jlist = "None" /\ s.jbddirty) /\ x.freed = s.freed
      /\ x.bug = (s.bug \/ s.b_transaction # running \/ s.b_next_transaction # 0 \/ (s.b_jlist = "None" /\ s.jbddirty))
  BY <1>2, <1>3, <1>4, Fields
<1> QED
  BY <1>1, <1>5

\* The log I/O of a buffer is over.
LEMMA Unshadowed ==
  ASSUME NEW s \in Buffer, running \in 0 .. MaxTid, committing \in 0 .. MaxTid,
         committing # 0, s.b_transaction = committing, s.b_jlist = "Shadow"
  PROVE  LET r == Unshadow(s) IN
         /\ r \in Buffer /\ r.b_transaction = s.b_transaction
         /\ r.b_next_transaction = s.b_next_transaction /\ r.b_jlist = "Forget"
         /\ r.b_modified = s.b_modified /\ r.b_frozen_data = s.b_frozen_data
         /\ r.b_cp_transaction = s.b_cp_transaction /\ r.data = s.data
         /\ r.dirty = (s.dirty /\ s.jbddirty) /\ r.jbddirty = (s.dirty \/ s.jbddirty)
         /\ r.freed = s.freed /\ r.bug = (s.bug \/ ~s.jbddirty)
<1> DEFINE v == J_ASSERT(s, s.jbddirty)
           w == file(v, committing, "Forget")
<1>1. Unshadow(s) = w
  BY DEF Unshadow
<1> HIDE DEF v, w
<1>2. /\ v \in Buffer /\ v.b_transaction = s.b_transaction
      /\ v.b_next_transaction = s.b_next_transaction /\ v.b_jlist = s.b_jlist
      /\ v.b_modified = s.b_modified /\ v.b_frozen_data = s.b_frozen_data
      /\ v.b_cp_transaction = s.b_cp_transaction /\ v.data = s.data /\ v.dirty = s.dirty
      /\ v.jbddirty = s.jbddirty /\ v.freed = s.freed /\ v.bug = (s.bug \/ ~s.jbddirty)
  BY Fields DEF v, Buffer, J_ASSERT
<1>3. v \in Buffer /\ ~(v.b_transaction # 0 /\ v.b_jlist = "Forget")
  BY <1>2
<1>4. /\ w \in Buffer /\ w.b_transaction = committing
      /\ w.b_next_transaction = v.b_next_transaction /\ w.b_jlist = "Forget"
      /\ w.b_modified = v.b_modified /\ w.b_frozen_data = v.b_frozen_data
      /\ w.b_cp_transaction = v.b_cp_transaction /\ w.data = v.data
      /\ w.dirty = (v.b_transaction # 0 /\ v.b_jlist # "None" /\ v.dirty /\ v.jbddirty)
      /\ w.jbddirty = (v.dirty \/ v.jbddirty) /\ w.freed = v.freed
      /\ w.bug = (v.bug \/ v.b_transaction \notin {0, committing})
  BY <1>3, FiledJournal DEF w
<1>5. /\ w \in Buffer /\ w.b_transaction = s.b_transaction
      /\ w.b_next_transaction = s.b_next_transaction /\ w.b_jlist = "Forget"
      /\ w.b_modified = s.b_modified /\ w.b_frozen_data = s.b_frozen_data
      /\ w.b_cp_transaction = s.b_cp_transaction /\ w.data = s.data
      /\ w.dirty = (s.dirty /\ s.jbddirty) /\ w.jbddirty = (s.dirty \/ s.jbddirty)
      /\ w.freed = s.freed /\ w.bug = (s.bug \/ ~s.jbddirty)
  BY <1>2, <1>4, Fields
<1> QED
  BY <1>1, <1>5

(* The buffer as jbdbf_journal_write_metadata_buffer files it. *)
Shadowed(s, escape) ==
  LET a    == J_ASSERT(s, s.jbddirty)
      copy == IF escape /\ a.b_frozen_data = None THEN [a EXCEPT !.b_frozen_data = a.data] ELSE a
  IN  file(copy, committing, "Shadow")


\* A buffer is given to the log I/O, with a copy if it must be escaped.
LEMMA ShadowedFields ==
  ASSUME NEW s \in Buffer, running \in 0 .. MaxTid, committing \in 0 .. MaxTid,
         NEW escape \in BOOLEAN, committing # 0, s.b_transaction = committing, s.b_jlist = "Metadata"
  PROVE  LET r == Shadowed(s, escape) IN
         /\ r \in Buffer /\ r.b_transaction = s.b_transaction
         /\ r.b_next_transaction = s.b_next_transaction /\ r.b_jlist = "Shadow"
         /\ r.b_modified = s.b_modified
         /\ r.b_frozen_data = IF escape /\ s.b_frozen_data = None THEN s.data ELSE s.b_frozen_data
         /\ r.b_cp_transaction = s.b_cp_transaction /\ r.data = s.data
         /\ r.dirty = (s.dirty /\ s.jbddirty) /\ r.jbddirty = (s.dirty \/ s.jbddirty)
         /\ r.freed = s.freed /\ r.bug = (s.bug \/ ~s.jbddirty)
<1> DEFINE a == J_ASSERT(s, s.jbddirty)
           c == IF escape /\ a.b_frozen_data = None THEN [a EXCEPT !.b_frozen_data = a.data] ELSE a
           w == file(c, committing, "Shadow")
<1>1. Shadowed(s, escape) = w
  BY DEF Shadowed
<1> HIDE DEF a, c, w
<1>2. /\ a \in Buffer /\ a.b_transaction = s.b_transaction
      /\ a.b_next_transaction = s.b_next_transaction /\ a.b_jlist = s.b_jlist
      /\ a.b_modified = s.b_modified /\ a.b_frozen_data = s.b_frozen_data
      /\ a.b_cp_transaction = s.b_cp_transaction /\ a.data = s.data /\ a.dirty = s.dirty
      /\ a.jbddirty = s.jbddirty /\ a.freed = s.freed /\ a.bug = (s.bug \/ ~s.jbddirty)
  BY Fields DEF a, Buffer, J_ASSERT
<1>3. /\ c \in Buffer /\ c.b_transaction = a.b_transaction
      /\ c.b_next_transaction = a.b_next_transaction /\ c.b_jlist = a.b_jlist
      /\ c.b_modified = a.b_modified
      /\ c.b_frozen_data = IF escape /\ a.b_frozen_data = None THEN a.data ELSE a.b_frozen_data
      /\ c.b_cp_transaction = a.b_cp_transaction /\ c.data = a.data /\ c.dirty = a.dirty
      /\ c.jbddirty = a.jbddirty /\ c.freed = a.freed /\ c.bug = a.bug
  BY <1>2, Fields DEF c, Buffer
<1>4. c \in Buffer /\ ~(c.b_transaction # 0 /\ c.b_jlist = "Shadow")
  BY <1>2, <1>3
<1>5. /\ w \in Buffer /\ w.b_transaction = committing
      /\ w.b_next_transaction = c.b_next_transaction /\ w.b_jlist = "Shadow"
      /\ w.b_modified = c.b_modified /\ w.b_frozen_data = c.b_frozen_data
      /\ w.b_cp_transaction = c.b_cp_transaction /\ w.data = c.data
      /\ w.dirty = (c.b_transaction # 0 /\ c.b_jlist # "None" /\ c.dirty /\ c.jbddirty)
      /\ w.jbddirty = (c.dirty \/ c.jbddirty) /\ w.freed = c.freed
      /\ w.bug = (c.bug \/ c.b_transaction \notin {0, committing})
  BY <1>4, FiledJournal DEF w
<1>6. /\ w \in Buffer /\ w.b_transaction = s.b_transaction
      /\ w.b_next_transaction = s.b_next_transaction /\ w.b_jlist = "Shadow"
      /\ w.b_modified = s.b_modified
      /\ w.b_frozen_data = IF escape /\ s.b_frozen_data = None THEN s.data ELSE s.b_frozen_data
      /\ w.b_cp_transaction = s.b_cp_transaction /\ w.data = s.data
      /\ w.dirty = (s.dirty /\ s.jbddirty) /\ w.jbddirty = (s.dirty \/ s.jbddirty)
      /\ w.freed = s.freed /\ w.bug = (s.bug \/ ~s.jbddirty)
  BY <1>2, <1>3, <1>5, Fields
<1> QED
  BY <1>1, <1>6

\* A checkpoint is done with a buffer that no transaction has.
LEMMA Removed ==
  ASSUME NEW s \in Buffer, s.b_transaction = 0
  PROVE  LET r == put_journal_head([s EXCEPT !.b_cp_transaction = 0]) IN
         /\ r \in Buffer /\ r.b_transaction = s.b_transaction
         /\ r.b_next_transaction = s.b_next_transaction /\ r.b_jlist = s.b_jlist /\ ~r.b_modified
         /\ r.b_frozen_data = None /\ r.b_cp_transaction = 0 /\ r.data = s.data
         /\ r.dirty = s.dirty /\ r.jbddirty = s.jbddirty /\ r.freed = s.freed
         /\ r.bug = (s.bug \/ ~(s.b_next_transaction = 0 /\ s.b_jlist = "None"))
<1> DEFINE v == [s EXCEPT !.b_cp_transaction = 0]
           w == put_journal_head(v)
<1>1. put_journal_head([s EXCEPT !.b_cp_transaction = 0]) = w
  OBVIOUS
<1> HIDE DEF v, w
<1>2. /\ v \in Buffer /\ v.b_transaction = s.b_transaction
      /\ v.b_next_transaction = s.b_next_transaction /\ v.b_jlist = s.b_jlist
      /\ v.b_modified = s.b_modified /\ v.b_frozen_data = s.b_frozen_data
      /\ v.b_cp_transaction = 0 /\ v.data = s.data /\ v.dirty = s.dirty /\ v.jbddirty = s.jbddirty
      /\ v.freed = s.freed /\ v.bug = s.bug
  BY Constant DEF v, Buffer
<1>3. /\ w \in Buffer /\ w.b_transaction = v.b_transaction
      /\ w.b_next_transaction = v.b_next_transaction /\ w.b_jlist = v.b_jlist /\ ~w.b_modified
      /\ w.b_frozen_data = None /\ w.b_cp_transaction = v.b_cp_transaction /\ w.data = v.data
      /\ w.dirty = v.dirty /\ w.jbddirty = v.jbddirty /\ w.freed = v.freed
      /\ w.bug = (v.bug \/ ~(v.b_next_transaction = 0 /\ v.b_jlist = "None"))
  BY <1>2, Put, Fields DEF w, SameContents
<1>4. /\ w \in Buffer /\ w.b_transaction = s.b_transaction
      /\ w.b_next_transaction = s.b_next_transaction /\ w.b_jlist = s.b_jlist /\ ~w.b_modified
      /\ w.b_frozen_data = None /\ w.b_cp_transaction = 0 /\ w.data = s.data /\ w.dirty = s.dirty
      /\ w.jbddirty = s.jbddirty /\ w.freed = s.freed
      /\ w.bug = (s.bug \/ ~(s.b_next_transaction = 0 /\ s.b_jlist = "None"))
  BY <1>2, <1>3, Fields
<1> QED
  BY <1>1, <1>4

\* refile of a buffer that is on a list.
LEMMA RefiledFields ==
  ASSUME NEW s \in Buffer, running \in 0 .. MaxTid, s.b_jlist # "None"
  PROVE  LET r == refile(s) IN
         /\ r \in Buffer /\ r.b_transaction = s.b_next_transaction /\ r.b_next_transaction = 0
         /\ r.b_jlist = IF s.b_next_transaction = 0 THEN "None" ELSE IF s.freed THEN "Forget" ELSE IF s.b_modified THEN "Metadata" ELSE "Reserved"
         /\ r.b_modified = (s.b_modified /\ (s.b_next_transaction # 0 \/ s.b_cp_transaction # 0))
         /\ r.b_frozen_data = IF s.b_next_transaction = 0 /\ s.b_cp_transaction = 0 THEN None ELSE s.b_frozen_data
         /\ r.b_cp_transaction = s.b_cp_transaction /\ r.data = s.data
         /\ r.dirty = (s.b_next_transaction = 0 /\ (s.dirty \/ s.jbddirty))
         /\ r.jbddirty = (s.b_next_transaction # 0 /\ (s.dirty \/ s.jbddirty))
         /\ r.freed = s.freed
         /\ r.bug = (s.bug \/ (s.b_next_transaction # 0 /\ s.b_next_transaction # running))
<1> DEFINE r == refile(s)
<1>1. /\ r \in Buffer /\ SameContents(r, s)
      /\ r.b_transaction = s.b_next_transaction /\ r.b_next_transaction = 0
      /\ r.b_jlist = IF s.b_next_transaction = 0 THEN "None" ELSE IF s.freed THEN "Forget"
                     ELSE IF s.b_modified THEN "Metadata" ELSE "Reserved"
      /\ r.b_modified = (s.b_modified /\ (s.b_next_transaction # 0 \/ s.b_cp_transaction # 0))
      /\ r.b_frozen_data = IF s.b_next_transaction = 0 /\ s.b_cp_transaction = 0 THEN None ELSE s.b_frozen_data
      /\ r.bug = (s.bug \/ (s.b_next_transaction # 0 /\ s.b_next_transaction # running))
  BY Refiled
<1>2. CASE s.b_next_transaction = 0
  <2>1. /\ r.dirty = (s.dirty \/ (s.b_jlist # "None" /\ s.jbddirty))
        /\ r.jbddirty = (s.b_jlist = "None" /\ s.jbddirty)
    BY <1>2, Refiled
  <2> HIDE DEF r
  <2>2. r.dirty = (s.b_next_transaction = 0 /\ (s.dirty \/ s.jbddirty))
    BY <1>2, <2>1, Fields
  <2>3. r.jbddirty = (s.b_next_transaction # 0 /\ (s.dirty \/ s.jbddirty))
    BY <1>2, <2>1, Fields
  <2> QED
    BY <1>1, <2>2, <2>3 DEF r, SameContents
<1>3. CASE s.b_next_transaction # 0
  <2>1. ~r.dirty /\ r.jbddirty = (s.dirty \/ s.jbddirty)
    BY <1>3, Refiled
  <2> HIDE DEF r
  <2>2. r.dirty = (s.b_next_transaction = 0 /\ (s.dirty \/ s.jbddirty))
    BY <1>1, <1>3, <2>1, Fields
  <2>3. r.jbddirty = (s.b_next_transaction # 0 /\ (s.dirty \/ s.jbddirty))
    BY <1>3, <2>1, Fields
  <2> QED
    BY <1>1, <2>2, <2>3 DEF r, SameContents
<1> QED
  BY <1>2, <1>3


\* A buffer of a finished transaction is checkpointed and refiled.
LEMMA CheckpointedFields ==
  ASSUME NEW s \in Buffer, running \in 0 .. MaxTid, committing \in 0 .. MaxTid, aborted \in BOOLEAN,
         s.b_jlist = "Forget"
  PROVE  LET r == Checkpointed(s) IN
         /\ r \in Buffer /\ r.b_transaction = s.b_next_transaction /\ r.b_next_transaction = 0
         /\ r.b_jlist = IF s.b_next_transaction = 0 THEN "None" ELSE IF s.freed THEN "Forget" ELSE IF s.b_modified THEN "Metadata" ELSE "Reserved"
         /\ r.b_modified = (s.b_modified /\ (s.b_next_transaction # 0 \/ r.b_cp_transaction # 0))
         /\ r.b_frozen_data = None
         /\ r.b_cp_transaction = IF s.jbddirty /\ ~(s.freed /\ s.b_next_transaction = 0) THEN committing ELSE 0
         /\ r.data = s.data
         /\ r.dirty = (s.b_next_transaction = 0 /\ (s.dirty \/ (s.jbddirty /\ ~(s.freed /\ s.b_next_transaction = 0) /\ ~aborted)))
         /\ r.jbddirty = (s.b_next_transaction # 0 /\ (s.dirty \/ (s.jbddirty /\ ~(s.freed /\ s.b_next_transaction = 0) /\ ~aborted)))
         /\ r.freed = (s.freed /\ s.b_next_transaction # 0)
         /\ r.bug = (s.bug \/ (s.dirty /\ ~(s.jbddirty /\ ~(s.freed /\ s.b_next_transaction = 0))) \/ (s.b_next_transaction # 0 /\ s.b_next_transaction # running))
<1> DEFINE bare == [s EXCEPT !.b_frozen_data = None, !.b_cp_transaction = 0]
           live == IF s.freed /\ s.b_next_transaction = 0 THEN [bare EXCEPT !.freed = FALSE, !.jbddirty = FALSE] ELSE bare
           v == IF live.jbddirty THEN [live EXCEPT !.b_cp_transaction = committing, !.jbddirty = ~aborted]
                    ELSE J_ASSERT(live, ~live.dirty)
           w == refile(v)
<1>1. Checkpointed(s) = w
  BY DEF Checkpointed
<1> HIDE DEF bare, live, v, w
<1>2. /\ bare \in Buffer /\ bare.b_transaction = s.b_transaction
      /\ bare.b_next_transaction = s.b_next_transaction /\ bare.b_jlist = s.b_jlist
      /\ bare.b_modified = s.b_modified /\ bare.b_frozen_data = None /\ bare.b_cp_transaction = 0
      /\ bare.data = s.data /\ bare.dirty = s.dirty /\ bare.jbddirty = s.jbddirty
      /\ bare.freed = s.freed /\ bare.bug = s.bug
  BY Constant DEF bare, Buffer
<1>3. /\ live \in Buffer /\ live.b_transaction = bare.b_transaction
      /\ live.b_next_transaction = bare.b_next_transaction /\ live.b_jlist = bare.b_jlist
      /\ live.b_modified = bare.b_modified /\ live.b_frozen_data = bare.b_frozen_data
      /\ live.b_cp_transaction = bare.b_cp_transaction /\ live.data = bare.data
      /\ live.dirty = bare.dirty
      /\ live.jbddirty = (bare.jbddirty /\ ~(s.freed /\ s.b_next_transaction = 0))
      /\ live.freed = (bare.freed /\ ~(s.freed /\ s.b_next_transaction = 0))
      /\ live.bug = bare.bug
  <2>1. CASE s.freed /\ s.b_next_transaction = 0
    <3>1. live = [bare EXCEPT !.freed = FALSE, !.jbddirty = FALSE]
      BY <2>1 DEF live
    <3>2. /\ live \in Buffer /\ live.b_transaction = bare.b_transaction
          /\ live.b_next_transaction = bare.b_next_transaction /\ live.b_jlist = bare.b_jlist
          /\ live.b_modified = bare.b_modified /\ live.b_frozen_data = bare.b_frozen_data
          /\ live.b_cp_transaction = bare.b_cp_transaction /\ live.data = bare.data
          /\ live.dirty = bare.dirty /\ ~live.jbddirty /\ ~live.freed /\ live.bug = bare.bug
      BY <1>2, <3>1 DEF Buffer
    <3> QED
      BY <1>2, <2>1, <3>2, Fields
  <2>2. CASE ~(s.freed /\ s.b_next_transaction = 0)
    <3>1. live = bare
      BY <2>2 DEF live
    <3> QED
      BY <1>2, <2>2, <3>1, Fields
  <2> QED
    BY <2>1, <2>2
<1>4. /\ v \in Buffer /\ v.b_transaction = live.b_transaction
      /\ v.b_next_transaction = live.b_next_transaction /\ v.b_jlist = live.b_jlist
      /\ v.b_modified = live.b_modified /\ v.b_frozen_data = live.b_frozen_data
      /\ v.b_cp_transaction = IF live.jbddirty THEN committing ELSE live.b_cp_transaction
      /\ v.data = live.data /\ v.dirty = live.dirty /\ v.jbddirty = (live.jbddirty /\ ~aborted)
      /\ v.freed = live.freed /\ v.bug = (live.bug \/ (~live.jbddirty /\ live.dirty))
  <2>1. CASE live.jbddirty
    <3>1. v = [live EXCEPT !.b_cp_transaction = committing, !.jbddirty = ~aborted]
      BY <2>1 DEF v
    <3>2. /\ v \in Buffer /\ v.b_transaction = live.b_transaction
          /\ v.b_next_transaction = live.b_next_transaction /\ v.b_jlist = live.b_jlist
          /\ v.b_modified = live.b_modified /\ v.b_frozen_data = live.b_frozen_data
          /\ v.b_cp_transaction = committing /\ v.data = live.data /\ v.dirty = live.dirty
          /\ v.jbddirty = (~aborted) /\ v.freed = live.freed /\ v.bug = live.bug
      BY <1>3, <3>1 DEF Buffer
    <3> QED
      BY <1>3, <2>1, <3>2, Fields
  <2>2. CASE ~live.jbddirty
    <3>1. v = J_ASSERT(live, ~live.dirty)
      BY <2>2 DEF v
    <3>2. /\ v \in Buffer /\ v.b_transaction = live.b_transaction
          /\ v.b_next_transaction = live.b_next_transaction /\ v.b_jlist = live.b_jlist
          /\ v.b_modified = live.b_modified /\ v.b_frozen_data = live.b_frozen_data
          /\ v.b_cp_transaction = live.b_cp_transaction /\ v.data = live.data
          /\ v.dirty = live.dirty /\ v.jbddirty = live.jbddirty /\ v.freed = live.freed
          /\ v.bug = (live.bug \/ ~(~live.dirty))
      BY <1>3, <3>1 DEF Buffer, J_ASSERT
    <3> QED
      BY <1>3, <2>2, <3>2, Fields
  <2> QED
    BY <2>1, <2>2
<1>5. /\ w \in Buffer /\ w.b_transaction = v.b_next_transaction /\ w.b_next_transaction = 0
      /\ w.b_jlist = IF v.b_next_transaction = 0 THEN "None" ELSE IF v.freed THEN "Forget" ELSE IF v.b_modified THEN "Metadata" ELSE "Reserved"
      /\ w.b_modified = (v.b_modified /\ (v.b_next_transaction # 0 \/ v.b_cp_transaction # 0))
      /\ w.b_frozen_data = IF v.b_next_transaction = 0 /\ v.b_cp_transaction = 0 THEN None ELSE v.b_frozen_data
      /\ w.b_cp_transaction = v.b_cp_transaction /\ w.data = v.data
      /\ w.dirty = (v.b_next_transaction = 0 /\ (v.dirty \/ v.jbddirty))
      /\ w.jbddirty = (v.b_next_transaction # 0 /\ (v.dirty \/ v.jbddirty)) /\ w.freed = v.freed
      /\ w.bug = (v.bug \/ (v.b_next_transaction # 0 /\ v.b_next_transaction # running))
  BY <1>4, <1>2, <1>3, RefiledFields DEF w
<1>6. /\ w \in Buffer /\ w.b_transaction = s.b_next_transaction /\ w.b_next_transaction = 0
      /\ w.b_jlist = IF s.b_next_transaction = 0 THEN "None" ELSE IF s.freed THEN "Forget" ELSE IF s.b_modified THEN "Metadata" ELSE "Reserved"
      /\ w.b_modified = (s.b_modified /\ (s.b_next_transaction # 0 \/ w.b_cp_transaction # 0))
      /\ w.b_frozen_data = None
      /\ w.b_cp_transaction = IF s.jbddirty /\ ~(s.freed /\ s.b_next_transaction = 0) THEN committing ELSE 0
      /\ w.data = s.data
      /\ w.dirty = (s.b_next_transaction = 0 /\ (s.dirty \/ (s.jbddirty /\ ~(s.freed /\ s.b_next_transaction = 0) /\ ~aborted)))
      /\ w.jbddirty = (s.b_next_transaction # 0 /\ (s.dirty \/ (s.jbddirty /\ ~(s.freed /\ s.b_next_transaction = 0) /\ ~aborted)))
      /\ w.freed = (s.freed /\ s.b_next_transaction # 0)
      /\ w.bug = (s.bug \/ (s.dirty /\ ~(s.jbddirty /\ ~(s.freed /\ s.b_next_transaction = 0))) \/ (s.b_next_transaction # 0 /\ s.b_next_transaction # running))
  BY <1>2, <1>3, <1>4, <1>5, Fields
<1> QED
  BY <1>1, <1>6

\* After an abort a buffer is refiled instead of logged.
LEMMA Dropped ==
  ASSUME NEW s \in Buffer, running \in 0 .. MaxTid, s.b_jlist # "None"
  PROVE  LET r == refile([s EXCEPT !.jbddirty = FALSE]) IN
         /\ r \in Buffer /\ r.b_transaction = s.b_next_transaction /\ r.b_next_transaction = 0
         /\ r.b_jlist = IF s.b_next_transaction = 0 THEN "None" ELSE IF s.freed THEN "Forget" ELSE IF s.b_modified THEN "Metadata" ELSE "Reserved"
         /\ r.b_modified = (s.b_modified /\ (s.b_next_transaction # 0 \/ s.b_cp_transaction # 0))
         /\ r.b_frozen_data = IF s.b_next_transaction = 0 /\ s.b_cp_transaction = 0 THEN None ELSE s.b_frozen_data
         /\ r.b_cp_transaction = s.b_cp_transaction /\ r.data = s.data
         /\ r.dirty = (s.b_next_transaction = 0 /\ s.dirty)
         /\ r.jbddirty = (s.b_next_transaction # 0 /\ s.dirty) /\ r.freed = s.freed
         /\ r.bug = (s.bug \/ (s.b_next_transaction # 0 /\ s.b_next_transaction # running))
<1> DEFINE v == [s EXCEPT !.jbddirty = FALSE]
           w == refile(v)
<1>1. refile([s EXCEPT !.jbddirty = FALSE]) = w
  OBVIOUS
<1> HIDE DEF v, w
<1>2. /\ v \in Buffer /\ v.b_transaction = s.b_transaction
      /\ v.b_next_transaction = s.b_next_transaction /\ v.b_jlist = s.b_jlist
      /\ v.b_modified = s.b_modified /\ v.b_frozen_data = s.b_frozen_data
      /\ v.b_cp_transaction = s.b_cp_transaction /\ v.data = s.data /\ v.dirty = s.dirty
      /\ ~v.jbddirty /\ v.freed = s.freed /\ v.bug = s.bug
  BY DEF v, Buffer
<1>3. /\ w \in Buffer /\ w.b_transaction = v.b_next_transaction /\ w.b_next_transaction = 0
      /\ w.b_jlist = IF v.b_next_transaction = 0 THEN "None" ELSE IF v.freed THEN "Forget" ELSE IF v.b_modified THEN "Metadata" ELSE "Reserved"
      /\ w.b_modified = (v.b_modified /\ (v.b_next_transaction # 0 \/ v.b_cp_transaction # 0))
      /\ w.b_frozen_data = IF v.b_next_transaction = 0 /\ v.b_cp_transaction = 0 THEN None ELSE v.b_frozen_data
      /\ w.b_cp_transaction = v.b_cp_transaction /\ w.data = v.data
      /\ w.dirty = (v.b_next_transaction = 0 /\ (v.dirty \/ v.jbddirty))
      /\ w.jbddirty = (v.b_next_transaction # 0 /\ (v.dirty \/ v.jbddirty)) /\ w.freed = v.freed
      /\ w.bug = (v.bug \/ (v.b_next_transaction # 0 /\ v.b_next_transaction # running))
  BY <1>2, RefiledFields DEF w
<1>4. /\ w \in Buffer /\ w.b_transaction = s.b_next_transaction /\ w.b_next_transaction = 0
      /\ w.b_jlist = IF s.b_next_transaction = 0 THEN "None" ELSE IF s.freed THEN "Forget" ELSE IF s.b_modified THEN "Metadata" ELSE "Reserved"
      /\ w.b_modified = (s.b_modified /\ (s.b_next_transaction # 0 \/ s.b_cp_transaction # 0))
      /\ w.b_frozen_data = IF s.b_next_transaction = 0 /\ s.b_cp_transaction = 0 THEN None ELSE s.b_frozen_data
      /\ w.b_cp_transaction = s.b_cp_transaction /\ w.data = s.data
      /\ w.dirty = (s.b_next_transaction = 0 /\ s.dirty)
      /\ w.jbddirty = (s.b_next_transaction # 0 /\ s.dirty) /\ w.freed = s.freed
      /\ w.bug = (s.bug \/ (s.b_next_transaction # 0 /\ s.b_next_transaction # running))
  BY <1>2, <1>3, Fields
<1> QED
  BY <1>1, <1>4

-----------------------------------------------------------------------------
(* The effect of a step on the buffer it works on *)

(* Every other buffer stays as it is. *)
Touches(b) ==
  /\ buf' \in [Blocks -> Buffer]
  /\ \A c \in Blocks : c # b => buf'[c] = buf[c]

\* A step that sets one buffer.
LEMMA OneBuffer ==
  ASSUME TypeOK, NEW b \in Blocks, NEW r \in Buffer, buf' = [buf EXCEPT ![b] = r]
  PROVE  Touches(b) /\ buf'[b] = r
BY Groups DEF BufType, Touches


\* The transaction has the buffer.
LEMMA OwnedEffect ==
  ASSUME Base, NEW p \in Procs, AccessOwned(p)
  PROVE  LET s == buf[h_buf[p]]
             r == buf'[h_buf[p]] IN
         /\ h_buf[p] \in Blocks /\ Touches(h_buf[p])
         /\ r \in Buffer /\ r.b_transaction = s.b_transaction
         /\ r.b_next_transaction = s.b_next_transaction /\ r.b_jlist = s.b_jlist
         /\ r.b_modified = s.b_modified /\ r.b_frozen_data = s.b_frozen_data
         /\ r.b_cp_transaction = s.b_cp_transaction /\ r.data = s.data /\ ~r.dirty
         /\ r.jbddirty = (s.jbddirty \/ s.dirty) /\ r.freed = s.freed
         /\ r.bug = (s.bug \/ (s.dirty /\ s.b_transaction # 0 /\ ~(s.b_transaction \in {h_tid[p], committing} /\ s.b_next_transaction \in {0, h_tid[p]})))
<1> DEFINE s == buf[h_buf[p]]
           u == Undirty(p)
<1>1. buf' = [buf EXCEPT ![h_buf[p]] = u] /\ pc[p] = "access"
  BY DEF AccessOwned, Granted, SetBuf
<1>2. /\ h_buf[p] \in Blocks /\ s \in Buffer /\ h_tid[p] \in 0 .. MaxTid /\ running # 0
      /\ h_tid[p] = running /\ TypeOK
  BY <1>1, Working DEF Base
<1>3. /\ u \in Buffer /\ u.b_transaction = s.b_transaction
      /\ u.b_next_transaction = s.b_next_transaction /\ u.b_jlist = s.b_jlist
      /\ u.b_modified = s.b_modified /\ u.b_frozen_data = s.b_frozen_data
      /\ u.b_cp_transaction = s.b_cp_transaction /\ u.data = s.data /\ ~u.dirty
      /\ u.jbddirty = (s.jbddirty \/ s.dirty) /\ u.freed = s.freed
      /\ u.bug = (s.bug \/ (s.dirty /\ s.b_transaction # 0 /\ ~(s.b_transaction \in {h_tid[p], committing} /\ s.b_next_transaction \in {0, h_tid[p]})))
  BY <1>1, UndirtyFields
<1> HIDE DEF s, u
<1>4. /\ u \in Buffer /\ u.b_transaction = s.b_transaction
      /\ u.b_next_transaction = s.b_next_transaction /\ u.b_jlist = s.b_jlist
      /\ u.b_modified = s.b_modified /\ u.b_frozen_data = s.b_frozen_data
      /\ u.b_cp_transaction = s.b_cp_transaction /\ u.data = s.data /\ ~u.dirty
      /\ u.jbddirty = (s.jbddirty \/ s.dirty) /\ u.freed = s.freed
      /\ u.bug = (s.bug \/ (s.dirty /\ s.b_transaction # 0 /\ ~(s.b_transaction \in {h_tid[p], committing} /\ s.b_next_transaction \in {0, h_tid[p]})))
  BY <1>2, <1>3, Fields
<1>5. Touches(h_buf[p]) /\ buf'[h_buf[p]] = u
  BY <1>1, <1>2, <1>4, OneBuffer
<1> QED
  BY <1>2, <1>4, <1>5 DEF s

\* The journal is aborted.
LEMMA AbortedEffect ==
  ASSUME Base, NEW p \in Procs, AccessAborted(p)
  PROVE  LET s == buf[h_buf[p]]
             r == buf'[h_buf[p]] IN
         /\ h_buf[p] \in Blocks /\ Touches(h_buf[p])
         /\ r \in Buffer /\ r.b_transaction = s.b_transaction
         /\ r.b_next_transaction = s.b_next_transaction /\ r.b_jlist = s.b_jlist
         /\ r.b_modified = s.b_modified /\ r.b_frozen_data = s.b_frozen_data
         /\ r.b_cp_transaction = s.b_cp_transaction /\ r.data = s.data /\ ~r.dirty
         /\ r.jbddirty = (s.jbddirty \/ s.dirty) /\ r.freed = s.freed
         /\ r.bug = (s.bug \/ (s.dirty /\ s.b_transaction # 0 /\ ~(s.b_transaction \in {h_tid[p], committing} /\ s.b_next_transaction \in {0, h_tid[p]})))
<1> DEFINE s == buf[h_buf[p]]
           u == Undirty(p)
<1>1. buf' = [buf EXCEPT ![h_buf[p]] = u] /\ pc[p] = "access"
  BY DEF AccessAborted, SetBuf
<1>2. /\ h_buf[p] \in Blocks /\ s \in Buffer /\ h_tid[p] \in 0 .. MaxTid /\ running # 0
      /\ h_tid[p] = running /\ TypeOK
  BY <1>1, Working DEF Base
<1>3. /\ u \in Buffer /\ u.b_transaction = s.b_transaction
      /\ u.b_next_transaction = s.b_next_transaction /\ u.b_jlist = s.b_jlist
      /\ u.b_modified = s.b_modified /\ u.b_frozen_data = s.b_frozen_data
      /\ u.b_cp_transaction = s.b_cp_transaction /\ u.data = s.data /\ ~u.dirty
      /\ u.jbddirty = (s.jbddirty \/ s.dirty) /\ u.freed = s.freed
      /\ u.bug = (s.bug \/ (s.dirty /\ s.b_transaction # 0 /\ ~(s.b_transaction \in {h_tid[p], committing} /\ s.b_next_transaction \in {0, h_tid[p]})))
  BY <1>1, UndirtyFields
<1> HIDE DEF s, u
<1>4. /\ u \in Buffer /\ u.b_transaction = s.b_transaction
      /\ u.b_next_transaction = s.b_next_transaction /\ u.b_jlist = s.b_jlist
      /\ u.b_modified = s.b_modified /\ u.b_frozen_data = s.b_frozen_data
      /\ u.b_cp_transaction = s.b_cp_transaction /\ u.data = s.data /\ ~u.dirty
      /\ u.jbddirty = (s.jbddirty \/ s.dirty) /\ u.freed = s.freed
      /\ u.bug = (s.bug \/ (s.dirty /\ s.b_transaction # 0 /\ ~(s.b_transaction \in {h_tid[p], committing} /\ s.b_next_transaction \in {0, h_tid[p]})))
  BY <1>2, <1>3, Fields
<1>5. Touches(h_buf[p]) /\ buf'[h_buf[p]] = u
  BY <1>1, <1>2, <1>4, OneBuffer
<1> QED
  BY <1>2, <1>4, <1>5 DEF s

\* The committing transaction has a copy of the buffer.
LEMMA FrozenEffect ==
  ASSUME Base, NEW p \in Procs, AccessFrozen(p)
  PROVE  LET s == buf[h_buf[p]]
             r == buf'[h_buf[p]] IN
         /\ h_buf[p] \in Blocks /\ Touches(h_buf[p])
         /\ r \in Buffer /\ r.b_transaction = s.b_transaction /\ r.b_next_transaction = h_tid[p]
         /\ r.b_jlist = s.b_jlist /\ ~r.b_modified /\ r.b_frozen_data = s.b_frozen_data
         /\ r.b_cp_transaction = s.b_cp_transaction /\ r.data = s.data /\ ~r.dirty
         /\ r.jbddirty = (s.jbddirty \/ s.dirty) /\ r.freed = s.freed
         /\ r.bug = (s.bug \/ (s.dirty /\ s.b_transaction # 0 /\ ~(s.b_transaction \in {h_tid[p], committing} /\ s.b_next_transaction \in {0, h_tid[p]})) \/ s.b_next_transaction # 0)
<1> DEFINE s == buf[h_buf[p]]
           u == Undirty(p)
           v == [u EXCEPT !.b_modified = FALSE]
           w == J_ASSERT(v, s.b_next_transaction = 0)
           x == [w EXCEPT !.b_next_transaction = h_tid[p]]
<1>1. buf' = [buf EXCEPT ![h_buf[p]] = x] /\ pc[p] = "access"
  BY DEF AccessFrozen, Granted, SetBuf, Touched
<1>2. /\ h_buf[p] \in Blocks /\ s \in Buffer /\ h_tid[p] \in 0 .. MaxTid /\ running # 0
      /\ h_tid[p] = running /\ TypeOK
  BY <1>1, Working DEF Base
<1>3. /\ u \in Buffer /\ u.b_transaction = s.b_transaction
      /\ u.b_next_transaction = s.b_next_transaction /\ u.b_jlist = s.b_jlist
      /\ u.b_modified = s.b_modified /\ u.b_frozen_data = s.b_frozen_data
      /\ u.b_cp_transaction = s.b_cp_transaction /\ u.data = s.data /\ ~u.dirty
      /\ u.jbddirty = (s.jbddirty \/ s.dirty) /\ u.freed = s.freed
      /\ u.bug = (s.bug \/ (s.dirty /\ s.b_transaction # 0 /\ ~(s.b_transaction \in {h_tid[p], committing} /\ s.b_next_transaction \in {0, h_tid[p]})))
  BY <1>1, UndirtyFields
<1> HIDE DEF s, u, v, w, x
<1>4. /\ v \in Buffer /\ v.b_transaction = u.b_transaction
      /\ v.b_next_transaction = u.b_next_transaction /\ v.b_jlist = u.b_jlist /\ ~v.b_modified
      /\ v.b_frozen_data = u.b_frozen_data /\ v.b_cp_transaction = u.b_cp_transaction
      /\ v.data = u.data /\ v.dirty = u.dirty /\ v.jbddirty = u.jbddirty /\ v.freed = u.freed
      /\ v.bug = u.bug
  BY <1>3, <1>2 DEF v, Buffer
<1>5. /\ w \in Buffer /\ w.b_transaction = v.b_transaction
      /\ w.b_next_transaction = v.b_next_transaction /\ w.b_jlist = v.b_jlist
      /\ w.b_modified = v.b_modified /\ w.b_frozen_data = v.b_frozen_data
      /\ w.b_cp_transaction = v.b_cp_transaction /\ w.data = v.data /\ w.dirty = v.dirty
      /\ w.jbddirty = v.jbddirty /\ w.freed = v.freed
      /\ w.bug = (v.bug \/ s.b_next_transaction # 0)
  BY <1>4, <1>2 DEF w, Buffer, J_ASSERT
<1>6. /\ x \in Buffer /\ x.b_transaction = w.b_transaction /\ x.b_next_transaction = h_tid[p]
      /\ x.b_jlist = w.b_jlist /\ x.b_modified = w.b_modified /\ x.b_frozen_data = w.b_frozen_data
      /\ x.b_cp_transaction = w.b_cp_transaction /\ x.data = w.data /\ x.dirty = w.dirty
      /\ x.jbddirty = w.jbddirty /\ x.freed = w.freed /\ x.bug = w.bug
  BY <1>5, <1>2 DEF x, Buffer
<1>7. /\ x \in Buffer /\ x.b_transaction = s.b_transaction /\ x.b_next_transaction = h_tid[p]
      /\ x.b_jlist = s.b_jlist /\ ~x.b_modified /\ x.b_frozen_data = s.b_frozen_data
      /\ x.b_cp_transaction = s.b_cp_transaction /\ x.data = s.data /\ ~x.dirty
      /\ x.jbddirty = (s.jbddirty \/ s.dirty) /\ x.freed = s.freed
      /\ x.bug = (s.bug \/ (s.dirty /\ s.b_transaction # 0 /\ ~(s.b_transaction \in {h_tid[p], committing} /\ s.b_next_transaction \in {0, h_tid[p]})) \/ s.b_next_transaction # 0)
  BY <1>2, <1>3, <1>4, <1>5, <1>6, Fields
<1>8. Touches(h_buf[p]) /\ buf'[h_buf[p]] = x
  BY <1>1, <1>2, <1>7, OneBuffer
<1> QED
  BY <1>2, <1>7, <1>8 DEF s

\* The committing transaction has logged the buffer.
LEMMA ForgetEffect ==
  ASSUME Base, NEW p \in Procs, AccessForget(p)
  PROVE  LET s == buf[h_buf[p]]
             r == buf'[h_buf[p]] IN
         /\ h_buf[p] \in Blocks /\ Touches(h_buf[p])
         /\ r \in Buffer /\ r.b_transaction = s.b_transaction /\ r.b_next_transaction = h_tid[p]
         /\ r.b_jlist = s.b_jlist /\ ~r.b_modified /\ r.b_frozen_data = s.b_frozen_data
         /\ r.b_cp_transaction = s.b_cp_transaction /\ r.data = s.data /\ ~r.dirty
         /\ r.jbddirty = (s.jbddirty \/ s.dirty) /\ r.freed = s.freed
         /\ r.bug = (s.bug \/ (s.dirty /\ s.b_transaction # 0 /\ ~(s.b_transaction \in {h_tid[p], committing} /\ s.b_next_transaction \in {0, h_tid[p]})) \/ ~(s.b_next_transaction = 0 /\ s.b_transaction = committing))
<1> DEFINE s == buf[h_buf[p]]
           u == Undirty(p)
           v == [u EXCEPT !.b_modified = FALSE]
           w == J_ASSERT(v, /\ s.b_next_transaction = 0 /\ s.b_transaction = committing)
           x == [w EXCEPT !.b_next_transaction = h_tid[p]]
<1>1. buf' = [buf EXCEPT ![h_buf[p]] = x] /\ pc[p] = "access"
  BY DEF AccessForget, Older, OlderChecked, Granted, SetBuf, Touched
<1>2. /\ h_buf[p] \in Blocks /\ s \in Buffer /\ h_tid[p] \in 0 .. MaxTid /\ running # 0
      /\ h_tid[p] = running /\ TypeOK
  BY <1>1, Working DEF Base
<1>3. /\ u \in Buffer /\ u.b_transaction = s.b_transaction
      /\ u.b_next_transaction = s.b_next_transaction /\ u.b_jlist = s.b_jlist
      /\ u.b_modified = s.b_modified /\ u.b_frozen_data = s.b_frozen_data
      /\ u.b_cp_transaction = s.b_cp_transaction /\ u.data = s.data /\ ~u.dirty
      /\ u.jbddirty = (s.jbddirty \/ s.dirty) /\ u.freed = s.freed
      /\ u.bug = (s.bug \/ (s.dirty /\ s.b_transaction # 0 /\ ~(s.b_transaction \in {h_tid[p], committing} /\ s.b_next_transaction \in {0, h_tid[p]})))
  BY <1>1, UndirtyFields
<1> HIDE DEF s, u, v, w, x
<1>4. /\ v \in Buffer /\ v.b_transaction = u.b_transaction
      /\ v.b_next_transaction = u.b_next_transaction /\ v.b_jlist = u.b_jlist /\ ~v.b_modified
      /\ v.b_frozen_data = u.b_frozen_data /\ v.b_cp_transaction = u.b_cp_transaction
      /\ v.data = u.data /\ v.dirty = u.dirty /\ v.jbddirty = u.jbddirty /\ v.freed = u.freed
      /\ v.bug = u.bug
  BY <1>3, <1>2 DEF v, Buffer
<1>5. /\ w \in Buffer /\ w.b_transaction = v.b_transaction
      /\ w.b_next_transaction = v.b_next_transaction /\ w.b_jlist = v.b_jlist
      /\ w.b_modified = v.b_modified /\ w.b_frozen_data = v.b_frozen_data
      /\ w.b_cp_transaction = v.b_cp_transaction /\ w.data = v.data /\ w.dirty = v.dirty
      /\ w.jbddirty = v.jbddirty /\ w.freed = v.freed
      /\ w.bug = (v.bug \/ ~(s.b_next_transaction = 0 /\ s.b_transaction = committing))
  BY <1>4, <1>2 DEF w, Buffer, J_ASSERT
<1>6. /\ x \in Buffer /\ x.b_transaction = w.b_transaction /\ x.b_next_transaction = h_tid[p]
      /\ x.b_jlist = w.b_jlist /\ x.b_modified = w.b_modified /\ x.b_frozen_data = w.b_frozen_data
      /\ x.b_cp_transaction = w.b_cp_transaction /\ x.data = w.data /\ x.dirty = w.dirty
      /\ x.jbddirty = w.jbddirty /\ x.freed = w.freed /\ x.bug = w.bug
  BY <1>5, <1>2 DEF x, Buffer
<1>7. /\ x \in Buffer /\ x.b_transaction = s.b_transaction /\ x.b_next_transaction = h_tid[p]
      /\ x.b_jlist = s.b_jlist /\ ~x.b_modified /\ x.b_frozen_data = s.b_frozen_data
      /\ x.b_cp_transaction = s.b_cp_transaction /\ x.data = s.data /\ ~x.dirty
      /\ x.jbddirty = (s.jbddirty \/ s.dirty) /\ x.freed = s.freed
      /\ x.bug = (s.bug \/ (s.dirty /\ s.b_transaction # 0 /\ ~(s.b_transaction \in {h_tid[p], committing} /\ s.b_next_transaction \in {0, h_tid[p]})) \/ ~(s.b_next_transaction = 0 /\ s.b_transaction = committing))
  BY <1>2, <1>3, <1>4, <1>5, <1>6, Fields
<1>8. Touches(h_buf[p]) /\ buf'[h_buf[p]] = x
  BY <1>1, <1>2, <1>7, OneBuffer
<1> QED
  BY <1>2, <1>7, <1>8 DEF s

\* A copy is left to the committing transaction.
LEMMA CopyEffect ==
  ASSUME Base, NEW p \in Procs, AccessCopy(p)
  PROVE  LET s == buf[h_buf[p]]
             r == buf'[h_buf[p]] IN
         /\ h_buf[p] \in Blocks /\ Touches(h_buf[p])
         /\ r \in Buffer /\ r.b_transaction = s.b_transaction /\ r.b_next_transaction = h_tid[p]
         /\ r.b_jlist = s.b_jlist /\ ~r.b_modified /\ r.b_frozen_data = s.data
         /\ r.b_cp_transaction = s.b_cp_transaction /\ r.data = s.data /\ ~r.dirty
         /\ r.jbddirty = (s.jbddirty \/ s.dirty) /\ r.freed = s.freed
         /\ r.bug = (s.bug \/ (s.dirty /\ s.b_transaction # 0 /\ ~(s.b_transaction \in {h_tid[p], committing} /\ s.b_next_transaction \in {0, h_tid[p]})) \/ ~(s.b_next_transaction = 0 /\ s.b_transaction = committing))
<1> DEFINE s == buf[h_buf[p]]
           u == Undirty(p)
           v == [u EXCEPT !.b_modified = FALSE]
           w == J_ASSERT(v, /\ s.b_next_transaction = 0 /\ s.b_transaction = committing)
           x == [w EXCEPT !.b_frozen_data = s.data, !.b_next_transaction = h_tid[p]]
<1>1. buf' = [buf EXCEPT ![h_buf[p]] = x] /\ pc[p] = "access"
  BY DEF AccessCopy, Older, OlderChecked, Granted, SetBuf, Touched
<1>2. /\ h_buf[p] \in Blocks /\ s \in Buffer /\ h_tid[p] \in 0 .. MaxTid /\ running # 0
      /\ h_tid[p] = running /\ TypeOK
  BY <1>1, Working DEF Base
<1>3. /\ u \in Buffer /\ u.b_transaction = s.b_transaction
      /\ u.b_next_transaction = s.b_next_transaction /\ u.b_jlist = s.b_jlist
      /\ u.b_modified = s.b_modified /\ u.b_frozen_data = s.b_frozen_data
      /\ u.b_cp_transaction = s.b_cp_transaction /\ u.data = s.data /\ ~u.dirty
      /\ u.jbddirty = (s.jbddirty \/ s.dirty) /\ u.freed = s.freed
      /\ u.bug = (s.bug \/ (s.dirty /\ s.b_transaction # 0 /\ ~(s.b_transaction \in {h_tid[p], committing} /\ s.b_next_transaction \in {0, h_tid[p]})))
  BY <1>1, UndirtyFields
<1> HIDE DEF s, u, v, w, x
<1>4. /\ v \in Buffer /\ v.b_transaction = u.b_transaction
      /\ v.b_next_transaction = u.b_next_transaction /\ v.b_jlist = u.b_jlist /\ ~v.b_modified
      /\ v.b_frozen_data = u.b_frozen_data /\ v.b_cp_transaction = u.b_cp_transaction
      /\ v.data = u.data /\ v.dirty = u.dirty /\ v.jbddirty = u.jbddirty /\ v.freed = u.freed
      /\ v.bug = u.bug
  BY <1>3, <1>2 DEF v, Buffer
<1>5. /\ w \in Buffer /\ w.b_transaction = v.b_transaction
      /\ w.b_next_transaction = v.b_next_transaction /\ w.b_jlist = v.b_jlist
      /\ w.b_modified = v.b_modified /\ w.b_frozen_data = v.b_frozen_data
      /\ w.b_cp_transaction = v.b_cp_transaction /\ w.data = v.data /\ w.dirty = v.dirty
      /\ w.jbddirty = v.jbddirty /\ w.freed = v.freed
      /\ w.bug = (v.bug \/ ~(s.b_next_transaction = 0 /\ s.b_transaction = committing))
  BY <1>4, <1>2 DEF w, Buffer, J_ASSERT
<1>6. /\ x \in Buffer /\ x.b_transaction = w.b_transaction /\ x.b_next_transaction = h_tid[p]
      /\ x.b_jlist = w.b_jlist /\ x.b_modified = w.b_modified /\ x.b_frozen_data = s.data
      /\ x.b_cp_transaction = w.b_cp_transaction /\ x.data = w.data /\ x.dirty = w.dirty
      /\ x.jbddirty = w.jbddirty /\ x.freed = w.freed /\ x.bug = w.bug
  BY <1>5, <1>2, Fields DEF x, Buffer
<1>7. /\ x \in Buffer /\ x.b_transaction = s.b_transaction /\ x.b_next_transaction = h_tid[p]
      /\ x.b_jlist = s.b_jlist /\ ~x.b_modified /\ x.b_frozen_data = s.data
      /\ x.b_cp_transaction = s.b_cp_transaction /\ x.data = s.data /\ ~x.dirty
      /\ x.jbddirty = (s.jbddirty \/ s.dirty) /\ x.freed = s.freed
      /\ x.bug = (s.bug \/ (s.dirty /\ s.b_transaction # 0 /\ ~(s.b_transaction \in {h_tid[p], committing} /\ s.b_next_transaction \in {0, h_tid[p]})) \/ ~(s.b_next_transaction = 0 /\ s.b_transaction = committing))
  BY <1>2, <1>3, <1>4, <1>5, <1>6, Fields
<1>8. Touches(h_buf[p]) /\ buf'[h_buf[p]] = x
  BY <1>1, <1>2, <1>7, OneBuffer
<1> QED
  BY <1>2, <1>7, <1>8 DEF s

\* A copy must be allocated first.
LEMMA AllocEffect ==
  ASSUME Base, NEW p \in Procs, AccessAlloc(p)
  PROVE  LET s == buf[h_buf[p]]
             r == buf'[h_buf[p]] IN
         /\ h_buf[p] \in Blocks /\ Touches(h_buf[p])
         /\ r \in Buffer /\ r.b_transaction = s.b_transaction
         /\ r.b_next_transaction = s.b_next_transaction /\ r.b_jlist = s.b_jlist /\ ~r.b_modified
         /\ r.b_frozen_data = s.b_frozen_data /\ r.b_cp_transaction = s.b_cp_transaction
         /\ r.data = s.data /\ ~r.dirty /\ r.jbddirty = (s.jbddirty \/ s.dirty)
         /\ r.freed = s.freed
         /\ r.bug = (s.bug \/ (s.dirty /\ s.b_transaction # 0 /\ ~(s.b_transaction \in {h_tid[p], committing} /\ s.b_next_transaction \in {0, h_tid[p]})) \/ ~(s.b_next_transaction = 0 /\ s.b_transaction = committing))
<1> DEFINE s == buf[h_buf[p]]
           u == Undirty(p)
           v == [u EXCEPT !.b_modified = FALSE]
           w == J_ASSERT(v, /\ s.b_next_transaction = 0 /\ s.b_transaction = committing)
<1>1. buf' = [buf EXCEPT ![h_buf[p]] = w] /\ pc[p] = "access"
  BY DEF AccessAlloc, Older, OlderChecked, SetBuf, Touched
<1>2. /\ h_buf[p] \in Blocks /\ s \in Buffer /\ h_tid[p] \in 0 .. MaxTid /\ running # 0
      /\ h_tid[p] = running /\ TypeOK
  BY <1>1, Working DEF Base
<1>3. /\ u \in Buffer /\ u.b_transaction = s.b_transaction
      /\ u.b_next_transaction = s.b_next_transaction /\ u.b_jlist = s.b_jlist
      /\ u.b_modified = s.b_modified /\ u.b_frozen_data = s.b_frozen_data
      /\ u.b_cp_transaction = s.b_cp_transaction /\ u.data = s.data /\ ~u.dirty
      /\ u.jbddirty = (s.jbddirty \/ s.dirty) /\ u.freed = s.freed
      /\ u.bug = (s.bug \/ (s.dirty /\ s.b_transaction # 0 /\ ~(s.b_transaction \in {h_tid[p], committing} /\ s.b_next_transaction \in {0, h_tid[p]})))
  BY <1>1, UndirtyFields
<1> HIDE DEF s, u, v, w
<1>4. /\ v \in Buffer /\ v.b_transaction = u.b_transaction
      /\ v.b_next_transaction = u.b_next_transaction /\ v.b_jlist = u.b_jlist /\ ~v.b_modified
      /\ v.b_frozen_data = u.b_frozen_data /\ v.b_cp_transaction = u.b_cp_transaction
      /\ v.data = u.data /\ v.dirty = u.dirty /\ v.jbddirty = u.jbddirty /\ v.freed = u.freed
      /\ v.bug = u.bug
  BY <1>3, <1>2 DEF v, Buffer
<1>5. /\ w \in Buffer /\ w.b_transaction = v.b_transaction
      /\ w.b_next_transaction = v.b_next_transaction /\ w.b_jlist = v.b_jlist
      /\ w.b_modified = v.b_modified /\ w.b_frozen_data = v.b_frozen_data
      /\ w.b_cp_transaction = v.b_cp_transaction /\ w.data = v.data /\ w.dirty = v.dirty
      /\ w.jbddirty = v.jbddirty /\ w.freed = v.freed
      /\ w.bug = (v.bug \/ ~(s.b_next_transaction = 0 /\ s.b_transaction = committing))
  BY <1>4, <1>2 DEF w, Buffer, J_ASSERT
<1>6. /\ w \in Buffer /\ w.b_transaction = s.b_transaction
      /\ w.b_next_transaction = s.b_next_transaction /\ w.b_jlist = s.b_jlist /\ ~w.b_modified
      /\ w.b_frozen_data = s.b_frozen_data /\ w.b_cp_transaction = s.b_cp_transaction
      /\ w.data = s.data /\ ~w.dirty /\ w.jbddirty = (s.jbddirty \/ s.dirty) /\ w.freed = s.freed
      /\ w.bug = (s.bug \/ (s.dirty /\ s.b_transaction # 0 /\ ~(s.b_transaction \in {h_tid[p], committing} /\ s.b_next_transaction \in {0, h_tid[p]})) \/ ~(s.b_next_transaction = 0 /\ s.b_transaction = committing))
  BY <1>2, <1>3, <1>4, <1>5, Fields
<1>7. Touches(h_buf[p]) /\ buf'[h_buf[p]] = w
  BY <1>1, <1>2, <1>6, OneBuffer
<1> QED
  BY <1>2, <1>6, <1>7 DEF s

\* The log I/O must end first.
LEMMA ShadowEffect ==
  ASSUME Base, NEW p \in Procs, AccessShadow(p)
  PROVE  LET s == buf[h_buf[p]]
             r == buf'[h_buf[p]] IN
         /\ h_buf[p] \in Blocks /\ Touches(h_buf[p])
         /\ r \in Buffer /\ r.b_transaction = s.b_transaction
         /\ r.b_next_transaction = s.b_next_transaction /\ r.b_jlist = s.b_jlist /\ ~r.b_modified
         /\ r.b_frozen_data = s.b_frozen_data /\ r.b_cp_transaction = s.b_cp_transaction
         /\ r.data = s.data /\ ~r.dirty /\ r.jbddirty = (s.jbddirty \/ s.dirty)
         /\ r.freed = s.freed
         /\ r.bug = (s.bug \/ (s.dirty /\ s.b_transaction # 0 /\ ~(s.b_transaction \in {h_tid[p], committing} /\ s.b_next_transaction \in {0, h_tid[p]})) \/ ~(s.b_next_transaction = 0 /\ s.b_transaction = committing))
<1> DEFINE s == buf[h_buf[p]]
           u == Undirty(p)
           v == [u EXCEPT !.b_modified = FALSE]
           w == J_ASSERT(v, /\ s.b_next_transaction = 0 /\ s.b_transaction = committing)
<1>1. buf' = [buf EXCEPT ![h_buf[p]] = w] /\ pc[p] = "access"
  BY DEF AccessShadow, Older, OlderChecked, SetBuf, Touched
<1>2. /\ h_buf[p] \in Blocks /\ s \in Buffer /\ h_tid[p] \in 0 .. MaxTid /\ running # 0
      /\ h_tid[p] = running /\ TypeOK
  BY <1>1, Working DEF Base
<1>3. /\ u \in Buffer /\ u.b_transaction = s.b_transaction
      /\ u.b_next_transaction = s.b_next_transaction /\ u.b_jlist = s.b_jlist
      /\ u.b_modified = s.b_modified /\ u.b_frozen_data = s.b_frozen_data
      /\ u.b_cp_transaction = s.b_cp_transaction /\ u.data = s.data /\ ~u.dirty
      /\ u.jbddirty = (s.jbddirty \/ s.dirty) /\ u.freed = s.freed
      /\ u.bug = (s.bug \/ (s.dirty /\ s.b_transaction # 0 /\ ~(s.b_transaction \in {h_tid[p], committing} /\ s.b_next_transaction \in {0, h_tid[p]})))
  BY <1>1, UndirtyFields
<1> HIDE DEF s, u, v, w
<1>4. /\ v \in Buffer /\ v.b_transaction = u.b_transaction
      /\ v.b_next_transaction = u.b_next_transaction /\ v.b_jlist = u.b_jlist /\ ~v.b_modified
      /\ v.b_frozen_data = u.b_frozen_data /\ v.b_cp_transaction = u.b_cp_transaction
      /\ v.data = u.data /\ v.dirty = u.dirty /\ v.jbddirty = u.jbddirty /\ v.freed = u.freed
      /\ v.bug = u.bug
  BY <1>3, <1>2 DEF v, Buffer
<1>5. /\ w \in Buffer /\ w.b_transaction = v.b_transaction
      /\ w.b_next_transaction = v.b_next_transaction /\ w.b_jlist = v.b_jlist
      /\ w.b_modified = v.b_modified /\ w.b_frozen_data = v.b_frozen_data
      /\ w.b_cp_transaction = v.b_cp_transaction /\ w.data = v.data /\ w.dirty = v.dirty
      /\ w.jbddirty = v.jbddirty /\ w.freed = v.freed
      /\ w.bug = (v.bug \/ ~(s.b_next_transaction = 0 /\ s.b_transaction = committing))
  BY <1>4, <1>2 DEF w, Buffer, J_ASSERT
<1>6. /\ w \in Buffer /\ w.b_transaction = s.b_transaction
      /\ w.b_next_transaction = s.b_next_transaction /\ w.b_jlist = s.b_jlist /\ ~w.b_modified
      /\ w.b_frozen_data = s.b_frozen_data /\ w.b_cp_transaction = s.b_cp_transaction
      /\ w.data = s.data /\ ~w.dirty /\ w.jbddirty = (s.jbddirty \/ s.dirty) /\ w.freed = s.freed
      /\ w.bug = (s.bug \/ (s.dirty /\ s.b_transaction # 0 /\ ~(s.b_transaction \in {h_tid[p], committing} /\ s.b_next_transaction \in {0, h_tid[p]})) \/ ~(s.b_next_transaction = 0 /\ s.b_transaction = committing))
  BY <1>2, <1>3, <1>4, <1>5, Fields
<1>7. Touches(h_buf[p]) /\ buf'[h_buf[p]] = w
  BY <1>1, <1>2, <1>6, OneBuffer
<1> QED
  BY <1>2, <1>6, <1>7 DEF s

\* No transaction has the buffer.
LEMMA FileEffect ==
  ASSUME Base, NEW p \in Procs, AccessFile(p)
  PROVE  LET s == buf[h_buf[p]]
             r == buf'[h_buf[p]] IN
         /\ h_buf[p] \in Blocks /\ Touches(h_buf[p])
         /\ r \in Buffer /\ r.b_transaction = h_tid[p]
         /\ r.b_next_transaction = s.b_next_transaction /\ r.b_jlist = "Reserved" /\ ~r.b_modified
         /\ r.b_frozen_data = s.b_frozen_data /\ r.b_cp_transaction = s.b_cp_transaction
         /\ r.data = s.data /\ ~r.dirty /\ r.jbddirty = (s.dirty \/ s.jbddirty)
         /\ r.freed = s.freed /\ r.bug = (s.bug \/ s.b_next_transaction # 0)
<1> DEFINE s == buf[h_buf[p]]
           u == Undirty(p)
           v == [u EXCEPT !.b_modified = FALSE]
           w == J_ASSERT(v, s.b_next_transaction = 0)
           x == file(w, h_tid[p], "Reserved")
<1>1. buf' = [buf EXCEPT ![h_buf[p]] = x] /\ pc[p] = "access"
  BY DEF AccessFile, Granted, SetBuf, Touched
<1>2. /\ h_buf[p] \in Blocks /\ s \in Buffer /\ h_tid[p] \in 0 .. MaxTid /\ running # 0
      /\ h_tid[p] = running /\ TypeOK
  BY <1>1, Working DEF Base
<1>3. /\ u \in Buffer /\ u.b_transaction = s.b_transaction
      /\ u.b_next_transaction = s.b_next_transaction /\ u.b_jlist = s.b_jlist
      /\ u.b_modified = s.b_modified /\ u.b_frozen_data = s.b_frozen_data
      /\ u.b_cp_transaction = s.b_cp_transaction /\ u.data = s.data /\ ~u.dirty
      /\ u.jbddirty = (s.jbddirty \/ s.dirty) /\ u.freed = s.freed
      /\ u.bug = (s.bug \/ (s.dirty /\ s.b_transaction # 0 /\ ~(s.b_transaction \in {h_tid[p], committing} /\ s.b_next_transaction \in {0, h_tid[p]})))
  BY <1>1, UndirtyFields
<1>a. s.b_transaction = 0
  BY DEF AccessFile
<1> HIDE DEF s, u, v, w, x
<1>4. /\ v \in Buffer /\ v.b_transaction = u.b_transaction
      /\ v.b_next_transaction = u.b_next_transaction /\ v.b_jlist = u.b_jlist /\ ~v.b_modified
      /\ v.b_frozen_data = u.b_frozen_data /\ v.b_cp_transaction = u.b_cp_transaction
      /\ v.data = u.data /\ v.dirty = u.dirty /\ v.jbddirty = u.jbddirty /\ v.freed = u.freed
      /\ v.bug = u.bug
  BY <1>3, <1>2 DEF v, Buffer
<1>5. /\ w \in Buffer /\ w.b_transaction = v.b_transaction
      /\ w.b_next_transaction = v.b_next_transaction /\ w.b_jlist = v.b_jlist
      /\ w.b_modified = v.b_modified /\ w.b_frozen_data = v.b_frozen_data
      /\ w.b_cp_transaction = v.b_cp_transaction /\ w.data = v.data /\ w.dirty = v.dirty
      /\ w.jbddirty = v.jbddirty /\ w.freed = v.freed
      /\ w.bug = (v.bug \/ s.b_next_transaction # 0)
  BY <1>4, <1>2 DEF w, Buffer, J_ASSERT
<1>6. w \in Buffer /\ ~(w.b_transaction # 0 /\ w.b_jlist = "Reserved")
  BY <1>3, <1>4, <1>5, <1>a
<1>7. /\ x \in Buffer /\ x.b_transaction = h_tid[p] /\ x.b_next_transaction = w.b_next_transaction
      /\ x.b_jlist = "Reserved" /\ x.b_modified = w.b_modified
      /\ x.b_frozen_data = w.b_frozen_data /\ x.b_cp_transaction = w.b_cp_transaction
      /\ x.data = w.data
      /\ x.dirty = (w.b_transaction # 0 /\ w.b_jlist # "None" /\ w.dirty /\ w.jbddirty)
      /\ x.jbddirty = (w.dirty \/ w.jbddirty) /\ x.freed = w.freed
      /\ x.bug = (w.bug \/ w.b_transaction \notin {0, h_tid[p]})
  BY <1>6, <1>2, FiledJournal DEF x
<1>8. /\ x \in Buffer /\ x.b_transaction = h_tid[p] /\ x.b_next_transaction = s.b_next_transaction
      /\ x.b_jlist = "Reserved" /\ ~x.b_modified /\ x.b_frozen_data = s.b_frozen_data
      /\ x.b_cp_transaction = s.b_cp_transaction /\ x.data = s.data /\ ~x.dirty
      /\ x.jbddirty = (s.dirty \/ s.jbddirty) /\ x.freed = s.freed
      /\ x.bug = (s.bug \/ s.b_next_transaction # 0)
  BY <1>2, <1>3, <1>4, <1>5, <1>7, <1>a, Fields
<1>9. Touches(h_buf[p]) /\ buf'[h_buf[p]] = x
  BY <1>1, <1>2, <1>8, OneBuffer
<1> QED
  BY <1>2, <1>8, <1>9 DEF s

-----------------------------------------------------------------------------
(* Steps and the handles *)

\* The type invariant after a step, by groups.
LEMMA GroupsNext ==
  TypeOK' <=> CommitType' /\ ProcType' /\ FsType' /\ BufType' /\ RestType'
BY DEF TypeOK, CommitType, ProcType, FsType, BufType, RestType, Phases, Places, Uses

(* The process works on a buffer. *)
Works(p) == pc[p] \notin {"idle", "open", "shrunk"}

\* A process that works on a buffer goes on or leaves it.
LEMMA WorkBase ==
  ASSUME Base, TypeOK', NEW p \in Procs, Works(p), NEW x \in Places \ {"idle", "new", "shrunk"},
         UNCHANGED <<running, committing, last, phase, committed, use, h_tid>>,
         pc' = [pc EXCEPT ![p] = x],
         \A q \in Procs : q # p => h_buf'[q] = h_buf[q],
         x # "open" => h_buf'[p] = h_buf[p]
  PROVE  Base'
<1>0. /\ h_buf[p] \in Blocks /\ use[h_buf[p]] = "used" /\ h_tid[p] = running /\ running # 0
      /\ pc \in [Procs -> Places]
  BY Working, Groups DEF Base, Works, ProcType
<1>1. TidInv'
  BY DEF Base, TidInv
<1>2. \A q \in Procs : q # p => pc'[q] = pc[q] /\ h_buf'[q] = h_buf[q] /\ h_tid'[q] = h_tid[q]
  BY <1>0
<1>3. pc'[p] = x /\ h_tid'[p] = h_tid[p] /\ (x # "open" => h_buf'[p] = h_buf[p])
  BY <1>0
<1>4. HandleInv'
  <2> SUFFICES ASSUME NEW q \in Procs
               PROVE  /\ h_tid'[q] \in {0, running'}
                      /\ pc'[q] = "idle" <=> h_tid'[q] = 0
                      /\ Waiting(q)' \/ Holding(q)' \/ pc'[q] = "new" =>
                           h_buf'[q] \in Blocks /\ use'[h_buf'[q]] = "used"
                      /\ pc'[q] = "new" => h_buf'[q] \in Data
    BY DEF HandleInv
  <2>1. CASE q = p
    BY <1>0, <1>3, <2>1 DEF Waiting, Holding
  <2>2. CASE q # p
    BY <1>2, <2>2 DEF Base, HandleInv, Waiting, Holding
  <2> QED
    BY <2>1, <2>2
<1> QED
  BY <1>1, <1>4 DEF Base

\* Handles stay as they are, but for a process that is woken.
LEMMA IdleBase ==
  ASSUME Base, TypeOK', TidInv', UNCHANGED <<running, use, h_tid, h_buf>>,
         \A q \in Procs : pc'[q] = pc[q] \/ (pc[q] = "asleep" /\ pc'[q] = "shadow")
  PROVE  Base'
<1>1. HandleInv'
  <2> SUFFICES ASSUME NEW q \in Procs
               PROVE  /\ h_tid'[q] \in {0, running'}
                      /\ pc'[q] = "idle" <=> h_tid'[q] = 0
                      /\ Waiting(q)' \/ Holding(q)' \/ pc'[q] = "new" =>
                           h_buf'[q] \in Blocks /\ use'[h_buf'[q]] = "used"
                      /\ pc'[q] = "new" => h_buf'[q] \in Data
    BY DEF HandleInv
  <2> QED
    BY DEF Base, HandleInv, Waiting, Holding
<1> QED
  BY <1>1 DEF Base


-----------------------------------------------------------------------------
(* Every step keeps the types, and handles in the running transaction. *)


\* AccessOwned keeps Base.
LEMMA OwnedBase ==
  ASSUME Base, NEW p \in Procs, AccessOwned(p)
  PROVE  Base'
<1>0. CommitType /\ ProcType /\ FsType /\ BufType /\ RestType
  BY Groups DEF Base
<1>1. BufType'
  BY OwnedEffect DEF BufType, Touches
<1>2. PICK x \in {"granted"} : pc' = [pc EXCEPT ![p] = x]
  BY DEF AccessOwned, Granted, Goto, Leave
<1>3. ProcType'
  BY <1>0, <1>2 DEF ProcType, Places, AccessOwned, Granted, Leave, commitVars, blockVars, accessUnchanged
<1>4. CommitType' /\ FsType' /\ RestType'
  BY <1>0 DEF CommitType, FsType, RestType, AccessOwned, Granted, commitVars, blockVars, accessUnchanged
<1>5. TypeOK'
  BY <1>1, <1>3, <1>4, GroupsNext
<1>6. /\ Works(p) /\ x \in Places \ {"idle", "new", "shrunk"} /\ h_tid' = h_tid
      /\ UNCHANGED <<running, committing, last, phase, committed, use>>
      /\ \A q \in Procs : q # p => h_buf'[q] = h_buf[q]
      /\ x # "open" => h_buf'[p] = h_buf[p]
  <2>1. Works(p) /\ x \in Places \ {"idle", "new", "shrunk"}
    BY <1>2 DEF Works, Places, AccessOwned, Granted
  <2>2. UNCHANGED <<running, committing, last, phase, committed, use>> /\ h_tid' = h_tid
    BY DEF AccessOwned, Granted, commitVars, blockVars, accessUnchanged, Leave
  <2>3. (\A q \in Procs : q # p => h_buf'[q] = h_buf[q]) /\ (x # "open" => h_buf'[p] = h_buf[p])
    BY <1>0, <1>2 DEF ProcType, Places, AccessOwned, Granted, Goto, Leave
  <2> QED
    BY <2>1, <2>2, <2>3
<1> QED
  BY <1>2, <1>5, <1>6, WorkBase

\* AccessAborted keeps Base.
LEMMA AbortedBase ==
  ASSUME Base, NEW p \in Procs, AccessAborted(p)
  PROVE  Base'
<1>0. CommitType /\ ProcType /\ FsType /\ BufType /\ RestType
  BY Groups DEF Base
<1>1. BufType'
  BY AbortedEffect DEF BufType, Touches
<1>2. PICK x \in {"open"} : pc' = [pc EXCEPT ![p] = x]
  BY DEF AccessAborted, Goto, Leave
<1>3. ProcType'
  BY <1>0, <1>2 DEF ProcType, Places, AccessAborted, Leave, commitVars, blockVars, accessUnchanged
<1>4. CommitType' /\ FsType' /\ RestType'
  BY <1>0 DEF CommitType, FsType, RestType, AccessAborted, commitVars, blockVars, accessUnchanged
<1>5. TypeOK'
  BY <1>1, <1>3, <1>4, GroupsNext
<1>6. /\ Works(p) /\ x \in Places \ {"idle", "new", "shrunk"} /\ h_tid' = h_tid
      /\ UNCHANGED <<running, committing, last, phase, committed, use>>
      /\ \A q \in Procs : q # p => h_buf'[q] = h_buf[q]
      /\ x # "open" => h_buf'[p] = h_buf[p]
  <2>1. Works(p) /\ x \in Places \ {"idle", "new", "shrunk"}
    BY <1>2 DEF Works, Places, AccessAborted
  <2>2. UNCHANGED <<running, committing, last, phase, committed, use>> /\ h_tid' = h_tid
    BY DEF AccessAborted, commitVars, blockVars, accessUnchanged, Leave
  <2>3. (\A q \in Procs : q # p => h_buf'[q] = h_buf[q]) /\ (x # "open" => h_buf'[p] = h_buf[p])
    BY <1>0, <1>2 DEF ProcType, Places, AccessAborted, Goto, Leave
  <2> QED
    BY <2>1, <2>2, <2>3
<1> QED
  BY <1>2, <1>5, <1>6, WorkBase

\* AccessFrozen keeps Base.
LEMMA FrozenBase ==
  ASSUME Base, NEW p \in Procs, AccessFrozen(p)
  PROVE  Base'
<1>0. CommitType /\ ProcType /\ FsType /\ BufType /\ RestType
  BY Groups DEF Base
<1>1. BufType'
  BY FrozenEffect DEF BufType, Touches
<1>2. PICK x \in {"granted"} : pc' = [pc EXCEPT ![p] = x]
  BY DEF AccessFrozen, Granted, Goto, Leave
<1>3. ProcType'
  BY <1>0, <1>2 DEF ProcType, Places, AccessFrozen, Granted, Leave, commitVars, blockVars, accessUnchanged
<1>4. CommitType' /\ FsType' /\ RestType'
  BY <1>0 DEF CommitType, FsType, RestType, AccessFrozen, Granted, commitVars, blockVars, accessUnchanged
<1>5. TypeOK'
  BY <1>1, <1>3, <1>4, GroupsNext
<1>6. /\ Works(p) /\ x \in Places \ {"idle", "new", "shrunk"} /\ h_tid' = h_tid
      /\ UNCHANGED <<running, committing, last, phase, committed, use>>
      /\ \A q \in Procs : q # p => h_buf'[q] = h_buf[q]
      /\ x # "open" => h_buf'[p] = h_buf[p]
  <2>1. Works(p) /\ x \in Places \ {"idle", "new", "shrunk"}
    BY <1>2 DEF Works, Places, AccessFrozen, Granted
  <2>2. UNCHANGED <<running, committing, last, phase, committed, use>> /\ h_tid' = h_tid
    BY DEF AccessFrozen, Granted, commitVars, blockVars, accessUnchanged, Leave
  <2>3. (\A q \in Procs : q # p => h_buf'[q] = h_buf[q]) /\ (x # "open" => h_buf'[p] = h_buf[p])
    BY <1>0, <1>2 DEF ProcType, Places, AccessFrozen, Granted, Goto, Leave
  <2> QED
    BY <2>1, <2>2, <2>3
<1> QED
  BY <1>2, <1>5, <1>6, WorkBase

\* AccessForget keeps Base.
LEMMA ForgetBase ==
  ASSUME Base, NEW p \in Procs, AccessForget(p)
  PROVE  Base'
<1>0. CommitType /\ ProcType /\ FsType /\ BufType /\ RestType
  BY Groups DEF Base
<1>1. BufType'
  BY ForgetEffect DEF BufType, Touches
<1>2. PICK x \in {"granted"} : pc' = [pc EXCEPT ![p] = x]
  BY DEF AccessForget, Older, Granted, Goto, Leave
<1>3. ProcType'
  BY <1>0, <1>2 DEF ProcType, Places, AccessForget, Older, Granted, Leave, commitVars, blockVars, accessUnchanged
<1>4. CommitType' /\ FsType' /\ RestType'
  BY <1>0 DEF CommitType, FsType, RestType, AccessForget, Older, Granted, commitVars, blockVars, accessUnchanged
<1>5. TypeOK'
  BY <1>1, <1>3, <1>4, GroupsNext
<1>6. /\ Works(p) /\ x \in Places \ {"idle", "new", "shrunk"} /\ h_tid' = h_tid
      /\ UNCHANGED <<running, committing, last, phase, committed, use>>
      /\ \A q \in Procs : q # p => h_buf'[q] = h_buf[q]
      /\ x # "open" => h_buf'[p] = h_buf[p]
  <2>1. Works(p) /\ x \in Places \ {"idle", "new", "shrunk"}
    BY <1>2 DEF Works, Places, AccessForget, Older, Granted
  <2>2. UNCHANGED <<running, committing, last, phase, committed, use>> /\ h_tid' = h_tid
    BY DEF AccessForget, Older, Granted, commitVars, blockVars, accessUnchanged, Leave
  <2>3. (\A q \in Procs : q # p => h_buf'[q] = h_buf[q]) /\ (x # "open" => h_buf'[p] = h_buf[p])
    BY <1>0, <1>2 DEF ProcType, Places, AccessForget, Older, Granted, Goto, Leave
  <2> QED
    BY <2>1, <2>2, <2>3
<1> QED
  BY <1>2, <1>5, <1>6, WorkBase

\* AccessCopy keeps Base.
LEMMA CopyBase ==
  ASSUME Base, NEW p \in Procs, AccessCopy(p)
  PROVE  Base'
<1>0. CommitType /\ ProcType /\ FsType /\ BufType /\ RestType
  BY Groups DEF Base
<1>1. BufType'
  BY CopyEffect DEF BufType, Touches
<1>2. PICK x \in {"granted"} : pc' = [pc EXCEPT ![p] = x]
  BY DEF AccessCopy, Older, Granted, Goto, Leave
<1>3. ProcType'
  BY <1>0, <1>2 DEF ProcType, Places, AccessCopy, Older, Granted, Leave, commitVars, blockVars, accessUnchanged
<1>4. CommitType' /\ FsType' /\ RestType'
  BY <1>0 DEF CommitType, FsType, RestType, AccessCopy, Older, Granted, commitVars, blockVars, accessUnchanged
<1>5. TypeOK'
  BY <1>1, <1>3, <1>4, GroupsNext
<1>6. /\ Works(p) /\ x \in Places \ {"idle", "new", "shrunk"} /\ h_tid' = h_tid
      /\ UNCHANGED <<running, committing, last, phase, committed, use>>
      /\ \A q \in Procs : q # p => h_buf'[q] = h_buf[q]
      /\ x # "open" => h_buf'[p] = h_buf[p]
  <2>1. Works(p) /\ x \in Places \ {"idle", "new", "shrunk"}
    BY <1>2 DEF Works, Places, AccessCopy, Older, Granted
  <2>2. UNCHANGED <<running, committing, last, phase, committed, use>> /\ h_tid' = h_tid
    BY DEF AccessCopy, Older, Granted, commitVars, blockVars, accessUnchanged, Leave
  <2>3. (\A q \in Procs : q # p => h_buf'[q] = h_buf[q]) /\ (x # "open" => h_buf'[p] = h_buf[p])
    BY <1>0, <1>2 DEF ProcType, Places, AccessCopy, Older, Granted, Goto, Leave
  <2> QED
    BY <2>1, <2>2, <2>3
<1> QED
  BY <1>2, <1>5, <1>6, WorkBase

\* AccessAlloc keeps Base.
LEMMA AllocBase ==
  ASSUME Base, NEW p \in Procs, AccessAlloc(p)
  PROVE  Base'
<1>0. CommitType /\ ProcType /\ FsType /\ BufType /\ RestType
  BY Groups DEF Base
<1>1. BufType'
  BY AllocEffect DEF BufType, Touches
<1>2. PICK x \in {"alloc"} : pc' = [pc EXCEPT ![p] = x]
  BY DEF AccessAlloc, Older, Goto, Leave
<1>3. ProcType'
  BY <1>0, <1>2 DEF ProcType, Places, AccessAlloc, Older, Leave, commitVars, blockVars, accessUnchanged
<1>4. CommitType' /\ FsType' /\ RestType'
  BY <1>0 DEF CommitType, FsType, RestType, AccessAlloc, Older, commitVars, blockVars, accessUnchanged
<1>5. TypeOK'
  BY <1>1, <1>3, <1>4, GroupsNext
<1>6. /\ Works(p) /\ x \in Places \ {"idle", "new", "shrunk"} /\ h_tid' = h_tid
      /\ UNCHANGED <<running, committing, last, phase, committed, use>>
      /\ \A q \in Procs : q # p => h_buf'[q] = h_buf[q]
      /\ x # "open" => h_buf'[p] = h_buf[p]
  <2>1. Works(p) /\ x \in Places \ {"idle", "new", "shrunk"}
    BY <1>2 DEF Works, Places, AccessAlloc, Older
  <2>2. UNCHANGED <<running, committing, last, phase, committed, use>> /\ h_tid' = h_tid
    BY DEF AccessAlloc, Older, commitVars, blockVars, accessUnchanged, Leave
  <2>3. (\A q \in Procs : q # p => h_buf'[q] = h_buf[q]) /\ (x # "open" => h_buf'[p] = h_buf[p])
    BY <1>0, <1>2 DEF ProcType, Places, AccessAlloc, Older, Goto, Leave
  <2> QED
    BY <2>1, <2>2, <2>3
<1> QED
  BY <1>2, <1>5, <1>6, WorkBase

\* AllocFrozen keeps Base.
LEMMA FrozenAllocBase ==
  ASSUME Base, NEW p \in Procs, AllocFrozen(p)
  PROVE  Base'
<1>0. CommitType /\ ProcType /\ FsType /\ BufType /\ RestType
  BY Groups DEF Base
<1>1. BufType'
  BY <1>0 DEF BufType, AllocFrozen, commitVars, blockVars, accessUnchanged
<1>2. PICK x \in {"access", "open"} : pc' = [pc EXCEPT ![p] = x]
  BY DEF AllocFrozen, Goto, Leave
<1>3. ProcType'
  BY <1>0, <1>2 DEF ProcType, Places, AllocFrozen, Leave, commitVars, blockVars, accessUnchanged
<1>4. CommitType' /\ FsType' /\ RestType'
  BY <1>0 DEF CommitType, FsType, RestType, AllocFrozen, commitVars, blockVars, accessUnchanged
<1>5. TypeOK'
  BY <1>1, <1>3, <1>4, GroupsNext
<1>6. /\ Works(p) /\ x \in Places \ {"idle", "new", "shrunk"} /\ h_tid' = h_tid
      /\ UNCHANGED <<running, committing, last, phase, committed, use>>
      /\ \A q \in Procs : q # p => h_buf'[q] = h_buf[q]
      /\ x # "open" => h_buf'[p] = h_buf[p]
  <2>1. Works(p) /\ x \in Places \ {"idle", "new", "shrunk"}
    BY <1>2 DEF Works, Places, AllocFrozen
  <2>2. UNCHANGED <<running, committing, last, phase, committed, use>> /\ h_tid' = h_tid
    BY DEF AllocFrozen, commitVars, blockVars, accessUnchanged, Leave
  <2>3. (\A q \in Procs : q # p => h_buf'[q] = h_buf[q]) /\ (x # "open" => h_buf'[p] = h_buf[p])
    BY <1>0, <1>2 DEF ProcType, Places, AllocFrozen, Goto, Leave
  <2> QED
    BY <2>1, <2>2, <2>3
<1> QED
  BY <1>2, <1>5, <1>6, WorkBase

\* AccessFile keeps Base.
LEMMA FileBase ==
  ASSUME Base, NEW p \in Procs, AccessFile(p)
  PROVE  Base'
<1>0. CommitType /\ ProcType /\ FsType /\ BufType /\ RestType
  BY Groups DEF Base
<1>1. BufType'
  BY FileEffect DEF BufType, Touches
<1>2. PICK x \in {"granted"} : pc' = [pc EXCEPT ![p] = x]
  BY DEF AccessFile, Granted, Goto, Leave
<1>3. ProcType'
  BY <1>0, <1>2 DEF ProcType, Places, AccessFile, Granted, Leave, commitVars, blockVars, accessUnchanged
<1>4. CommitType' /\ FsType' /\ RestType'
  BY <1>0 DEF CommitType, FsType, RestType, AccessFile, Granted, commitVars, blockVars, accessUnchanged
<1>5. TypeOK'
  BY <1>1, <1>3, <1>4, GroupsNext
<1>6. /\ Works(p) /\ x \in Places \ {"idle", "new", "shrunk"} /\ h_tid' = h_tid
      /\ UNCHANGED <<running, committing, last, phase, committed, use>>
      /\ \A q \in Procs : q # p => h_buf'[q] = h_buf[q]
      /\ x # "open" => h_buf'[p] = h_buf[p]
  <2>1. Works(p) /\ x \in Places \ {"idle", "new", "shrunk"}
    BY <1>2 DEF Works, Places, AccessFile, Granted
  <2>2. UNCHANGED <<running, committing, last, phase, committed, use>> /\ h_tid' = h_tid
    BY DEF AccessFile, Granted, commitVars, blockVars, accessUnchanged, Leave
  <2>3. (\A q \in Procs : q # p => h_buf'[q] = h_buf[q]) /\ (x # "open" => h_buf'[p] = h_buf[p])
    BY <1>0, <1>2 DEF ProcType, Places, AccessFile, Granted, Goto, Leave
  <2> QED
    BY <2>1, <2>2, <2>3
<1> QED
  BY <1>2, <1>5, <1>6, WorkBase

\* AccessShadow keeps Base.
LEMMA ShadowBase ==
  ASSUME Base, NEW p \in Procs, AccessShadow(p)
  PROVE  Base'
<1>0. CommitType /\ ProcType /\ FsType /\ BufType /\ RestType
  BY Groups DEF Base
<1>1. BufType'
  BY ShadowEffect DEF BufType, Touches
<1>2. PICK x \in {"shadow"} : pc' = [pc EXCEPT ![p] = x]
  BY DEF AccessShadow, Older, Goto, Leave
<1>3. ProcType'
  BY <1>0, <1>2 DEF ProcType, Places, AccessShadow, Older, Leave, commitVars, blockVars, accessUnchanged
<1>4. CommitType' /\ FsType' /\ RestType'
  BY <1>0 DEF CommitType, FsType, RestType, AccessShadow, Older, commitVars, blockVars, accessUnchanged
<1>5. TypeOK'
  BY <1>1, <1>3, <1>4, GroupsNext
<1>6. /\ Works(p) /\ x \in Places \ {"idle", "new", "shrunk"} /\ h_tid' = h_tid
      /\ UNCHANGED <<running, committing, last, phase, committed, use>>
      /\ \A q \in Procs : q # p => h_buf'[q] = h_buf[q]
      /\ x # "open" => h_buf'[p] = h_buf[p]
  <2>1. Works(p) /\ x \in Places \ {"idle", "new", "shrunk"}
    BY <1>2 DEF Works, Places, AccessShadow, Older
  <2>2. UNCHANGED <<running, committing, last, phase, committed, use>> /\ h_tid' = h_tid
    BY DEF AccessShadow, Older, commitVars, blockVars, accessUnchanged, Leave
  <2>3. (\A q \in Procs : q # p => h_buf'[q] = h_buf[q]) /\ (x # "open" => h_buf'[p] = h_buf[p])
    BY <1>0, <1>2 DEF ProcType, Places, AccessShadow, Older, Goto, Leave
  <2> QED
    BY <2>1, <2>2, <2>3
<1> QED
  BY <1>2, <1>5, <1>6, WorkBase

\* ShadowPrepare keeps Base.
LEMMA PrepareBase ==
  ASSUME Base, NEW p \in Procs, ShadowPrepare(p)
  PROVE  Base'
<1>0. CommitType /\ ProcType /\ FsType /\ BufType /\ RestType
  BY Groups DEF Base
<1>1. BufType'
  BY <1>0 DEF BufType, ShadowPrepare, commitVars, blockVars, accessUnchanged
<1>2. PICK x \in {"queued"} : pc' = [pc EXCEPT ![p] = x]
  BY DEF ShadowPrepare, Goto, Leave
<1>3. ProcType'
  BY <1>0, <1>2 DEF ProcType, Places, ShadowPrepare, Leave, commitVars, blockVars, accessUnchanged
<1>4. CommitType' /\ FsType' /\ RestType'
  BY <1>0 DEF CommitType, FsType, RestType, ShadowPrepare, commitVars, blockVars, accessUnchanged
<1>5. TypeOK'
  BY <1>1, <1>3, <1>4, GroupsNext
<1>6. /\ Works(p) /\ x \in Places \ {"idle", "new", "shrunk"} /\ h_tid' = h_tid
      /\ UNCHANGED <<running, committing, last, phase, committed, use>>
      /\ \A q \in Procs : q # p => h_buf'[q] = h_buf[q]
      /\ x # "open" => h_buf'[p] = h_buf[p]
  <2>1. Works(p) /\ x \in Places \ {"idle", "new", "shrunk"}
    BY <1>2 DEF Works, Places, ShadowPrepare
  <2>2. UNCHANGED <<running, committing, last, phase, committed, use>> /\ h_tid' = h_tid
    BY DEF ShadowPrepare, commitVars, blockVars, accessUnchanged, Leave
  <2>3. (\A q \in Procs : q # p => h_buf'[q] = h_buf[q]) /\ (x # "open" => h_buf'[p] = h_buf[p])
    BY <1>0, <1>2 DEF ProcType, Places, ShadowPrepare, Goto, Leave
  <2> QED
    BY <2>1, <2>2, <2>3
<1> QED
  BY <1>2, <1>5, <1>6, WorkBase

\* ShadowCheck keeps Base.
LEMMA CheckBase ==
  ASSUME Base, NEW p \in Procs, ShadowCheck(p)
  PROVE  Base'
<1>0. CommitType /\ ProcType /\ FsType /\ BufType /\ RestType
  BY Groups DEF Base
<1>1. BufType'
  BY <1>0 DEF BufType, ShadowCheck, commitVars, blockVars, accessUnchanged
<1>2. PICK x \in {"asleep", "access"} : pc' = [pc EXCEPT ![p] = x]
  BY DEF ShadowCheck, Goto, Leave
<1>3. ProcType'
  BY <1>0, <1>2 DEF ProcType, Places, ShadowCheck, Leave, commitVars, blockVars, accessUnchanged
<1>4. CommitType' /\ FsType' /\ RestType'
  BY <1>0 DEF CommitType, FsType, RestType, ShadowCheck, commitVars, blockVars, accessUnchanged
<1>5. TypeOK'
  BY <1>1, <1>3, <1>4, GroupsNext
<1>6. /\ Works(p) /\ x \in Places \ {"idle", "new", "shrunk"} /\ h_tid' = h_tid
      /\ UNCHANGED <<running, committing, last, phase, committed, use>>
      /\ \A q \in Procs : q # p => h_buf'[q] = h_buf[q]
      /\ x # "open" => h_buf'[p] = h_buf[p]
  <2>1. Works(p) /\ x \in Places \ {"idle", "new", "shrunk"}
    BY <1>2 DEF Works, Places, ShadowCheck
  <2>2. UNCHANGED <<running, committing, last, phase, committed, use>> /\ h_tid' = h_tid
    BY DEF ShadowCheck, commitVars, blockVars, accessUnchanged, Leave
  <2>3. (\A q \in Procs : q # p => h_buf'[q] = h_buf[q]) /\ (x # "open" => h_buf'[p] = h_buf[p])
    BY <1>0, <1>2 DEF ProcType, Places, ShadowCheck, Goto, Leave
  <2> QED
    BY <2>1, <2>2, <2>3
<1> QED
  BY <1>2, <1>5, <1>6, WorkBase

\* jbdbf_journal_release_buffer keeps Base.
LEMMA ReleaseBase ==
  ASSUME Base, NEW p \in Procs, jbdbf_journal_release_buffer(p)
  PROVE  Base'
<1>0. CommitType /\ ProcType /\ FsType /\ BufType /\ RestType
  BY Groups DEF Base
<1>1. BufType'
  BY <1>0 DEF BufType, jbdbf_journal_release_buffer, commitVars, blockVars
<1>2. PICK x \in {"open"} : pc' = [pc EXCEPT ![p] = x]
  BY DEF jbdbf_journal_release_buffer, Goto, Leave
<1>3. ProcType'
  BY <1>0, <1>2 DEF ProcType, Places, jbdbf_journal_release_buffer, Leave, commitVars, blockVars
<1>4. CommitType' /\ FsType' /\ RestType'
  BY <1>0 DEF CommitType, FsType, RestType, jbdbf_journal_release_buffer, commitVars, blockVars
<1>5. TypeOK'
  BY <1>1, <1>3, <1>4, GroupsNext
<1>6. /\ Works(p) /\ x \in Places \ {"idle", "new", "shrunk"} /\ h_tid' = h_tid
      /\ UNCHANGED <<running, committing, last, phase, committed, use>>
      /\ \A q \in Procs : q # p => h_buf'[q] = h_buf[q]
      /\ x # "open" => h_buf'[p] = h_buf[p]
  <2>1. Works(p) /\ x \in Places \ {"idle", "new", "shrunk"}
    BY <1>2 DEF Works, Places, jbdbf_journal_release_buffer
  <2>2. UNCHANGED <<running, committing, last, phase, committed, use>> /\ h_tid' = h_tid
    BY DEF jbdbf_journal_release_buffer, commitVars, blockVars, Leave
  <2>3. (\A q \in Procs : q # p => h_buf'[q] = h_buf[q]) /\ (x # "open" => h_buf'[p] = h_buf[p])
    BY <1>0, <1>2 DEF ProcType, Places, jbdbf_journal_release_buffer, Goto, Leave
  <2> QED
    BY <2>1, <2>2, <2>3
<1> QED
  BY <1>2, <1>5, <1>6, WorkBase

\* What these operations make of a buffer is a buffer.
LEMMA MetadataType ==
  ASSUME NEW s \in Buffer, NEW t \in 0 .. MaxTid, t # 0
  PROVE  Metadata(s, t) \in Buffer
<1>1. CASE s.b_transaction = t /\ s.b_jlist = "Metadata"
  BY <1>1, MetadataAgain
<1>2. CASE s.b_transaction # t
  BY <1>2, MetadataOlder
<1>3. CASE s.b_transaction = t /\ s.b_jlist # "Metadata"
  BY <1>3, MetadataFiled
<1> QED
  BY <1>1, <1>2, <1>3

LEMMA DirtydataType ==
  ASSUME NEW s \in Buffer, NEW t \in 0 .. MaxTid
  PROVE  Dirtydata(s, t) \in Buffer
<1> DEFINE v == [s EXCEPT !.b_modified = TRUE, !.jbddirty = TRUE]
<1>1. v \in Buffer /\ "Dirtydata" \in Lists
  BY DEF Buffer, Lists
<1> HIDE DEF v
<1>2. file(v, t, "Dirtydata") \in Buffer
  BY <1>1, Filed
<1> QED
  BY <1>2 DEF Dirtydata, v

LEMMA CreateType ==
  ASSUME NEW s \in Buffer, NEW t \in 0 .. MaxTid, t # 0
  PROVE  CreateAccess(s, t) \in Buffer
<1>1. CASE s.b_transaction = 0
  BY <1>1, CreateFiled
<1>2. CASE s.b_transaction # 0
  <2> DEFINE v == J_ASSERT(s, /\ \/ s.b_transaction \in {0, t}
                                 \/ s.b_transaction = committing /\ s.b_jlist = "Forget"
                              /\ s.b_next_transaction = 0)
  <2>1. v \in Buffer
    BY DEF J_ASSERT, Buffer
  <2>2. CreateAccess(s, t) = IF s.b_transaction = committing
                             THEN [v EXCEPT !.b_modified = FALSE, !.b_next_transaction = t] ELSE v
    BY <1>2 DEF CreateAccess
  <2> HIDE DEF v
  <2>3. [v EXCEPT !.b_modified = FALSE, !.b_next_transaction = t] \in Buffer
    BY <2>1 DEF Buffer
  <2> QED
    BY <2>1, <2>2, <2>3
<1> QED
  BY <1>1, <1>2

LEMMA ForgetType ==
  ASSUME NEW s \in Buffer, NEW t \in 0 .. MaxTid, t # 0
  PROVE  Forget(s, t) \in Buffer
<1>1. CASE s.b_transaction = t /\ s.b_cp_transaction # 0
  BY <1>1, ForgetPinned
<1>2. CASE s.b_transaction = t /\ s.b_cp_transaction = 0
  BY <1>2, ForgetUnfiled
<1>3. CASE s.b_transaction # t /\ s.b_transaction # 0
  BY <1>3, ForgetOlder
<1>4. CASE s.b_transaction = 0
  BY <1>4, ForgetNone
<1> QED
  BY <1>1, <1>2, <1>3, <1>4

LEMMA UnmapType ==
  ASSUME NEW s \in Buffer, running \in 0 .. MaxTid, committing \in 0 .. MaxTid
  PROVE  Unmap(s) \in Buffer
<1>1. CASE s.b_transaction = 0 /\ (s.b_cp_transaction = 0 \/ ~s.dirty)
  BY <1>1, UnmapClean
<1>2. CASE s.b_transaction = 0 /\ s.b_cp_transaction # 0 /\ s.dirty /\ running # 0
  BY <1>2, UnmapRunning
<1>3. CASE s.b_transaction = 0 /\ s.b_cp_transaction # 0 /\ s.dirty /\ running = 0 /\ committing # 0
  BY <1>3, UnmapCommitting
<1>4. CASE s.b_transaction = 0 /\ s.b_cp_transaction # 0 /\ s.dirty /\ running = 0 /\ committing = 0
  BY <1>4, UnmapIdle
<1>5. CASE s.b_transaction # 0 /\ s.b_transaction = committing
  BY <1>5, UnmapOlder
<1>6. CASE s.b_transaction # 0 /\ s.b_transaction # committing /\ s.b_cp_transaction # 0
  BY <1>6, UnmapOwnPinned
<1>7. CASE s.b_transaction # 0 /\ s.b_transaction # committing /\ s.b_cp_transaction = 0
  BY <1>7, UnmapOwn
<1> QED
  BY <1>1, <1>2, <1>3, <1>4, <1>5, <1>6, <1>7

LEMMA UnshadowType ==
  ASSUME NEW s \in Buffer, committing \in 0 .. MaxTid
  PROVE  Unshadow(s) \in Buffer
<1> DEFINE v == J_ASSERT(s, s.jbddirty)
<1>1. v \in Buffer /\ "Forget" \in Lists
  BY Fields DEF J_ASSERT, Buffer, Lists
<1> HIDE DEF v
<1>2. file(v, committing, "Forget") \in Buffer
  BY <1>1, Filed
<1> QED
  BY <1>2 DEF Unshadow, v

\* A new buffer that is filed by the transaction that allocates its block.
LEMMA FreshFiled ==
  ASSUME NEW t \in 0 .. MaxTid
  PROVE  LET r == file(Fresh, t, "Reserved") IN
         /\ r \in Buffer /\ r.b_transaction = t /\ r.b_next_transaction = 0
         /\ r.b_jlist = "Reserved" /\ ~r.b_modified /\ r.b_frozen_data = None
         /\ r.b_cp_transaction = 0 /\ r.data = 0 /\ ~r.dirty /\ ~r.jbddirty /\ ~r.freed /\ ~r.bug
<1>1. /\ Fresh \in Buffer /\ Fresh.b_transaction = 0 /\ Fresh.b_next_transaction = 0
      /\ Fresh.b_jlist = "None" /\ ~Fresh.b_modified /\ Fresh.b_frozen_data = None
      /\ Fresh.b_cp_transaction = 0 /\ Fresh.data = 0 /\ ~Fresh.dirty /\ ~Fresh.jbddirty
      /\ ~Fresh.freed /\ ~Fresh.bug
  BY Constant DEF Fresh, Buffer, Lists
<1> DEFINE f == Fresh
<1> HIDE DEF f
<1>2. f \in Buffer /\ f = Fresh
  BY <1>1 DEF f
<1>3. LET r == file(f, t, "Reserved") IN
      /\ r \in Buffer /\ r.b_transaction = t /\ r.b_next_transaction = f.b_next_transaction
      /\ r.b_jlist = "Reserved" /\ r.b_modified = f.b_modified
      /\ r.b_frozen_data = f.b_frozen_data /\ r.b_cp_transaction = f.b_cp_transaction
      /\ r.data = f.data
      /\ r.dirty = (f.b_transaction # 0 /\ f.b_jlist # "None" /\ f.dirty /\ f.jbddirty)
      /\ r.jbddirty = (f.dirty \/ f.jbddirty) /\ r.freed = f.freed
      /\ r.bug = (f.bug \/ f.b_transaction \notin {0, t})
  BY <1>1, <1>2, FiledJournal
<1> QED
  BY <1>1, <1>2, <1>3

-----------------------------------------------------------------------------
(* Effects of the other steps on a buffer *)

\* The buffer is changed.
LEMMA ModifyEffect ==
  ASSUME Base, NEW p \in Procs, Modify(p)
  PROVE  LET s == buf[h_buf[p]]
             r == buf'[h_buf[p]] IN
         /\ h_buf[p] \in Blocks /\ Touches(h_buf[p]) /\ version + 1 \in Versions
         /\ r \in Buffer /\ r.b_transaction = s.b_transaction
         /\ r.b_next_transaction = s.b_next_transaction /\ r.b_jlist = s.b_jlist
         /\ r.b_modified = s.b_modified /\ r.b_frozen_data = s.b_frozen_data
         /\ r.b_cp_transaction = s.b_cp_transaction /\ r.data = version + 1 /\ r.dirty = s.dirty
         /\ r.jbddirty = s.jbddirty /\ r.freed = s.freed /\ r.bug = s.bug
<1> DEFINE s == buf[h_buf[p]]
           r == [s EXCEPT !.data = version + 1]
<1>1. TypeOK /\ h_buf[p] \in Blocks /\ s \in Buffer
  BY Working DEF Base, Modify
<1>2. version + 1 \in Versions
  BY <1>1, Groups, Constant DEF RestType, Versions, Modify
<1>3. buf' = [buf EXCEPT ![h_buf[p]] = r]
  BY DEF Modify
<1> HIDE DEF s
<1>4. /\ r \in Buffer /\ r.b_transaction = s.b_transaction
      /\ r.b_next_transaction = s.b_next_transaction /\ r.b_jlist = s.b_jlist
      /\ r.b_modified = s.b_modified /\ r.b_frozen_data = s.b_frozen_data
      /\ r.b_cp_transaction = s.b_cp_transaction /\ r.data = version + 1 /\ r.dirty = s.dirty
      /\ r.jbddirty = s.jbddirty /\ r.freed = s.freed /\ r.bug = s.bug
  BY <1>1, <1>2 DEF Buffer
<1> HIDE DEF r
<1>5. Touches(h_buf[p]) /\ buf'[h_buf[p]] = r
  BY <1>1, <1>3, <1>4, OneBuffer
<1> QED
  BY <1>1, <1>2, <1>4, <1>5 DEF s

(* The two places that call jbdbf_journal_dirty_metadata. *)
Dirties(p) == jbdbf_journal_dirty_metadata(p) \/ DirtyAgain(p)

\* The buffer is filed as changed, unless the journal is aborted.
LEMMA DirtyEffect ==
  ASSUME Base, NEW p \in Procs, Dirties(p)
  PROVE  /\ h_buf[p] \in Blocks /\ Touches(h_buf[p]) /\ Holding(p) /\ Works(p)
         /\ h_tid[p] \in 0 .. MaxTid /\ h_tid[p] = running /\ running # 0
         /\ aborted => buf' = buf /\ wrote' = wrote
         /\ ~aborted => /\ buf'[h_buf[p]] = Metadata(buf[h_buf[p]], h_tid[p])
                        /\ wrote' = wrote \cup {h_buf[p]}
<1> DEFINE s == buf[h_buf[p]]
           r == Metadata(s, h_tid[p])
<1>0. Holding(p) /\ Works(p) /\ pc[p] \notin {"idle", "open", "shrunk"}
  BY DEF Dirties, jbdbf_journal_dirty_metadata, DirtyAgain, Holding, Works
<1>1. /\ TypeOK /\ h_buf[p] \in Blocks /\ s \in Buffer
      /\ h_tid[p] \in 0 .. MaxTid /\ h_tid[p] = running /\ running # 0
  BY <1>0, Working DEF Base
<1>2. r \in Buffer
  BY <1>1, MetadataType
<1>3. CASE aborted
  BY <1>0, <1>1, <1>3, Groups DEF Dirties, jbdbf_journal_dirty_metadata, DirtyAgain, Touches, BufType
<1>4. CASE ~aborted
  <2>1. buf' = [buf EXCEPT ![h_buf[p]] = r] /\ wrote' = wrote \cup {h_buf[p]}
    BY <1>4 DEF Dirties, jbdbf_journal_dirty_metadata, DirtyAgain, SetBuf
  <2> HIDE DEF r
  <2>2. Touches(h_buf[p]) /\ buf'[h_buf[p]] = r
    BY <1>1, <1>2, <2>1, OneBuffer
  <2> QED
    BY <1>0, <1>1, <1>4, <2>1, <2>2 DEF r
<1> QED
  BY <1>3, <1>4

\* An append gets its contents, and is filed unless the journal is aborted.
LEMMA AppendedEffect ==
  ASSUME Base, NEW p \in Procs, jbdbf_journal_dirty_data(p)
  PROVE  LET s == [buf[h_buf[p]] EXCEPT !.data = version + 1] IN
         /\ h_buf[p] \in Blocks /\ h_buf[p] \in Data /\ Touches(h_buf[p])
         /\ h_tid[p] \in 0 .. MaxTid /\ h_tid[p] = running /\ running # 0
         /\ version + 1 \in Versions /\ s \in Buffer
         /\ buf'[h_buf[p]] = IF aborted THEN s ELSE Dirtydata(s, h_tid[p])
<1> DEFINE s == [buf[h_buf[p]] EXCEPT !.data = version + 1]
           r == IF aborted THEN s ELSE Dirtydata(s, h_tid[p])
<1>1. /\ TypeOK /\ h_buf[p] \in Blocks /\ buf[h_buf[p]] \in Buffer
      /\ h_tid[p] \in 0 .. MaxTid /\ h_tid[p] = running /\ running # 0
  BY Working DEF Base, jbdbf_journal_dirty_data
<1>2. version + 1 \in Versions
  BY <1>1, Groups, Constant DEF RestType, Versions, jbdbf_journal_dirty_data
<1>3. s \in Buffer
  BY <1>1, <1>2 DEF Buffer
<1>4. buf' = [buf EXCEPT ![h_buf[p]] = r]
  BY DEF jbdbf_journal_dirty_data, SetBuf
<1>5. h_buf[p] \in Data
  BY DEF Base, HandleInv, jbdbf_journal_dirty_data
<1> HIDE DEF s
<1>6. r \in Buffer
  BY <1>1, <1>3, DirtydataType
<1> HIDE DEF r
<1>7. Touches(h_buf[p]) /\ buf'[h_buf[p]] = r
  BY <1>1, <1>4, <1>6, OneBuffer
<1> QED
  BY <1>1, <1>2, <1>3, <1>5, <1>7 DEF s, r


\* Modify keeps Base.
LEMMA ModifyBase ==
  ASSUME Base, NEW p \in Procs, Modify(p)
  PROVE  Base'
<1>0. CommitType /\ ProcType /\ FsType /\ BufType /\ RestType
  BY Groups DEF Base
<1>1. BufType'
  BY ModifyEffect DEF BufType, Touches
<1>2. PICK x \in {"modified"} : pc' = [pc EXCEPT ![p] = x]
  BY DEF Modify, Goto, Leave
<1>3. ProcType'
  BY <1>0, <1>2 DEF ProcType, Places, Modify, Leave, commitVars, blockVars
<1>4. CommitType' /\ FsType' /\ RestType'
  BY <1>0, ModifyEffect DEF CommitType, FsType, RestType, Modify, commitVars, blockVars
<1>5. TypeOK'
  BY <1>1, <1>3, <1>4, GroupsNext
<1>6. /\ Works(p) /\ x \in Places \ {"idle", "new", "shrunk"} /\ h_tid' = h_tid
      /\ UNCHANGED <<running, committing, last, phase, committed, use>>
      /\ \A q \in Procs : q # p => h_buf'[q] = h_buf[q]
      /\ x # "open" => h_buf'[p] = h_buf[p]
  <2>1. Works(p) /\ x \in Places \ {"idle", "new", "shrunk"}
    BY <1>2 DEF Works, Places, Modify
  <2>2. UNCHANGED <<running, committing, last, phase, committed, use>> /\ h_tid' = h_tid
    BY DEF Modify, commitVars, blockVars, Leave
  <2>3. (\A q \in Procs : q # p => h_buf'[q] = h_buf[q]) /\ (x # "open" => h_buf'[p] = h_buf[p])
    BY <1>0, <1>2 DEF ProcType, Places, Modify, Goto, Leave
  <2> QED
    BY <2>1, <2>2, <2>3
<1> QED
  BY <1>2, <1>5, <1>6, WorkBase

\* jbdbf_journal_dirty_metadata keeps Base.
LEMMA DirtyBase ==
  ASSUME Base, NEW p \in Procs, jbdbf_journal_dirty_metadata(p)
  PROVE  Base'
<1>0. CommitType /\ ProcType /\ FsType /\ BufType /\ RestType
  BY Groups DEF Base
<1>1. BufType'
  BY DirtyEffect DEF BufType, Touches, Dirties
<1>2. PICK x \in {"open"} : pc' = [pc EXCEPT ![p] = x]
  BY DEF jbdbf_journal_dirty_metadata, Dirties, Goto, Leave
<1>3. ProcType'
  BY <1>0, <1>2 DEF ProcType, Places, jbdbf_journal_dirty_metadata, Dirties, Leave, commitVars, blockVars
<1>4. CommitType' /\ FsType' /\ RestType'
  BY <1>0, DirtyEffect DEF CommitType, FsType, RestType, jbdbf_journal_dirty_metadata, Dirties, commitVars, blockVars
<1>5. TypeOK'
  BY <1>1, <1>3, <1>4, GroupsNext
<1>6. /\ Works(p) /\ x \in Places \ {"idle", "new", "shrunk"} /\ h_tid' = h_tid
      /\ UNCHANGED <<running, committing, last, phase, committed, use>>
      /\ \A q \in Procs : q # p => h_buf'[q] = h_buf[q]
      /\ x # "open" => h_buf'[p] = h_buf[p]
  <2>1. Works(p) /\ x \in Places \ {"idle", "new", "shrunk"}
    BY <1>2 DEF Works, Places, jbdbf_journal_dirty_metadata, Dirties
  <2>2. UNCHANGED <<running, committing, last, phase, committed, use>> /\ h_tid' = h_tid
    BY DEF jbdbf_journal_dirty_metadata, Dirties, commitVars, blockVars, Leave
  <2>3. (\A q \in Procs : q # p => h_buf'[q] = h_buf[q]) /\ (x # "open" => h_buf'[p] = h_buf[p])
    BY <1>0, <1>2 DEF ProcType, Places, jbdbf_journal_dirty_metadata, Dirties, Goto, Leave
  <2> QED
    BY <2>1, <2>2, <2>3
<1> QED
  BY <1>2, <1>5, <1>6, WorkBase

\* DirtyAgain keeps Base.
LEMMA DirtyAgainBase ==
  ASSUME Base, NEW p \in Procs, DirtyAgain(p)
  PROVE  Base'
<1>0. CommitType /\ ProcType /\ FsType /\ BufType /\ RestType
  BY Groups DEF Base
<1>1. BufType'
  BY DirtyEffect DEF BufType, Touches, Dirties
<1>2. PICK x \in {"granted"} : pc' = [pc EXCEPT ![p] = x]
  BY <1>0 DEF ProcType, DirtyAgain
<1>3. ProcType'
  BY <1>0, <1>2 DEF ProcType, Places, DirtyAgain, Dirties, Leave, commitVars, blockVars
<1>4. CommitType' /\ FsType' /\ RestType'
  <2>1. wrote' \subseteq Blocks
    BY <1>0, DirtyEffect DEF RestType, Dirties
  <2> QED
    BY <1>0, <2>1 DEF CommitType, FsType, RestType, DirtyAgain, commitVars, blockVars
<1>5. TypeOK'
  BY <1>1, <1>3, <1>4, GroupsNext
<1>6. /\ Works(p) /\ x \in Places \ {"idle", "new", "shrunk"} /\ h_tid' = h_tid
      /\ UNCHANGED <<running, committing, last, phase, committed, use>>
      /\ \A q \in Procs : q # p => h_buf'[q] = h_buf[q]
      /\ x # "open" => h_buf'[p] = h_buf[p]
  <2>1. Works(p) /\ x \in Places \ {"idle", "new", "shrunk"}
    BY <1>2 DEF Works, Places, DirtyAgain, Dirties
  <2>2. UNCHANGED <<running, committing, last, phase, committed, use>> /\ h_tid' = h_tid
    BY DEF DirtyAgain, Dirties, commitVars, blockVars, Leave
  <2>3. (\A q \in Procs : q # p => h_buf'[q] = h_buf[q]) /\ (x # "open" => h_buf'[p] = h_buf[p])
    BY <1>0, <1>2 DEF ProcType, Places, DirtyAgain, Dirties, Goto, Leave
  <2> QED
    BY <2>1, <2>2, <2>3
<1> QED
  BY <1>2, <1>5, <1>6, WorkBase

\* jbdbf_journal_dirty_data keeps Base.
LEMMA AppendedBase ==
  ASSUME Base, NEW p \in Procs, jbdbf_journal_dirty_data(p)
  PROVE  Base'
<1>0. CommitType /\ ProcType /\ FsType /\ BufType /\ RestType
  BY Groups DEF Base
<1>1. BufType'
  BY AppendedEffect DEF BufType, Touches
<1>2. PICK x \in {"open"} : pc' = [pc EXCEPT ![p] = x]
  BY DEF jbdbf_journal_dirty_data, Goto, Leave
<1>3. ProcType'
  BY <1>0, <1>2 DEF ProcType, Places, jbdbf_journal_dirty_data, Leave, commitVars, blockVars
<1>4. CommitType' /\ FsType' /\ RestType'
  BY <1>0, AppendedEffect DEF CommitType, FsType, RestType, jbdbf_journal_dirty_data, commitVars, blockVars
<1>5. TypeOK'
  BY <1>1, <1>3, <1>4, GroupsNext
<1>6. /\ Works(p) /\ x \in Places \ {"idle", "new", "shrunk"} /\ h_tid' = h_tid
      /\ UNCHANGED <<running, committing, last, phase, committed, use>>
      /\ \A q \in Procs : q # p => h_buf'[q] = h_buf[q]
      /\ x # "open" => h_buf'[p] = h_buf[p]
  <2>1. Works(p) /\ x \in Places \ {"idle", "new", "shrunk"}
    BY <1>2 DEF Works, Places, jbdbf_journal_dirty_data
  <2>2. UNCHANGED <<running, committing, last, phase, committed, use>> /\ h_tid' = h_tid
    BY DEF jbdbf_journal_dirty_data, commitVars, blockVars, Leave
  <2>3. (\A q \in Procs : q # p => h_buf'[q] = h_buf[q]) /\ (x # "open" => h_buf'[p] = h_buf[p])
    BY <1>0, <1>2 DEF ProcType, Places, jbdbf_journal_dirty_data, Goto, Leave
  <2> QED
    BY <2>1, <2>2, <2>3
<1> QED
  BY <1>2, <1>5, <1>6, WorkBase

\* A process takes a buffer, or the use of a block that nobody works on changes.
LEMMA UseBase ==
  ASSUME Base, TypeOK', NEW p \in Procs, pc[p] = "open", NEW b \in Blocks,
         NEW x \in Places \ {"idle"},
         UNCHANGED <<running, committing, last, phase, committed, h_tid>>,
         pc' = [pc EXCEPT ![p] = x],
         \A q \in Procs : q # p => h_buf'[q] = h_buf[q],
         x \notin {"open", "shrunk"} => h_buf'[p] = b /\ use'[b] = "used",
         x = "new" => b \in Data,
         \A q \in Procs : Works(q) => use'[h_buf[q]] = "used"
  PROVE  Base'
<1>0. pc \in [Procs -> Places] /\ h_tid[p] = running /\ running # 0
  BY Groups DEF Base, ProcType, HandleInv
<1>1. TidInv'
  BY DEF Base, TidInv
<1>2. HandleInv'
  <2> SUFFICES ASSUME NEW q \in Procs
               PROVE  /\ h_tid'[q] \in {0, running'}
                      /\ pc'[q] = "idle" <=> h_tid'[q] = 0
                      /\ Waiting(q)' \/ Holding(q)' \/ pc'[q] = "new" =>
                           h_buf'[q] \in Blocks /\ use'[h_buf'[q]] = "used"
                      /\ pc'[q] = "new" => h_buf'[q] \in Data
    BY DEF HandleInv
  <2>1. CASE q = p
    <3>1. pc'[q] = x /\ h_tid'[q] = running
      BY <1>0, <2>1
    <3> QED
      BY <1>0, <2>1, <3>1 DEF Waiting, Holding
  <2>2. CASE q # p
    <3>1. pc'[q] = pc[q] /\ h_buf'[q] = h_buf[q] /\ h_tid'[q] = h_tid[q]
      BY <1>0, <2>2
    <3> QED
      BY <3>1 DEF Base, HandleInv, Waiting, Holding, Works
  <2> QED
    BY <2>1, <2>2
<1> QED
  BY <1>1, <1>2 DEF Base

\* jbdbf_journal_start keeps Base.
LEMMA StartBase ==
  ASSUME Base, NEW p \in Procs, jbdbf_journal_start(p)
  PROVE  Base'
<1>0. CommitType /\ ProcType /\ FsType /\ BufType /\ RestType
  BY Groups DEF Base
<1>1. CASE running # 0
  <2>1. /\ UNCHANGED <<running, committing, last, phase, committed, use, h_buf>>
        /\ h_tid' = [h_tid EXCEPT ![p] = running] /\ pc' = [pc EXCEPT ![p] = "open"]
    BY <1>1 DEF jbdbf_journal_start, Goto, blockVars
  <2>2. TidInv'
    BY <2>1 DEF Base, TidInv
  <2>3. TypeOK'
    <3>1. ProcType'
      BY <1>0, <2>1 DEF ProcType, CommitType, Places, jbdbf_journal_start
    <3>2. CommitType' /\ FsType' /\ BufType' /\ RestType'
      BY <1>0, <1>1 DEF CommitType, FsType, BufType, RestType, jbdbf_journal_start, blockVars
    <3> QED
      BY <3>1, <3>2, GroupsNext
  <2>4. HandleInv'
    <3> SUFFICES ASSUME NEW q \in Procs
                 PROVE  /\ h_tid'[q] \in {0, running'}
                        /\ pc'[q] = "idle" <=> h_tid'[q] = 0
                        /\ Waiting(q)' \/ Holding(q)' \/ pc'[q] = "new" =>
                             h_buf'[q] \in Blocks /\ use'[h_buf'[q]] = "used"
                        /\ pc'[q] = "new" => h_buf'[q] \in Data
      BY DEF HandleInv
    <3>1. CASE q = p
      BY <1>0, <1>1, <2>1, <3>1 DEF ProcType, Waiting, Holding
    <3>2. CASE q # p
      BY <1>0, <2>1, <3>2 DEF ProcType, Base, HandleInv, Waiting, Holding
    <3> QED
      BY <3>1, <3>2
  <2> QED
    BY <2>2, <2>3, <2>4 DEF Base
<1>2. CASE running = 0
  <2>1. /\ UNCHANGED <<committing, phase, committed, use, h_buf>> /\ phase # "locked"
        /\ running' = last + 1 /\ last' = last + 1 /\ last < MaxTid
        /\ h_tid' = [h_tid EXCEPT ![p] = last + 1] /\ pc' = [pc EXCEPT ![p] = "open"]
        /\ wrote' = {} /\ tags' = {}
    BY <1>2 DEF jbdbf_journal_start, Goto, blockVars
  <2>2. last \in 0 .. MaxTid /\ last + 1 \in 0 .. MaxTid /\ committing \in 0 .. MaxTid
        /\ committed \subseteq 0 .. MaxTid
    BY <1>0, <2>1, Constant DEF CommitType
  <2>3. TidInv'
    BY <1>2, <2>1, <2>2 DEF Base, TidInv
  <2>4. TypeOK'
    <3>1. ProcType'
      BY <1>0, <2>1, <2>2 DEF ProcType, Places, jbdbf_journal_start
    <3>2. CommitType' /\ FsType' /\ BufType' /\ RestType'
      BY <1>0, <2>1, <2>2 DEF CommitType, FsType, BufType, RestType, jbdbf_journal_start, blockVars
    <3> QED
      BY <3>1, <3>2, GroupsNext
  <2>5. HandleInv'
    <3> SUFFICES ASSUME NEW q \in Procs
                 PROVE  /\ h_tid'[q] \in {0, running'}
                        /\ pc'[q] = "idle" <=> h_tid'[q] = 0
                        /\ Waiting(q)' \/ Holding(q)' \/ pc'[q] = "new" =>
                             h_buf'[q] \in Blocks /\ use'[h_buf'[q]] = "used"
                        /\ pc'[q] = "new" => h_buf'[q] \in Data
      BY DEF HandleInv
    <3>1. CASE q = p
      BY <1>0, <2>1, <2>2, <3>1 DEF ProcType, Waiting, Holding
    <3>2. CASE q # p
      <4>1. h_tid[q] = 0
        BY <1>2 DEF Base, HandleInv
      <4> QED
        BY <1>0, <2>1, <3>2, <4>1 DEF ProcType, Base, HandleInv, Waiting, Holding
    <3> QED
      BY <3>1, <3>2
  <2> QED
    BY <2>3, <2>4, <2>5 DEF Base
<1> QED
  BY <1>1, <1>2

\* jbdbf_journal_stop keeps Base.
LEMMA StopBase ==
  ASSUME Base, NEW p \in Procs, jbdbf_journal_stop(p)
  PROVE  Base'
<1>0. CommitType /\ ProcType /\ FsType /\ BufType /\ RestType
  BY Groups DEF Base
<1>1. /\ UNCHANGED <<running, committing, last, phase, committed, use>>
      /\ h_tid' = [h_tid EXCEPT ![p] = 0] /\ pc' = [pc EXCEPT ![p] = "idle"]
      /\ h_buf' = [h_buf EXCEPT ![p] = "none"]
  BY DEF jbdbf_journal_stop, Goto, blockVars, commitVars
<1>2. TidInv'
  BY <1>1 DEF Base, TidInv
<1>3. TypeOK'
  <2>1. ProcType'
    BY <1>0, <1>1, Constant DEF ProcType, Places, jbdbf_journal_stop
  <2>2. CommitType' /\ FsType' /\ BufType' /\ RestType'
    BY <1>0 DEF CommitType, FsType, BufType, RestType, jbdbf_journal_stop, blockVars, commitVars
  <2> QED
    BY <2>1, <2>2, GroupsNext
<1>4. HandleInv'
  <2> SUFFICES ASSUME NEW q \in Procs
               PROVE  /\ h_tid'[q] \in {0, running'}
                      /\ pc'[q] = "idle" <=> h_tid'[q] = 0
                      /\ Waiting(q)' \/ Holding(q)' \/ pc'[q] = "new" =>
                           h_buf'[q] \in Blocks /\ use'[h_buf'[q]] = "used"
                      /\ pc'[q] = "new" => h_buf'[q] \in Data
    BY DEF HandleInv
  <2>1. CASE q = p
    BY <1>0, <1>1, <2>1 DEF ProcType, Waiting, Holding
  <2>2. CASE q # p
    BY <1>0, <1>1, <2>2 DEF ProcType, Base, HandleInv, Waiting, Holding
  <2> QED
    BY <2>1, <2>2
<1> QED
  BY <1>2, <1>3, <1>4 DEF Base


\* GetWriteAccess(p, b) keeps Base.
LEMMA GetBase ==
  ASSUME Base, NEW p \in Procs, NEW b \in Blocks, GetWriteAccess(p, b)
  PROVE  Base'
<1>0. /\ CommitType /\ ProcType /\ FsType /\ BufType /\ RestType /\ TypeOK
      /\ h_tid[p] \in 0 .. MaxTid /\ buf[b] \in Buffer /\ h_tid[p] # 0
  <2>1. CommitType /\ ProcType /\ FsType /\ BufType /\ RestType /\ TypeOK /\ pc[p] = "open"
    BY Groups DEF Base, GetWriteAccess
  <2> QED
    BY <2>1 DEF ProcType, BufType, Base, HandleInv
<1>1. BufType'
  <2>1. [buf[b] EXCEPT !.dirty = FALSE] \in Buffer
    BY <1>0 DEF Buffer
  <2> QED
    BY <1>0, <2>1 DEF BufType, GetWriteAccess
<1>2. pc' = [pc EXCEPT ![p] = "access"] /\ pc[p] = "open"
  BY <1>0 DEF GetWriteAccess, Goto, ProcType, procVars
<1>3. ProcType'
  BY <1>0, <1>2 DEF ProcType, Places, GetWriteAccess, procVars
<1>4. FsType'
  BY <1>0, Constant DEF FsType, Uses, GetWriteAccess, blockVars
<1>5. CommitType' /\ RestType'
  BY <1>0 DEF CommitType, RestType, GetWriteAccess, commitVars
<1>6. TypeOK'
  BY <1>1, <1>3, <1>4, <1>5, GroupsNext
<1>7. UNCHANGED <<running, committing, last, phase, committed, h_tid>> /\ "access" \in Places \ {"idle"}
  BY DEF GetWriteAccess, commitVars, procVars, Places
<1>8. \A q \in Procs : q # p => h_buf'[q] = h_buf[q]
  BY <1>0 DEF ProcType, GetWriteAccess, procVars
<1>9. \A q \in Procs : Works(q) => use'[h_buf[q]] = "used"
  <2> SUFFICES ASSUME NEW q \in Procs, Works(q) PROVE use'[h_buf[q]] = "used"
    OBVIOUS
  <2>1. h_buf[q] \in Blocks /\ use[h_buf[q]] = "used"
    BY Working DEF Works
  <2> QED
    BY <1>0, <2>1 DEF GetWriteAccess, blockVars
<1>10. "access" \notin {"open", "shrunk"} => h_buf'[p] = b /\ use'[b] = "used"
  BY <1>0 DEF ProcType, FsType, GetWriteAccess, blockVars
<1>11. "access" = "new" => b \in Data
  BY DEF GetWriteAccess
<1> QED
  BY <1>2, <1>6, <1>7, <1>8, <1>9, <1>10, <1>11, UseBase

\* jbdbf_journal_get_create_access(p, b) keeps Base.
LEMMA CreateBase ==
  ASSUME Base, NEW p \in Procs, NEW b \in Blocks, jbdbf_journal_get_create_access(p, b)
  PROVE  Base'
<1>0. /\ CommitType /\ ProcType /\ FsType /\ BufType /\ RestType /\ TypeOK
      /\ h_tid[p] \in 0 .. MaxTid /\ buf[b] \in Buffer /\ h_tid[p] # 0
  <2>1. CommitType /\ ProcType /\ FsType /\ BufType /\ RestType /\ TypeOK /\ pc[p] = "open"
    BY Groups DEF Base, jbdbf_journal_get_create_access
  <2> QED
    BY <2>1 DEF ProcType, BufType, Base, HandleInv
<1>1. BufType'
  <2> DEFINE r == CreateAccess(buf[b], h_tid[p])
  <2>1. r \in Buffer
    BY <1>0, CreateType
  <2>2. buf' = [buf EXCEPT ![b] = r]
    BY DEF jbdbf_journal_get_create_access
  <2> HIDE DEF r
  <2> QED
    BY <1>0, <2>1, <2>2, OneBuffer DEF BufType, Touches
<1>2. pc' = [pc EXCEPT ![p] = "created"] /\ pc[p] = "open"
  BY <1>0 DEF jbdbf_journal_get_create_access, Goto, ProcType, procVars
<1>3. ProcType'
  BY <1>0, <1>2 DEF ProcType, Places, jbdbf_journal_get_create_access, procVars
<1>4. FsType'
  BY <1>0, Constant DEF FsType, Uses, jbdbf_journal_get_create_access, Allocate
<1>5. CommitType' /\ RestType'
  BY <1>0 DEF CommitType, RestType, jbdbf_journal_get_create_access, commitVars
<1>6. TypeOK'
  BY <1>1, <1>3, <1>4, <1>5, GroupsNext
<1>7. UNCHANGED <<running, committing, last, phase, committed, h_tid>> /\ "created" \in Places \ {"idle"}
  BY DEF jbdbf_journal_get_create_access, commitVars, procVars, Places
<1>8. \A q \in Procs : q # p => h_buf'[q] = h_buf[q]
  BY <1>0 DEF ProcType, jbdbf_journal_get_create_access, procVars
<1>9. \A q \in Procs : Works(q) => use'[h_buf[q]] = "used"
  <2> SUFFICES ASSUME NEW q \in Procs, Works(q) PROVE use'[h_buf[q]] = "used"
    OBVIOUS
  <2>1. h_buf[q] \in Blocks /\ use[h_buf[q]] = "used"
    BY Working DEF Works
  <2> QED
    BY <1>0, <2>1 DEF FsType, jbdbf_journal_get_create_access, Allocate
<1>10. "created" \notin {"open", "shrunk"} => h_buf'[p] = b /\ use'[b] = "used"
  BY <1>0 DEF ProcType, FsType, jbdbf_journal_get_create_access, Allocate
<1>11. "created" = "new" => b \in Data
  BY DEF jbdbf_journal_get_create_access
<1> QED
  BY <1>2, <1>6, <1>7, <1>8, <1>9, <1>10, <1>11, UseBase

\* Append(p, b) keeps Base.
LEMMA AppendBase ==
  ASSUME Base, NEW p \in Procs, NEW b \in Blocks, Append(p, b)
  PROVE  Base'
<1>0. /\ CommitType /\ ProcType /\ FsType /\ BufType /\ RestType /\ TypeOK
      /\ h_tid[p] \in 0 .. MaxTid /\ buf[b] \in Buffer /\ h_tid[p] # 0
  <2>1. CommitType /\ ProcType /\ FsType /\ BufType /\ RestType /\ TypeOK /\ pc[p] = "open"
    BY Groups DEF Base, Append
  <2> QED
    BY <2>1 DEF ProcType, BufType, Base, HandleInv
<1>1. BufType'
  <2> DEFINE r == file(Fresh, h_tid[p], "Reserved")
  <2>1. r \in Buffer
    BY <1>0, FreshFiled
  <2>2. buf' = [buf EXCEPT ![b] = r]
    BY DEF Append
  <2> HIDE DEF r
  <2> QED
    BY <1>0, <2>1, <2>2, OneBuffer DEF BufType, Touches
<1>2. pc' = [pc EXCEPT ![p] = "new"] /\ pc[p] = "open"
  BY <1>0 DEF Append, Goto, ProcType, procVars
<1>3. ProcType'
  BY <1>0, <1>2 DEF ProcType, Places, Append, procVars
<1>4. FsType'
  BY <1>0, Constant DEF FsType, Uses, Append, Allocate
<1>5. CommitType' /\ RestType'
  BY <1>0 DEF CommitType, RestType, Append, commitVars
<1>6. TypeOK'
  BY <1>1, <1>3, <1>4, <1>5, GroupsNext
<1>7. UNCHANGED <<running, committing, last, phase, committed, h_tid>> /\ "new" \in Places \ {"idle"}
  BY DEF Append, commitVars, procVars, Places
<1>8. \A q \in Procs : q # p => h_buf'[q] = h_buf[q]
  BY <1>0 DEF ProcType, Append, procVars
<1>9. \A q \in Procs : Works(q) => use'[h_buf[q]] = "used"
  <2> SUFFICES ASSUME NEW q \in Procs, Works(q) PROVE use'[h_buf[q]] = "used"
    OBVIOUS
  <2>1. h_buf[q] \in Blocks /\ use[h_buf[q]] = "used"
    BY Working DEF Works
  <2> QED
    BY <1>0, <2>1 DEF FsType, Append, Allocate
<1>10. "new" \notin {"open", "shrunk"} => h_buf'[p] = b /\ use'[b] = "used"
  BY <1>0 DEF ProcType, FsType, Append, Allocate
<1>11. "new" = "new" => b \in Data
  BY DEF Append
<1> QED
  BY <1>2, <1>6, <1>7, <1>8, <1>9, <1>10, <1>11, UseBase

\* jbdbf_journal_forget(p, b) keeps Base.
LEMMA ForgetBlockBase ==
  ASSUME Base, NEW p \in Procs, NEW b \in Blocks, jbdbf_journal_forget(p, b)
  PROVE  Base'
<1>0. /\ CommitType /\ ProcType /\ FsType /\ BufType /\ RestType /\ TypeOK
      /\ h_tid[p] \in 0 .. MaxTid /\ buf[b] \in Buffer /\ h_tid[p] # 0
  <2>1. CommitType /\ ProcType /\ FsType /\ BufType /\ RestType /\ TypeOK /\ pc[p] = "open"
    BY Groups DEF Base, jbdbf_journal_forget
  <2> QED
    BY <2>1 DEF ProcType, BufType, Base, HandleInv
<1>1. BufType'
  <2> DEFINE r == Forget(buf[b], h_tid[p])
  <2>1. r \in Buffer
    BY <1>0, ForgetType
  <2>2. buf' = [buf EXCEPT ![b] = r]
    BY DEF jbdbf_journal_forget
  <2> HIDE DEF r
  <2> QED
    BY <1>0, <2>1, <2>2, OneBuffer DEF BufType, Touches
<1>2. pc' = [pc EXCEPT ![p] = "open"] /\ pc[p] = "open"
  BY <1>0 DEF jbdbf_journal_forget, Goto, ProcType, procVars
<1>3. ProcType'
  BY <1>0, <1>2 DEF ProcType, Places, jbdbf_journal_forget, procVars
<1>4. FsType'
  BY <1>0, Constant DEF FsType, Uses, jbdbf_journal_forget, blockVars
<1>5. CommitType' /\ RestType'
  BY <1>0 DEF CommitType, RestType, jbdbf_journal_forget, commitVars
<1>6. TypeOK'
  BY <1>1, <1>3, <1>4, <1>5, GroupsNext
<1>7. UNCHANGED <<running, committing, last, phase, committed, h_tid>> /\ "open" \in Places \ {"idle"}
  BY DEF jbdbf_journal_forget, commitVars, procVars, Places
<1>8. \A q \in Procs : q # p => h_buf'[q] = h_buf[q]
  BY <1>0 DEF ProcType, jbdbf_journal_forget, procVars
<1>9. \A q \in Procs : Works(q) => use'[h_buf[q]] = "used"
  <2> SUFFICES ASSUME NEW q \in Procs, Works(q) PROVE use'[h_buf[q]] = "used"
    OBVIOUS
  <2>1. h_buf[q] \in Blocks /\ use[h_buf[q]] = "used"
    BY Working DEF Works
  <2> QED
    BY <1>0, <2>1 DEF FsType, jbdbf_journal_forget, At
<1>10. "open" \notin {"open", "shrunk"} => h_buf'[p] = b /\ use'[b] = "used"
  BY <1>0 DEF ProcType, FsType, jbdbf_journal_forget, blockVars
<1>11. "open" = "new" => b \in Data
  BY DEF jbdbf_journal_forget
<1> QED
  BY <1>2, <1>6, <1>7, <1>8, <1>9, <1>10, <1>11, UseBase

\* Shrink(p, b) keeps Base.
LEMMA ShrinkBase ==
  ASSUME Base, NEW p \in Procs, NEW b \in Blocks, Shrink(p, b)
  PROVE  Base'
<1>0. /\ CommitType /\ ProcType /\ FsType /\ BufType /\ RestType /\ TypeOK
      /\ h_tid[p] \in 0 .. MaxTid /\ buf[b] \in Buffer /\ h_tid[p] # 0
  <2>1. CommitType /\ ProcType /\ FsType /\ BufType /\ RestType /\ TypeOK /\ pc[p] = "open"
    BY Groups DEF Base, Shrink
  <2> QED
    BY <2>1 DEF ProcType, BufType, Base, HandleInv
<1>1. BufType'
  BY <1>0 DEF BufType, Shrink
<1>2. pc' = [pc EXCEPT ![p] = "shrunk"] /\ pc[p] = "open"
  BY <1>0 DEF Shrink, Goto, ProcType, procVars
<1>3. ProcType'
  BY <1>0, <1>2 DEF ProcType, Places, Shrink, procVars
<1>4. FsType'
  BY <1>0, Constant DEF FsType, Uses, Shrink, blockVars
<1>5. CommitType' /\ RestType'
  BY <1>0 DEF CommitType, RestType, Shrink, commitVars
<1>6. TypeOK'
  BY <1>1, <1>3, <1>4, <1>5, GroupsNext
<1>7. UNCHANGED <<running, committing, last, phase, committed, h_tid>> /\ "shrunk" \in Places \ {"idle"}
  BY DEF Shrink, commitVars, procVars, Places
<1>8. \A q \in Procs : q # p => h_buf'[q] = h_buf[q]
  BY <1>0 DEF ProcType, Shrink, procVars
<1>9. \A q \in Procs : Works(q) => use'[h_buf[q]] = "used"
  <2> SUFFICES ASSUME NEW q \in Procs, Works(q) PROVE use'[h_buf[q]] = "used"
    OBVIOUS
  <2>1. h_buf[q] \in Blocks /\ use[h_buf[q]] = "used"
    BY Working DEF Works
  <2> QED
    BY <1>0, <2>1 DEF FsType, Shrink, At
<1>10. "shrunk" \notin {"open", "shrunk"} => h_buf'[p] = b /\ use'[b] = "used"
  BY <1>0 DEF ProcType, FsType, Shrink, blockVars
<1>11. "shrunk" = "new" => b \in Data
  BY DEF Shrink
<1> QED
  BY <1>2, <1>6, <1>7, <1>8, <1>9, <1>10, <1>11, UseBase

\* FreeBlocks(p, b) keeps Base.
LEMMA FreeBase ==
  ASSUME Base, NEW p \in Procs, NEW b \in Blocks, FreeBlocks(p, b)
  PROVE  Base'
<1>0. /\ CommitType /\ ProcType /\ FsType /\ BufType /\ RestType /\ TypeOK
      /\ h_tid[p] \in 0 .. MaxTid /\ buf[b] \in Buffer /\ h_tid[p] # 0
  <2>1. CommitType /\ ProcType /\ FsType /\ BufType /\ RestType /\ TypeOK /\ pc[p] = "open"
    BY Groups DEF Base, FreeBlocks
  <2> QED
    BY <2>1 DEF ProcType, BufType, Base, HandleInv
<1>1. BufType'
  BY <1>0 DEF BufType, FreeBlocks
<1>2. pc' = [pc EXCEPT ![p] = "open"] /\ pc[p] = "open"
  BY <1>0 DEF FreeBlocks, Goto, ProcType, procVars
<1>3. ProcType'
  BY <1>0, <1>2 DEF ProcType, Places, FreeBlocks, procVars
<1>4. FsType'
  BY <1>0, Constant DEF FsType, Uses, FreeBlocks, blockVars
<1>5. CommitType' /\ RestType'
  BY <1>0 DEF CommitType, RestType, FreeBlocks, commitVars
<1>6. TypeOK'
  BY <1>1, <1>3, <1>4, <1>5, GroupsNext
<1>7. UNCHANGED <<running, committing, last, phase, committed, h_tid>> /\ "open" \in Places \ {"idle"}
  BY DEF FreeBlocks, commitVars, procVars, Places
<1>8. \A q \in Procs : q # p => h_buf'[q] = h_buf[q]
  BY <1>0 DEF ProcType, FreeBlocks, procVars
<1>9. \A q \in Procs : Works(q) => use'[h_buf[q]] = "used"
  <2> SUFFICES ASSUME NEW q \in Procs, Works(q) PROVE use'[h_buf[q]] = "used"
    OBVIOUS
  <2>1. h_buf[q] \in Blocks /\ use[h_buf[q]] = "used"
    BY Working DEF Works
  <2> QED
    BY <1>0, <2>1 DEF FsType, FreeBlocks
<1>10. "open" \notin {"open", "shrunk"} => h_buf'[p] = b /\ use'[b] = "used"
  BY <1>0 DEF ProcType, FsType, FreeBlocks, blockVars
<1>11. "open" = "new" => b \in Data
  BY DEF FreeBlocks
<1> QED
  BY <1>2, <1>6, <1>7, <1>8, <1>9, <1>10, <1>11, UseBase

\* A buffer is written in place.
LEMMA WrittenEffect ==
  ASSUME TypeOK, NEW b \in Blocks, NEW ok \in BOOLEAN, Written(b, ok)
  PROVE  LET s == buf[b]
             r == buf'[b] IN
         /\ Touches(b) /\ home' \in [Blocks -> Versions] /\ eio' \subseteq Blocks
         /\ home' = IF ok /\ s.dirty THEN [home EXCEPT ![b] = s.data] ELSE home
         /\ r \in Buffer /\ r.b_transaction = s.b_transaction
         /\ r.b_next_transaction = s.b_next_transaction /\ r.b_jlist = s.b_jlist
         /\ r.b_modified = s.b_modified /\ r.b_frozen_data = s.b_frozen_data
         /\ r.b_cp_transaction = s.b_cp_transaction /\ r.data = s.data /\ ~r.dirty
         /\ r.jbddirty = s.jbddirty /\ r.freed = s.freed /\ r.bug = s.bug
<1> DEFINE s == buf[b]
           r == [s EXCEPT !.dirty = FALSE]
<1>1. BufType /\ RestType /\ s \in Buffer /\ s.data \in Versions
  BY Groups, Fields DEF BufType
<1>2. buf' = [buf EXCEPT ![b] = r]
  BY DEF Written
<1>3. home' = IF ok /\ s.dirty THEN [home EXCEPT ![b] = s.data] ELSE home
  BY DEF Written
<1>7. eio' \subseteq Blocks
  BY Groups DEF Written, FsType
<1> HIDE DEF s
<1>4. /\ r \in Buffer /\ r.b_transaction = s.b_transaction
      /\ r.b_next_transaction = s.b_next_transaction /\ r.b_jlist = s.b_jlist
      /\ r.b_modified = s.b_modified /\ r.b_frozen_data = s.b_frozen_data
      /\ r.b_cp_transaction = s.b_cp_transaction /\ r.data = s.data /\ ~r.dirty
      /\ r.jbddirty = s.jbddirty /\ r.freed = s.freed /\ r.bug = s.bug
  BY <1>1 DEF Buffer
<1> HIDE DEF r
<1>5. Touches(b) /\ buf'[b] = r
  BY <1>2, <1>4, OneBuffer
<1>6. home' \in [Blocks -> Versions]
  BY <1>1, <1>3 DEF RestType
<1> QED
  BY <1>3, <1>4, <1>5, <1>6, <1>7 DEF s

\* A buffer of the committing transaction is given to the log I/O.
LEMMA LogEffect ==
  ASSUME Base, phase = "log", NEW b \in On(committing, "Metadata"), NEW escape \in BOOLEAN,
         WriteMetadata(b, escape)
  PROVE  LET s == buf[b]
             r == buf'[b] IN
         /\ b \in Blocks /\ Touches(b) /\ committing # 0
         /\ s.b_transaction = committing /\ s.b_jlist = "Metadata"
         /\ io' = [io EXCEPT ![b] = IF r.b_frozen_data = None THEN "page" ELSE "frozen"]
         /\ r \in Buffer /\ r.b_transaction = s.b_transaction
         /\ r.b_next_transaction = s.b_next_transaction /\ r.b_jlist = "Shadow"
         /\ r.b_modified = s.b_modified
         /\ r.b_frozen_data = IF escape /\ s.b_frozen_data = None THEN s.data ELSE s.b_frozen_data
         /\ r.b_cp_transaction = s.b_cp_transaction /\ r.data = s.data
         /\ r.dirty = (s.dirty /\ s.jbddirty) /\ r.jbddirty = (s.dirty \/ s.jbddirty)
         /\ r.freed = s.freed /\ r.bug = (s.bug \/ ~s.jbddirty)
<1> DEFINE s == buf[b]
           a == J_ASSERT(s, s.jbddirty)
           copy == IF escape /\ a.b_frozen_data = None THEN [a EXCEPT !.b_frozen_data = a.data] ELSE a
           r == Shadowed(s, escape)
<1>1. /\ TypeOK /\ CommitType /\ b \in Blocks /\ s \in Buffer /\ committing # 0
      /\ s.b_transaction = committing /\ s.b_jlist = "Metadata"
  BY Groups DEF Base, TidInv, On, BufType
<1>2. running \in 0 .. MaxTid /\ committing \in 0 .. MaxTid
  BY <1>1 DEF CommitType
<1>3. buf' = [buf EXCEPT ![b] = r]
  BY DEF WriteMetadata, Shadowed
<1>4. io' = [io EXCEPT ![b] = IF copy.b_frozen_data = None THEN "page" ELSE "frozen"]
  BY DEF WriteMetadata
<1> HIDE DEF s
<1>5. /\ r \in Buffer /\ r.b_transaction = s.b_transaction
      /\ r.b_next_transaction = s.b_next_transaction /\ r.b_jlist = "Shadow"
      /\ r.b_modified = s.b_modified
      /\ r.b_frozen_data = IF escape /\ s.b_frozen_data = None THEN s.data ELSE s.b_frozen_data
      /\ r.b_cp_transaction = s.b_cp_transaction /\ r.data = s.data
      /\ r.dirty = (s.dirty /\ s.jbddirty) /\ r.jbddirty = (s.dirty \/ s.jbddirty)
      /\ r.freed = s.freed /\ r.bug = (s.bug \/ ~s.jbddirty)
  BY <1>1, <1>2, ShadowedFields
<1>6. a \in Buffer /\ a.b_frozen_data = s.b_frozen_data /\ a.data = s.data
  BY <1>1, Fields DEF J_ASSERT, Buffer
<1> HIDE DEF a, r
<1>7. copy.b_frozen_data = r.b_frozen_data
  BY <1>5, <1>6 DEF Buffer
<1>8. Touches(b) /\ buf'[b] = r
  BY <1>1, <1>3, <1>5, OneBuffer
<1> QED
  BY <1>1, <1>4, <1>5, <1>7, <1>8 DEF s

\* A buffer is replaced by what refile makes of it.
LEMMA RefileEffect ==
  ASSUME TypeOK, NEW b \in Blocks, buf' = [buf EXCEPT ![b] = refile(@)]
  PROVE  Touches(b) /\ buf'[b] = refile(buf[b])
<1>1. BufType /\ CommitType
  BY Groups
<1>2. buf[b] \in Buffer /\ running \in 0 .. MaxTid
  BY <1>1 DEF BufType, CommitType
<1> DEFINE r == refile(buf[b])
<1>3. r \in Buffer
  BY <1>2, Refiled
<1>4. buf' = [buf EXCEPT ![b] = r]
  OBVIOUS
<1> HIDE DEF r
<1>5. Touches(b) /\ buf'[b] = r
  BY <1>3, <1>4, OneBuffer
<1> QED
  BY <1>5 DEF r

\* After an abort a buffer is not logged.
LEMMA DropEffect ==
  ASSUME TypeOK, NEW b \in Blocks, buf' = [buf EXCEPT ![b] = refile([@ EXCEPT !.jbddirty = FALSE])]
  PROVE  Touches(b) /\ buf'[b] = refile([buf[b] EXCEPT !.jbddirty = FALSE])
<1>1. BufType /\ CommitType
  BY Groups
<1>2. buf[b] \in Buffer /\ running \in 0 .. MaxTid
  BY <1>1 DEF BufType, CommitType
<1> DEFINE s == [buf[b] EXCEPT !.jbddirty = FALSE]
           r == refile(s)
<1>3. s \in Buffer
  BY <1>2 DEF Buffer
<1>4. buf' = [buf EXCEPT ![b] = r]
  OBVIOUS
<1> HIDE DEF s
<1>5. r \in Buffer
  BY <1>2, <1>3, Refiled
<1> HIDE DEF r
<1>6. Touches(b) /\ buf'[b] = r
  BY <1>4, <1>5, OneBuffer
<1> QED
  BY <1>6 DEF r, s

\* The log I/O of a buffer is over.
LEMMA UnshadowEffect ==
  ASSUME TypeOK, NEW b \in Blocks, buf' = [buf EXCEPT ![b] = Unshadow(@)]
  PROVE  Touches(b) /\ buf'[b] = Unshadow(buf[b])
<1>1. BufType /\ CommitType
  BY Groups
<1>2. buf[b] \in Buffer /\ committing \in 0 .. MaxTid
  BY <1>1 DEF BufType, CommitType
<1> DEFINE r == Unshadow(buf[b])
<1>3. r \in Buffer
  BY <1>2, UnshadowType
<1>4. buf' = [buf EXCEPT ![b] = r]
  OBVIOUS
<1> HIDE DEF r
<1>5. Touches(b) /\ buf'[b] = r
  BY <1>3, <1>4, OneBuffer
<1> QED
  BY <1>5 DEF r

\* The committing transaction is done with a buffer.
LEMMA CheckpointedEffect ==
  ASSUME TypeOK, NEW b \in On(committing, "Forget"), buf' = [buf EXCEPT ![b] = Checkpointed(@)]
  PROVE  /\ b \in Blocks /\ Touches(b) /\ buf'[b] = Checkpointed(buf[b])
         /\ buf[b] \in Buffer /\ buf[b].b_jlist = "Forget" /\ buf[b].b_transaction = committing
<1>1. BufType /\ CommitType /\ RestType
  BY Groups
<1>2. /\ b \in Blocks /\ buf[b] \in Buffer /\ running \in 0 .. MaxTid /\ committing \in 0 .. MaxTid
      /\ aborted \in BOOLEAN /\ buf[b].b_jlist = "Forget" /\ buf[b].b_transaction = committing
  BY <1>1 DEF BufType, CommitType, RestType, On
<1> DEFINE r == Checkpointed(buf[b])
<1>3. r \in Buffer
  BY <1>2, CheckpointedFields
<1>4. buf' = [buf EXCEPT ![b] = r]
  OBVIOUS
<1> HIDE DEF r
<1>5. Touches(b) /\ buf'[b] = r
  BY <1>2, <1>3, <1>4, OneBuffer
<1> QED
  BY <1>2, <1>5 DEF r

\* A checkpoint is done with a buffer.
LEMMA RemoveEffect ==
  ASSUME TypeOK, NEW b \in Blocks, Uncheckpoint(b)
  PROVE  Touches(b) /\ buf'[b] = put_journal_head([buf[b] EXCEPT !.b_cp_transaction = 0])
<1>1. buf[b] \in Buffer
  BY Groups DEF BufType
<1> DEFINE s == [buf[b] EXCEPT !.b_cp_transaction = 0]
           r == put_journal_head(s)
<1>2. s \in Buffer
  BY <1>1, Constant DEF Buffer
<1>3. buf' = [buf EXCEPT ![b] = r]
  BY DEF Uncheckpoint
<1> HIDE DEF s
<1>4. r \in Buffer
  BY <1>2, Put
<1> HIDE DEF r
<1>5. Touches(b) /\ buf'[b] = r
  BY <1>3, <1>4, OneBuffer
<1> QED
  BY <1>5 DEF r, s

\* The page of a truncated block is invalidated.
LEMMA InvalidateEffect ==
  ASSUME TypeOK, NEW b \in Blocks, jbdbf_journal_invalidatepage(b)
  PROVE  Touches(b) /\ buf'[b] = Unmap(buf[b])
<1>1. BufType /\ CommitType
  BY Groups
<1>2. buf[b] \in Buffer /\ running \in 0 .. MaxTid /\ committing \in 0 .. MaxTid
  BY <1>1 DEF BufType, CommitType
<1> DEFINE r == Unmap(buf[b])
<1>3. r \in Buffer
  BY <1>2, UnmapType
<1>4. buf' = [buf EXCEPT ![b] = r]
  BY DEF jbdbf_journal_invalidatepage
<1> HIDE DEF r
<1>5. Touches(b) /\ buf'[b] = r
  BY <1>3, <1>4, OneBuffer
<1> QED
  BY <1>5 DEF r

\* The buffers of unused reservations are dropped when the transaction is closed.
LEMMA SwitchEffect ==
  ASSUME TypeOK, CommitSwitch
  PROVE  /\ buf' \in [Blocks -> Buffer]
         /\ \A b \in Blocks : buf'[b] = IF b \in On(running, "Reserved") THEN refile(buf[b]) ELSE buf[b]
<1>1. BufType /\ CommitType
  BY Groups
<1>2. \A b \in Blocks : buf[b] \in Buffer /\ refile(buf[b]) \in Buffer
  BY <1>1, Refiled DEF BufType, CommitType
<1>3. buf' = [b \in Blocks |-> IF b \in On(running, "Reserved") THEN refile(buf[b]) ELSE buf[b]]
  BY DEF CommitSwitch
<1> QED
  BY <1>2, <1>3


-----------------------------------------------------------------------------
(* The other steps keep the types, and handles in the running transaction. *)


\* CommitLock keeps Base.
LEMMA LockBase ==
  ASSUME Base, CommitLock
  PROVE  Base'
<1>0. CommitType /\ ProcType /\ FsType /\ BufType /\ RestType /\ TypeOK
  BY Groups DEF Base
<1>1. BufType'
  BY <1>0 DEF BufType, CommitLock
<1>2. ProcType'
  BY <1>0 DEF ProcType, CommitLock, procVars
<1>3. CommitType' /\ FsType'
  BY <1>0 DEF CommitType, FsType, Phases, CommitLock, commitVars, blockVars
<1>4. RestType'
  BY <1>0 DEF RestType, CommitLock
<1>5. TypeOK'
  BY <1>1, <1>2, <1>3, <1>4, GroupsNext
<1>6. TidInv'
  BY DEF Base, TidInv, CommitLock, commitVars
<1>7. UNCHANGED <<running, use, h_tid, h_buf>>
  BY DEF CommitLock, commitVars, blockVars, procVars
<1>8. \A q \in Procs : pc'[q] = pc[q] \/ (pc[q] = "asleep" /\ pc'[q] = "shadow")
  BY DEF CommitLock, procVars
<1> QED
  BY <1>5, <1>6, <1>7, <1>8, IdleBase

\* IssueData keeps Base.
LEMMA IssueBase ==
  ASSUME Base, IssueData
  PROVE  Base'
<1>0. CommitType /\ ProcType /\ FsType /\ BufType /\ RestType /\ TypeOK
  BY Groups DEF Base
<1>1. BufType'
  <2>1. CASE \E b \in todo, ok \in BOOLEAN : Written(b, ok)
    BY <1>0, <2>1, WrittenEffect DEF BufType, CommitType, Touches
  <2>2. CASE buf' = buf
    BY <1>0, <2>2 DEF BufType
  <2> QED
    BY <2>1, <2>2 DEF IssueData
<1>2. ProcType'
  BY <1>0 DEF ProcType, IssueData, procVars
<1>3. CommitType' /\ FsType'
  <2>1. CommitType'
    BY <1>0 DEF CommitType, Phases, IssueData
  <2>2. CASE \E b \in todo, ok \in BOOLEAN : Written(b, ok)
    <3>1. eio' \subseteq Blocks
      BY <1>0, <2>2, WrittenEffect DEF CommitType
    <3> QED
      BY <1>0, <2>1, <3>1 DEF FsType, IssueData
  <2>3. CASE eio' = eio
    BY <1>0, <2>1, <2>3 DEF FsType, IssueData
  <2> QED
    BY <2>2, <2>3 DEF IssueData
<1>4. RestType'
  <2>1. CASE \E b \in todo, ok \in BOOLEAN : Written(b, ok)
    BY <1>0, <2>1, WrittenEffect DEF RestType, CommitType, IssueData
  <2>2. CASE home' = home
    BY <1>0, <2>2 DEF RestType, IssueData
  <2> QED
    BY <2>1, <2>2 DEF IssueData
<1>5. TypeOK'
  BY <1>1, <1>2, <1>3, <1>4, GroupsNext
<1>6. TidInv'
  BY DEF Base, TidInv, IssueData, commitVars
<1>7. UNCHANGED <<running, use, h_tid, h_buf>>
  BY DEF IssueData, commitVars, procVars
<1>8. \A q \in Procs : pc'[q] = pc[q] \/ (pc[q] = "asleep" /\ pc'[q] = "shadow")
  BY DEF IssueData, procVars
<1> QED
  BY <1>5, <1>6, <1>7, <1>8, IdleBase

\* LogBuffer keeps Base.
LEMMA LogBase ==
  ASSUME Base, LogBuffer
  PROVE  Base'
<1>0. CommitType /\ ProcType /\ FsType /\ BufType /\ RestType /\ TypeOK
  BY Groups DEF Base
<1>1. BufType'
  <2>1. CASE \E b \in On(committing, "Metadata") : \E escape \in BOOLEAN : WriteMetadata(b, escape)
    BY <2>1, LogEffect DEF BufType, Touches, LogBuffer
  <2>2. CASE \E b \in On(committing, "Metadata") : buf' = [buf EXCEPT ![b] = refile([@ EXCEPT !.jbddirty = FALSE])]
    BY <1>0, <2>2, DropEffect DEF BufType, Touches, On
  <2>3. CASE buf' = buf
    BY <1>0, <2>3 DEF BufType
  <2> QED
    BY <2>1, <2>2, <2>3 DEF LogBuffer
<1>2. ProcType'
  BY <1>0 DEF ProcType, LogBuffer, procVars
<1>3. CommitType' /\ FsType'
  BY <1>0 DEF CommitType, FsType, Phases, LogBuffer, commitVars, blockVars
<1>4. RestType'
  <2>1. CASE \E b \in On(committing, "Metadata") : \E escape \in BOOLEAN : WriteMetadata(b, escape)
    BY <1>0, <2>1, LogEffect DEF RestType, LogBuffer
  <2>2. CASE io' = io
    BY <1>0, <2>2 DEF RestType, LogBuffer
  <2> QED
    BY <2>1, <2>2 DEF LogBuffer
<1>5. TypeOK'
  BY <1>1, <1>2, <1>3, <1>4, GroupsNext
<1>6. TidInv'
  BY DEF Base, TidInv, LogBuffer, commitVars
<1>7. UNCHANGED <<running, use, h_tid, h_buf>>
  BY DEF LogBuffer, commitVars, blockVars, procVars
<1>8. \A q \in Procs : pc'[q] = pc[q] \/ (pc[q] = "asleep" /\ pc'[q] = "shadow")
  BY DEF LogBuffer, procVars
<1> QED
  BY <1>5, <1>6, <1>7, <1>8, IdleBase

\* WaitForData keeps Base.
LEMMA WaitDataBase ==
  ASSUME Base, WaitForData
  PROVE  Base'
<1>0. CommitType /\ ProcType /\ FsType /\ BufType /\ RestType /\ TypeOK
  BY Groups DEF Base
<1>1. BufType'
  <2>1. CASE \E b \in On(committing, "Dirtydata") : buf' = [buf EXCEPT ![b] = refile(@)]
    BY <1>0, <2>1, RefileEffect DEF BufType, Touches, On
  <2>2. CASE buf' = buf
    BY <1>0, <2>2 DEF BufType
  <2> QED
    BY <2>1, <2>2 DEF WaitForData
<1>2. ProcType'
  BY <1>0 DEF ProcType, WaitForData, procVars
<1>3. CommitType' /\ FsType'
  BY <1>0 DEF CommitType, FsType, Phases, WaitForData, commitVars, blockVars
<1>4. RestType'
  BY <1>0 DEF RestType, WaitForData
<1>5. TypeOK'
  BY <1>1, <1>2, <1>3, <1>4, GroupsNext
<1>6. TidInv'
  BY DEF Base, TidInv, WaitForData, commitVars
<1>7. UNCHANGED <<running, use, h_tid, h_buf>>
  BY DEF WaitForData, commitVars, blockVars, procVars
<1>8. \A q \in Procs : pc'[q] = pc[q] \/ (pc[q] = "asleep" /\ pc'[q] = "shadow")
  BY DEF WaitForData, procVars
<1> QED
  BY <1>5, <1>6, <1>7, <1>8, IdleBase

\* WaitForIobuf keeps Base.
LEMMA WaitIoBase ==
  ASSUME Base, WaitForIobuf
  PROVE  Base'
<1>0. CommitType /\ ProcType /\ FsType /\ BufType /\ RestType /\ TypeOK
  BY Groups DEF Base
<1>1. BufType'
  <2>1. CASE \E b \in Blocks : buf' = [buf EXCEPT ![b] = Unshadow(@)]
    BY <1>0, <2>1, UnshadowEffect DEF BufType, Touches
  <2>2. CASE buf' = buf
    BY <1>0, <2>2 DEF BufType
  <2> QED
    BY <2>1, <2>2 DEF WaitForIobuf
<1>2. ProcType'
  BY <1>0 DEF ProcType, Places, WaitForIobuf, Woken
<1>3. CommitType' /\ FsType'
  BY <1>0 DEF CommitType, FsType, Phases, WaitForIobuf, commitVars, blockVars
<1>4. RestType'
  BY <1>0 DEF RestType, WaitForIobuf
<1>5. TypeOK'
  BY <1>1, <1>2, <1>3, <1>4, GroupsNext
<1>6. TidInv'
  BY DEF Base, TidInv, WaitForIobuf, commitVars
<1>7. UNCHANGED <<running, use, h_tid, h_buf>>
  BY DEF WaitForIobuf, commitVars, blockVars, procVars
<1>8. \A q \in Procs : pc'[q] = pc[q] \/ (pc[q] = "asleep" /\ pc'[q] = "shadow")
  BY DEF WaitForIobuf, Woken
<1> QED
  BY <1>5, <1>6, <1>7, <1>8, IdleBase

\* CommitRecord keeps Base.
LEMMA RecordBase ==
  ASSUME Base, CommitRecord
  PROVE  Base'
<1>0. CommitType /\ ProcType /\ FsType /\ BufType /\ RestType /\ TypeOK
  BY Groups DEF Base
<1>1. BufType'
  BY <1>0 DEF BufType, CommitRecord
<1>2. ProcType'
  BY <1>0 DEF ProcType, CommitRecord, procVars
<1>3. CommitType' /\ FsType'
  BY <1>0 DEF CommitType, FsType, Phases, CommitRecord, commitVars, blockVars
<1>4. RestType'
  BY <1>0 DEF RestType, CommitRecord
<1>5. TypeOK'
  BY <1>1, <1>2, <1>3, <1>4, GroupsNext
<1>6. TidInv'
  <2>1. committing # 0 /\ committing <= last /\ (running # 0 => committing < running)
    BY DEF Base, TidInv, CommitRecord
  <2> QED
    BY <1>0, <2>1 DEF Base, TidInv, CommitRecord, CommitType
<1>7. UNCHANGED <<running, use, h_tid, h_buf>>
  BY DEF CommitRecord, commitVars, blockVars, procVars
<1>8. \A q \in Procs : pc'[q] = pc[q] \/ (pc[q] = "asleep" /\ pc'[q] = "shadow")
  BY DEF CommitRecord, procVars
<1> QED
  BY <1>5, <1>6, <1>7, <1>8, IdleBase

\* ForgetBuffer keeps Base.
LEMMA FinishBase ==
  ASSUME Base, ForgetBuffer
  PROVE  Base'
<1>0. CommitType /\ ProcType /\ FsType /\ BufType /\ RestType /\ TypeOK
  BY Groups DEF Base
<1>1. BufType'
  <2>1. CASE \E b \in On(committing, "Forget") : buf' = [buf EXCEPT ![b] = Checkpointed(@)]
    BY <1>0, <2>1, CheckpointedEffect DEF BufType, Touches
  <2>2. CASE buf' = buf
    BY <1>0, <2>2 DEF BufType
  <2> QED
    BY <2>1, <2>2 DEF ForgetBuffer
<1>2. ProcType'
  BY <1>0 DEF ProcType, ForgetBuffer, procVars
<1>3. CommitType' /\ FsType'
  BY <1>0, Constant DEF CommitType, FsType, Phases, ForgetBuffer, blockVars
<1>4. RestType'
  BY <1>0 DEF RestType, ForgetBuffer
<1>5. TypeOK'
  BY <1>1, <1>2, <1>3, <1>4, GroupsNext
<1>6. TidInv'
  BY DEF Base, TidInv, ForgetBuffer, commitVars
<1>7. UNCHANGED <<running, use, h_tid, h_buf>>
  BY DEF ForgetBuffer, commitVars, blockVars, procVars
<1>8. \A q \in Procs : pc'[q] = pc[q] \/ (pc[q] = "asleep" /\ pc'[q] = "shadow")
  BY DEF ForgetBuffer, procVars
<1> QED
  BY <1>5, <1>6, <1>7, <1>8, IdleBase

\* LogIO keeps Base.
LEMMA LogIOBase ==
  ASSUME Base, LogIO
  PROVE  Base'
<1>0. CommitType /\ ProcType /\ FsType /\ BufType /\ RestType /\ TypeOK
  BY Groups DEF Base
<1>1. BufType'
  BY <1>0 DEF BufType, LogIO
<1>2. ProcType'
  BY <1>0 DEF ProcType, LogIO, procVars
<1>3. CommitType' /\ FsType'
  BY <1>0 DEF CommitType, FsType, Phases, LogIO, commitVars, blockVars
<1>4. RestType'
  <2>1. PICK b \in Blocks :
          /\ io' = [io EXCEPT ![b] = "done"]
          /\ log' = [log EXCEPT ![committing][b] =
                        IF io[b] = "page" THEN buf[b].data ELSE buf[b].b_frozen_data]
    BY DEF LogIO
  <2>2. buf[b].data \in Versions /\ buf[b].b_frozen_data \in Versions \cup {None}
    BY <1>0, Fields DEF BufType
  <2>3. (IF io[b] = "page" THEN buf[b].data ELSE buf[b].b_frozen_data) \in Versions \cup {None}
    BY <2>2
  <2>4. log' \in [Tids -> [Blocks -> Versions \cup {None}]]
    BY <1>0, <2>1, <2>3 DEF RestType
  <2> QED
    BY <1>0, <2>1, <2>4 DEF RestType, LogIO
<1>5. TypeOK'
  BY <1>1, <1>2, <1>3, <1>4, GroupsNext
<1>6. TidInv'
  BY DEF Base, TidInv, LogIO, commitVars
<1>7. UNCHANGED <<running, use, h_tid, h_buf>>
  BY DEF LogIO, commitVars, blockVars, procVars
<1>8. \A q \in Procs : pc'[q] = pc[q] \/ (pc[q] = "asleep" /\ pc'[q] = "shadow")
  BY DEF LogIO, procVars
<1> QED
  BY <1>5, <1>6, <1>7, <1>8, IdleBase

\* WriteBack(b) keeps Base.
LEMMA WriteBackBase ==
  ASSUME Base, NEW b \in Blocks, WriteBack(b)
  PROVE  Base'
<1>0. CommitType /\ ProcType /\ FsType /\ BufType /\ RestType /\ TypeOK
  BY Groups DEF Base
<1>9. PICK ok \in BOOLEAN : Written(b, ok)
  BY DEF WriteBack
<1>1. BufType'
  BY <1>0, <1>9, WrittenEffect DEF BufType, Touches
<1>2. ProcType'
  BY <1>0 DEF ProcType, WriteBack, procVars
<1>3. CommitType' /\ FsType'
  <2>1. eio' \subseteq Blocks
    BY <1>0, <1>9, WrittenEffect
  <2> QED
    BY <1>0, <2>1 DEF CommitType, FsType, Phases, WriteBack, commitVars
<1>4. RestType'
  <2>1. home' \in [Blocks -> Versions]
    BY <1>0, <1>9, WrittenEffect
  <2> QED
    BY <1>0, <2>1 DEF RestType, WriteBack
<1>5. TypeOK'
  BY <1>1, <1>2, <1>3, <1>4, GroupsNext
<1>6. TidInv'
  BY DEF Base, TidInv, WriteBack, commitVars
<1>7. UNCHANGED <<running, use, h_tid, h_buf>>
  BY DEF WriteBack, commitVars, procVars
<1>8. \A q \in Procs : pc'[q] = pc[q] \/ (pc[q] = "asleep" /\ pc'[q] = "shadow")
  BY DEF WriteBack, procVars
<1> QED
  BY <1>5, <1>6, <1>7, <1>8, IdleBase

\* RemoveCheckpoint(b) and FailCheckpoint(b) keep Base.
LEMMA RemoveBase ==
  ASSUME Base, NEW b \in Blocks, Uncheckpoint(b), aborted' \in {aborted, TRUE}
  PROVE  Base'
<1>0. CommitType /\ ProcType /\ FsType /\ BufType /\ RestType /\ TypeOK
  BY Groups DEF Base
<1>1. BufType'
  BY <1>0, RemoveEffect DEF BufType, Touches
<1>2. ProcType'
  BY <1>0 DEF ProcType, Uncheckpoint, procVars
<1>3. CommitType' /\ FsType'
  BY <1>0 DEF CommitType, FsType, Phases, Uncheckpoint, commitVars, blockVars
<1>4. RestType'
  BY <1>0 DEF RestType, Uncheckpoint
<1>5. TypeOK'
  BY <1>1, <1>2, <1>3, <1>4, GroupsNext
<1>6. TidInv'
  BY DEF Base, TidInv, Uncheckpoint, commitVars
<1>7. UNCHANGED <<running, use, h_tid, h_buf>>
  BY DEF Uncheckpoint, commitVars, blockVars, procVars
<1>8. \A q \in Procs : pc'[q] = pc[q] \/ (pc[q] = "asleep" /\ pc'[q] = "shadow")
  BY DEF Uncheckpoint, procVars
<1> QED
  BY <1>5, <1>6, <1>7, <1>8, IdleBase

\* The log begins at a transaction, or behind the last one.
LEMMA FirstTidType ==
  ASSUME TypeOK
  PROVE  FirstTid \in 1 .. MaxTid + 1
<1> DEFINE checkpoints == {buf[b].b_cp_transaction : b \in Blocks} \ {0, committing}
<1>1. BufType /\ CommitType
  BY Groups
<1>2. checkpoints \subseteq 0 .. MaxTid /\ 0 \notin checkpoints
  BY <1>1, Fields DEF BufType
<1>3. MaxTid \in Nat
  BY Constant
<1> HIDE DEF checkpoints
<1>4. CASE checkpoints # {}
  <2>1. checkpoints \in SUBSET Nat
    BY <1>2, <1>3
  <2>2. Min(checkpoints) \in checkpoints
    BY <1>4, <2>1, MinIsSmallest
  <2>3. FirstTid = Min(checkpoints)
    BY <1>4 DEF FirstTid, checkpoints
  <2>4. \A m \in checkpoints : m \in 1 .. MaxTid + 1
    BY <1>2, <1>3
  <2> QED
    BY <2>2, <2>3, <2>4
<1>5. CASE checkpoints = {}
  <2>1. FirstTid = IF committing # 0 THEN committing ELSE IF running # 0 THEN running ELSE last + 1
    BY <1>5 DEF FirstTid, checkpoints
  <2> QED
    BY <1>1, <1>3, <2>1 DEF CommitType
<1> QED
  BY <1>4, <1>5


\* jbdbf_cleanup_journal_tail keeps Base.
LEMMA TailBase ==
  ASSUME Base, jbdbf_cleanup_journal_tail
  PROVE  Base'
<1>0. CommitType /\ ProcType /\ FsType /\ BufType /\ RestType /\ TypeOK
  BY Groups DEF Base
<1>1. BufType'
  BY <1>0 DEF BufType, jbdbf_cleanup_journal_tail
<1>2. ProcType'
  BY <1>0 DEF ProcType, jbdbf_cleanup_journal_tail, procVars
<1>3. CommitType' /\ FsType'
  BY <1>0 DEF CommitType, FsType, Phases, jbdbf_cleanup_journal_tail, commitVars, blockVars
<1>4. RestType'
  BY <1>0, FirstTidType DEF RestType, jbdbf_cleanup_journal_tail
<1>5. TypeOK'
  BY <1>1, <1>2, <1>3, <1>4, GroupsNext
<1>6. TidInv'
  BY DEF Base, TidInv, jbdbf_cleanup_journal_tail, commitVars
<1>7. UNCHANGED <<running, use, h_tid, h_buf>>
  BY DEF jbdbf_cleanup_journal_tail, commitVars, blockVars, procVars
<1>8. \A q \in Procs : pc'[q] = pc[q] \/ (pc[q] = "asleep" /\ pc'[q] = "shadow")
  BY DEF jbdbf_cleanup_journal_tail, procVars
<1> QED
  BY <1>5, <1>6, <1>7, <1>8, IdleBase

\* Abort keeps Base.
LEMMA AbortBase ==
  ASSUME Base, Abort
  PROVE  Base'
<1>0. CommitType /\ ProcType /\ FsType /\ BufType /\ RestType /\ TypeOK
  BY Groups DEF Base
<1>1. BufType'
  BY <1>0 DEF BufType, Abort
<1>2. ProcType'
  BY <1>0 DEF ProcType, Abort, procVars
<1>3. CommitType' /\ FsType'
  BY <1>0 DEF CommitType, FsType, Phases, Abort, commitVars, blockVars
<1>4. RestType'
  BY <1>0 DEF RestType, Abort
<1>5. TypeOK'
  BY <1>1, <1>2, <1>3, <1>4, GroupsNext
<1>6. TidInv'
  BY DEF Base, TidInv, Abort, commitVars
<1>7. UNCHANGED <<running, use, h_tid, h_buf>>
  BY DEF Abort, commitVars, blockVars, procVars
<1>8. \A q \in Procs : pc'[q] = pc[q] \/ (pc[q] = "asleep" /\ pc'[q] = "shadow")
  BY DEF Abort, procVars
<1> QED
  BY <1>5, <1>6, <1>7, <1>8, IdleBase

\* jbdbf_journal_invalidatepage keeps Base.
LEMMA InvalidateBase ==
  ASSUME Base, NEW b \in Blocks, jbdbf_journal_invalidatepage(b)
  PROVE  Base'
<1>0. CommitType /\ ProcType /\ FsType /\ BufType /\ RestType /\ TypeOK
  BY Groups DEF Base
<1>1. BufType'
  BY <1>0, InvalidateEffect DEF BufType, Touches
<1>2. ProcType' /\ CommitType' /\ RestType'
  BY <1>0 DEF ProcType, CommitType, RestType, jbdbf_journal_invalidatepage, commitVars, procVars
<1>3. FsType'
  BY <1>0 DEF FsType, Uses, jbdbf_journal_invalidatepage
<1>4. TypeOK'
  BY <1>1, <1>2, <1>3, GroupsNext
<1>5. TidInv'
  BY DEF Base, TidInv, jbdbf_journal_invalidatepage, commitVars
<1>6. HandleInv'
  <2>1. UNCHANGED <<running, pc, h_tid, h_buf>>
    BY DEF jbdbf_journal_invalidatepage, commitVars, procVars
  <2>2. \A q \in Procs : h_buf[q] # b
    BY DEF jbdbf_journal_invalidatepage, At
  <2>3. \A c \in Blocks : c # b => use'[c] = use[c]
    BY <1>0 DEF FsType, jbdbf_journal_invalidatepage
  <2> SUFFICES ASSUME NEW q \in Procs
               PROVE  /\ h_tid'[q] \in {0, running'}
                      /\ pc'[q] = "idle" <=> h_tid'[q] = 0
                      /\ Waiting(q)' \/ Holding(q)' \/ pc'[q] = "new" =>
                           h_buf'[q] \in Blocks /\ use'[h_buf'[q]] = "used"
                      /\ pc'[q] = "new" => h_buf'[q] \in Data
    BY DEF HandleInv
  <2> QED
    BY <2>1, <2>2, <2>3 DEF Base, HandleInv, Waiting, Holding
<1> QED
  BY <1>4, <1>5, <1>6 DEF Base

\* When the running transaction is closed, no process has a handle.
LEMMA AllIdle ==
  ASSUME Base, CommitSwitch
  PROVE  /\ running # 0 /\ committing = 0 /\ running \in Tids
         /\ \A q \in Procs : h_tid[q] = 0 /\ pc[q] = "idle"
<1>1. running # 0 /\ committing = 0
  BY DEF Base, TidInv, CommitSwitch
<1>2. \A q \in Procs : h_tid[q] = 0
  BY DEF Base, HandleInv, CommitSwitch
<1>3. running \in Tids
  BY <1>1, Groups, Constant DEF Base, CommitType, Tids
<1> QED
  BY <1>1, <1>2, <1>3 DEF Base, HandleInv

\* CommitSwitch keeps Base.
LEMMA SwitchBase ==
  ASSUME Base, CommitSwitch
  PROVE  Base'
<1>0. CommitType /\ ProcType /\ FsType /\ BufType /\ RestType /\ TypeOK
  BY Groups DEF Base
<1>1. BufType'
  BY <1>0, SwitchEffect DEF BufType
<1>2. ProcType' /\ FsType' /\ RestType'
  BY <1>0 DEF ProcType, FsType, RestType, CommitSwitch, procVars, blockVars
<1>3. CommitType'
  <2>1. running \in Tids /\ 0 \in 0 .. MaxTid
    BY AllIdle, Constant
  <2>2. [b \in Blocks |-> IF b \in wrote \cup tags THEN buf[b].data ELSE None]
          \in [Blocks -> Versions \cup {None}]
    BY <1>0, Fields DEF BufType
  <2>3. closed' \in [Tids -> [Blocks -> Versions \cup {None}]]
    BY <1>0, <2>1, <2>2 DEF CommitType, CommitSwitch
  <2>4. tagged' \in [Tids -> SUBSET Data]
    BY <1>0, <2>1 DEF CommitType, RestType, CommitSwitch
  <2>5. todo' \subseteq Blocks
    BY DEF CommitSwitch, On
  <2> QED
    BY <1>0, <2>1, <2>3, <2>4, <2>5 DEF CommitType, Phases, CommitSwitch
<1>4. TypeOK'
  BY <1>1, <1>2, <1>3, GroupsNext
<1>5. TidInv'
  <2>1. /\ running # 0 /\ committing = 0 /\ running \in 0 .. MaxTid /\ last \in 0 .. MaxTid
        /\ committed \subseteq 0 .. MaxTid
    BY <1>0, AllIdle DEF CommitType
  <2>2. running' = 0 /\ committing' = running /\ phase' = "data" /\ UNCHANGED <<last, committed>>
    BY DEF CommitSwitch
  <2> QED
    BY <2>1, <2>2 DEF Base, TidInv
<1>6. HandleInv'
  BY AllIdle DEF HandleInv, CommitSwitch, procVars, Waiting, Holding
<1> QED
  BY <1>4, <1>5, <1>6 DEF Base

\* Every step keeps Base.
LEMMA BaseNext ==
  ASSUME Base, [Next]_vars
  PROVE  Base'
<1>1. ASSUME NEW p \in Procs, jbdbf_journal_start(p) PROVE Base'
  BY <1>1, StartBase
<1>2. ASSUME NEW p \in Procs, jbdbf_journal_stop(p) PROVE Base'
  BY <1>2, StopBase
<1>3. ASSUME NEW p \in Procs, AccessStep(p) PROVE Base'
  BY <1>3, AbortedBase, OwnedBase, FrozenBase, ForgetBase, CopyBase, AllocBase, FrozenAllocBase,
     FileBase, ShadowBase, PrepareBase, CheckBase DEF AccessStep
<1>4. ASSUME NEW p \in Procs, DirtyAgain(p) PROVE Base'
  BY <1>4, DirtyAgainBase
<1>5. ASSUME NEW p \in Procs, Modify(p) PROVE Base'
  BY <1>5, ModifyBase
<1>6. ASSUME NEW p \in Procs, jbdbf_journal_release_buffer(p) PROVE Base'
  BY <1>6, ReleaseBase
<1>7. ASSUME NEW p \in Procs, jbdbf_journal_dirty_metadata(p) PROVE Base'
  BY <1>7, DirtyBase
<1>8. ASSUME NEW p \in Procs, jbdbf_journal_dirty_data(p) PROVE Base'
  BY <1>8, AppendedBase
<1>9. ASSUME NEW p \in Procs, NEW b \in Blocks,
             \/ GetWriteAccess(p, b) \/ jbdbf_journal_get_create_access(p, b) \/ Append(p, b)
             \/ jbdbf_journal_forget(p, b) \/ Shrink(p, b) \/ FreeBlocks(p, b)
      PROVE  Base'
  BY <1>9, GetBase, CreateBase, AppendBase, ForgetBlockBase, ShrinkBase, FreeBase
<1>10. CASE CommitLock \/ CommitStep \/ LogIO
  BY <1>10, LockBase, SwitchBase, IssueBase, LogBase, WaitDataBase, WaitIoBase, RecordBase,
     FinishBase, LogIOBase DEF CommitStep
<1>11. ASSUME NEW b \in Blocks,
              \/ jbdbf_journal_invalidatepage(b)
              \/ WriteBack(b) \/ RemoveCheckpoint(b) \/ FailCheckpoint(b)
       PROVE  Base'
  BY <1>11, InvalidateBase, WriteBackBase, RemoveBase DEF RemoveCheckpoint, FailCheckpoint
<1>12. CASE jbdbf_cleanup_journal_tail \/ Abort
  BY <1>12, TailBase, AbortBase
<1>13. CASE UNCHANGED vars
  BY <1>13 DEF vars, commitVars, procVars, blockVars, Base, TypeOK, TidInv, HandleInv, Waiting, Holding
<1> QED
  BY <1>1, <1>2, <1>3, <1>4, <1>5, <1>6, <1>7, <1>8, <1>9, <1>10, <1>11, <1>12, <1>13 DEF Next

\* Base holds at first.
LEMMA BaseInit ==
  ASSUME Init
  PROVE  Base
<1>1. Fresh \in Buffer
  BY Constant DEF Fresh, Buffer, Lists
<1>2. BufType /\ ProcType
  BY <1>1, Constant DEF Init, BufType, ProcType, Places
<1>3. CommitType
  BY Constant DEF Init, CommitType, Phases
<1>4. FsType
  BY Constant DEF Init, FsType, Uses
<1>5. 1 \in 1 .. MaxTid + 1
  BY Constant
<1>6. RestType
  BY <1>5, Constant DEF Init, RestType
<1>7. TidInv /\ HandleInv
  BY DEF Init, TidInv, HandleInv, Waiting, Holding
<1> QED
  BY <1>2, <1>3, <1>4, <1>6, <1>7, Groups DEF Base

-----------------------------------------------------------------------------
\* Every variable keeps its type, whatever processes, the journal thread, writeback
\* and failures do.
THEOREM TypeCorrect == Spec => []TypeOK
<1>1. Init => Base
  BY BaseInit
<1>2. Base /\ [Next]_vars => Base'
  BY BaseNext
<1>3. Base => TypeOK
  BY DEF Base
<1> QED
  BY <1>1, <1>2, <1>3, PTL DEF Spec


-----------------------------------------------------------------------------
(* Lists *)

(* The lists that the committing transaction has buffers on. *)
PhaseLists ==
  IF phase \in {"none", "locked"} THEN {}
  ELSE {"Forget"}
       \cup (IF phase \in {"data", "log"} THEN {"Metadata"} ELSE {})
       \cup (IF phase \in {"log", "wait_for_data", "wait_for_iobuf"} THEN {"Shadow"} ELSE {})
       \cup (IF phase \in {"data", "log", "wait_for_data"} THEN {"Dirtydata"} ELSE {})

(* A buffer is on a list of the running or of the committing transaction, or on     *)
(* none; only a buffer of the committing transaction has a next one, the running    *)
(* one; the shadowed buffers are those with log I/O; on a list of the journal a     *)
(* buffer is not dirty; only file data is written in place, it is not jbddirty and  *)
(* has no next transaction; the transactions of the buffer of a freed block are not *)
(* newer than the one that freed it.                                                *)
Listed(b) ==
  /\ buf[b].b_transaction \in {0, running, committing}
  /\ buf[b].b_transaction = 0 <=> buf[b].b_jlist = "None"
  /\ buf[b].b_next_transaction # 0 =>
       buf[b].b_next_transaction = running /\ buf[b].b_transaction = committing /\ committing # 0
  /\ running # 0 /\ buf[b].b_transaction = running => buf[b].b_jlist # "Shadow"
  /\ committing # 0 /\ buf[b].b_transaction = committing => buf[b].b_jlist \in PhaseLists
  /\ io[b] # "none" <=> buf[b].b_jlist = "Shadow"
  /\ buf[b].b_jlist \in {"Reserved", "Metadata", "Shadow", "Forget"} => ~buf[b].dirty
  /\ buf[b].b_jlist = "Dirtydata" =>
       b \in Data /\ ~buf[b].jbddirty /\ buf[b].b_next_transaction = 0
  /\ use[b] \in {"off", "free"} => buf[b].b_transaction = 0
  /\ use[b] = "freed" => /\ buf[b].b_transaction <= freed[b]
                         /\ buf[b].b_next_transaction <= freed[b]

(* Until the journal is aborted no assertion has failed; the committing transaction  *)
(* alone has a copy, and not of data written in place; what is to be logged is       *)
(* jbddirty; a buffer is dirty or jbddirty, never both; what the next transaction    *)
(* changed stays jbddirty.                                                           *)
Bits(b) ==
  /\ ~buf[b].bug
  /\ buf[b].b_frozen_data # None =>
       committing # 0 /\ buf[b].b_transaction = committing /\ buf[b].b_jlist # "Dirtydata"
  /\ buf[b].b_jlist \in {"Metadata", "Shadow"} => buf[b].jbddirty
  /\ ~(buf[b].dirty /\ buf[b].jbddirty)
  /\ buf[b].b_transaction = 0 => ~buf[b].jbddirty
  /\ buf[b].b_next_transaction # 0 /\ buf[b].b_modified => buf[b].jbddirty

(* The blocks that the running transaction changed are those on its metadata list    *)
(* and those it has changed and the committing one still has.  What it may change of *)
(* the committing one is copied or logged already, and the log I/O reads the copy,   *)
(* if there is one.  The freed bit marks truncated file blocks.                      *)
Traced(b) ==
  /\ buf[b].freed => b \in Data /\ use[b] \in {"unmapped", "freed"}
  /\ use[b] \in {"orphan", "unmapped"} => b \in Data
  /\ ~aborted =>
       /\ b \in wrote =>
            /\ use[b] \in {"used", "orphan"}
            /\ \/ running # 0 /\ buf[b].b_transaction = running /\ buf[b].b_jlist = "Metadata"
               \/ buf[b].b_next_transaction # 0 /\ buf[b].b_modified
       /\ running # 0 /\ buf[b].b_transaction = running /\ buf[b].b_jlist = "Metadata" => b \in wrote
       /\ buf[b].b_next_transaction # 0 /\ buf[b].b_modified /\ ~buf[b].freed => b \in wrote
       /\ buf[b].b_next_transaction # 0 /\ ~buf[b].freed =>
            buf[b].b_frozen_data # None \/ buf[b].b_jlist = "Forget"
       /\ io[b] = "page" => buf[b].b_frozen_data = None
       /\ io[b] = "frozen" => buf[b].b_frozen_data # None

(* What the log I/O of a buffer reads, and whether it has still to read it. *)
Copied(b)  == IF buf[b].b_frozen_data = None THEN buf[b].data ELSE buf[b].b_frozen_data
Logging(b) == /\ buf[b].b_transaction = committing
              /\ buf[b].b_jlist \in {"Metadata", "Shadow"}
              /\ io[b] # "done"

(* The log of a transaction that has not begun to commit is empty.  While it commits *)
(* its log has what was in the block when it was closed, or will get it.             *)
Kept(b) ==
  /\ \A t \in Tids : t > last \/ t = running => log[t][b] = None
  /\ \A t \in committed \ {0} : b \notin tagged[t] => log[t][b] = closed[t][b]
  /\ ~aborted /\ phase \notin {"none", "locked", "forget"} /\ b \notin tagged[committing] =>
       /\ Logging(b) => Copied(b) = closed[committing][b]
       /\ ~Logging(b) => log[committing][b] = closed[committing][b]

(* The buffer of a truncated block leaves its lists without becoming dirty; data to  *)
(* be written in place is dirty only until the commit has issued it.                 *)
Clean(b) ==
  /\ b \in Data /\ use[b] \in {"orphan", "unmapped", "freed"} /\ buf[b].b_transaction = 0 =>
       ~buf[b].jbddirty
  /\ b \in Data /\ use[b] \in {"unmapped", "freed"} =>
       /\ buf[b].b_transaction = 0 => ~buf[b].dirty
       /\ running # 0 /\ buf[b].b_transaction = running => buf[b].b_jlist = "Forget"
       /\ buf[b].b_transaction # 0 /\ buf[b].jbddirty => buf[b].freed
       /\ buf[b].b_next_transaction # 0 => buf[b].freed
  /\ committing # 0 /\ b \in On(committing, "Dirtydata") /\ buf[b].dirty =>
       phase = "data" /\ b \in todo

Sound(b) == Listed(b) /\ (~aborted => Bits(b)) /\ Traced(b) /\ Kept(b) /\ Clean(b)

(* A process that may change a buffer owns it, now or next, and it is not dirty; a   *)
(* process does not ask for a buffer that the commit writes in place, and has taken  *)
(* the dirty bit from one that the next commit would.                                *)
Owner(p) ==
  /\ Waiting(p) /\ buf[h_buf[p]].b_jlist = "Dirtydata" =>
       buf[h_buf[p]].b_transaction # committing /\ ~buf[h_buf[p]].dirty
  /\ Holding(p) =>
       /\ h_tid[p] \in {buf[h_buf[p]].b_transaction, buf[h_buf[p]].b_next_transaction}
       /\ ~buf[h_buf[p]].dirty
  /\ pc[p] = "new" => /\ buf[h_buf[p]].b_transaction = h_tid[p]
                      /\ buf[h_buf[p]].b_jlist = "Reserved"

(* A file block is changed by one process at a time. *)
Alone ==
  \A p, q \in Procs : p # q /\ Works(p) /\ Works(q) /\ h_buf[p] = h_buf[q] => h_buf[p] \in Meta

ListInv == \A b \in Blocks : Sound(b)
OwnInv  == \A p \in Procs : Owner(p)

Struct == Base /\ Alone /\ ListInv /\ OwnInv /\ ~Overtakes

-----------------------------------------------------------------------------
(* Steps that change one buffer *)

(* Nothing but block b is touched, and no transaction moves. *)
Elsewhere(b) ==
  /\ UNCHANGED <<running, committing, last, phase, committed, closed, tagged>>
  /\ aborted => aborted'
  /\ \A c \in Blocks \ {b} :
       /\ buf'[c] = buf[c] /\ io'[c] = io[c] /\ use'[c] = use[c] /\ freed'[c] = freed[c]
       /\ c \in wrote' <=> c \in wrote
       /\ c \in todo' <=> c \in todo
       /\ \A t \in Tids : log'[t][c] = log[t][c]

\* A version is not the mark of no contents.
LEMMA Numbers == \A n \in Versions : n # None
BY ConstantsAssumption DEF Versions, None

\* Transactions with a commit record.
LEMMA CommittedTids ==
  ASSUME Struct
  PROVE  /\ committed \ {0} \subseteq Tids
         /\ phase \notin {"none", "locked", "forget"} => committing \in Tids
<1>1. CommitType
  BY Groups DEF Struct, Base
<1>2. phase \notin {"none", "locked"} => committing # 0
  BY <1>1 DEF Struct, Base, TidInv
<1> QED
  BY <1>1, <1>2, Constant DEF CommitType, Tids

\* A buffer other than the one a step touches is as it was.
LEMMA ListFrame ==
  ASSUME Struct, NEW b \in Blocks, Elsewhere(b), Sound(b)'
  PROVE  ListInv'
<1> SUFFICES ASSUME NEW c \in Blocks PROVE Sound(c)'
  BY DEF ListInv
<1>1. CASE c = b
  BY <1>1
<1>2. CASE c # b
  <2>1. /\ buf'[c] = buf[c] /\ io'[c] = io[c] /\ Sound(c)
        /\ use'[c] = use[c] /\ freed'[c] = freed[c]
        /\ c \in wrote' <=> c \in wrote
        /\ c \in todo' <=> c \in todo
        /\ \A t \in Tids : log'[t][c] = log[t][c]
        /\ UNCHANGED <<running, committing, last, phase, committed, closed, tagged>>
        /\ aborted => aborted'
    BY <1>2 DEF Elsewhere, Struct, ListInv
  <2>2. Listed(c)' /\ (~aborted => Bits(c)')
    BY <2>1 DEF Sound, Listed, Bits, PhaseLists
  <2>3. Traced(c)' /\ Clean(c)'
    BY <2>1 DEF Sound, Traced, Clean, On
  <2>4. Kept(c)'
    BY <2>1, CommittedTids DEF Sound, Kept, Logging, Copied
  <2> QED
    BY <2>1, <2>2, <2>3, <2>4 DEF Sound
<1> QED
  BY <1>1, <1>2

\* A step that logs nothing, and does not change what is to be logged.
LEMMA KeptFrame ==
  ASSUME Struct, NEW b \in Blocks,
         UNCHANGED <<running, committing, last, phase, committed, closed, tagged, log>>,
         aborted => aborted',
         ~aborted /\ phase \notin {"none", "locked", "forget"} =>
           /\ Logging(b)' <=> Logging(b)
           /\ Logging(b) => Copied(b)' = Copied(b)
  PROVE  Kept(b)'
<1>1. Kept(b)
  BY DEF Struct, ListInv, Sound
<1> QED
  BY <1>1 DEF Kept

(* What a process has of buffer b, or waits for, it does not lose in a step. *)
Keeps(b) ==
  /\ running # 0 /\ running \in {buf[b].b_transaction, buf[b].b_next_transaction} =>
       running \in {buf'[b].b_transaction, buf'[b].b_next_transaction}
  /\ running # 0 /\ running \in {buf[b].b_transaction, buf[b].b_next_transaction} /\ ~buf[b].dirty =>
       ~buf'[b].dirty
  /\ buf'[b].b_jlist = "Dirtydata" =>
       buf[b].b_jlist = "Dirtydata" /\ buf'[b].b_transaction = buf[b].b_transaction

\* A process stays the owner of its buffer.
LEMMA OwnFrame ==
  ASSUME Base, NEW q \in Procs, Owner(q), NEW b \in Blocks, Touches(b), Listed(b),
         Works(q) /\ h_buf[q] = b => Keeps(b),
         UNCHANGED <<running, committing>>,
         \/ pc'[q] = pc[q]
         \/ pc[q] = "asleep" /\ pc'[q] = "shadow",
         h_buf'[q] = h_buf[q], h_tid'[q] = h_tid[q],
         pc[q] = "new" /\ h_buf[q] = b =>
           /\ buf'[b].b_transaction = buf[b].b_transaction
           /\ buf'[b].b_jlist = buf[b].b_jlist
  PROVE  Owner(q)'
<1>1. CASE ~(Waiting(q) \/ Holding(q) \/ pc[q] = "new")
  BY <1>1 DEF Owner, Holding, Waiting
<1>2. CASE Waiting(q) \/ Holding(q) \/ pc[q] = "new"
  <2>1. h_buf[q] \in Blocks /\ h_tid[q] = running /\ running # 0
    BY <1>2, Working DEF Holding, Waiting
  <2>2. CASE h_buf[q] # b
    <3>1. buf'[h_buf[q]] = buf[h_buf[q]]
      BY <2>1, <2>2 DEF Touches
    <3> QED
      BY <2>1, <3>1 DEF Owner, Holding, Waiting
  <2>3. CASE h_buf[q] = b
    <3>1. Keeps(b)
      BY <1>2, <2>3 DEF Works, Holding, Waiting
    <3>2. CASE Waiting(q)
      BY <2>1, <2>3, <3>1, <3>2 DEF Owner, Holding, Waiting, Keeps, Listed
    <3>3. CASE Holding(q)
      BY <2>1, <2>3, <3>1, <3>3 DEF Owner, Holding, Waiting, Keeps
    <3>4. CASE pc[q] = "new"
      BY <2>1, <2>3, <3>4 DEF Owner, Holding, Waiting
    <3> QED
      BY <1>2, <3>2, <3>3, <3>4
  <2> QED
    BY <2>2, <2>3
<1> QED
  BY <1>1, <1>2

\* A process that works on a buffer changes it, and goes on or leaves it.
LEMMA WorkStep ==
  ASSUME Struct, Base', NEW p \in Procs, Works(p), NEW b \in Blocks, h_buf[p] = b,
         NEW x \in Places \ {"idle", "new", "shrunk"},
         Elsewhere(b), UNCHANGED h_tid,
         pc' = [pc EXCEPT ![p] = x],
         \A q \in Procs : q # p => h_buf'[q] = h_buf[q],
         x # "open" => h_buf'[p] = h_buf[p],
         Touches(b), b \in Meta => Keeps(b), Sound(b)', Owner(p)'
  PROVE  Struct'
<1>0. pc \in [Procs -> Places] /\ Meta \cap Data = {}
  BY Groups, ConstantsAssumption DEF Struct, Base, ProcType
<1>1. \A q \in Procs : q # p => pc'[q] = pc[q] /\ h_buf'[q] = h_buf[q] /\ h_tid'[q] = h_tid[q]
  BY <1>0
<1>2. pc'[p] = x /\ h_tid'[p] = h_tid[p] /\ (x # "open" => h_buf'[p] = h_buf[p])
  BY <1>0
<1>3. Alone'
  <2> SUFFICES ASSUME NEW q \in Procs, NEW r \in Procs, q # r, Works(q)', Works(r)',
                      h_buf'[q] = h_buf'[r]
               PROVE  h_buf'[q] \in Meta
    BY DEF Alone
  <2>1. Works(q) /\ Works(r) /\ h_buf'[q] = h_buf[q] /\ h_buf'[r] = h_buf[r]
    BY <1>1, <1>2 DEF Works
  <2> QED
    BY <2>1 DEF Struct, Alone
<1>4. ListInv'
  BY ListFrame
<1>5. OwnInv'
  <2> SUFFICES ASSUME NEW q \in Procs, q # p PROVE Owner(q)'
    BY DEF OwnInv
  <2>1. pc'[q] = pc[q] /\ h_buf'[q] = h_buf[q] /\ h_tid'[q] = h_tid[q] /\ Owner(q)
    BY <1>1 DEF Struct, OwnInv
  <2>2. pc[q] = "new" => h_buf[q] # b
    BY <1>0 DEF Struct, Base, Alone, HandleInv, Works
  <2>3. Listed(b) /\ (Works(q) /\ h_buf[q] = b => Keeps(b))
    BY DEF Struct, Alone, ListInv, Sound
  <2> QED
    BY <2>1, <2>2, <2>3, OwnFrame DEF Struct, Elsewhere
<1> QED
  BY <1>3, <1>4, <1>5 DEF Struct

\* A step of the journal thread or of writeback changes a buffer, which no process
\* loses by it.
LEMMA JournalStep ==
  ASSUME Struct, Base', NEW b \in Blocks,
         Elsewhere(b), UNCHANGED <<h_tid, h_buf>>,
         \A q \in Procs : \/ pc'[q] = pc[q]
                          \/ pc[q] = "asleep" /\ pc'[q] = "shadow",
         Touches(b), Keeps(b), Sound(b)',
         running # 0 /\ buf[b].b_transaction = running =>
           buf'[b].b_transaction = running /\ buf'[b].b_jlist = buf[b].b_jlist
  PROVE  Struct'
<1>1. Alone'
  BY DEF Struct, Alone, Works
<1>2. ListInv'
  BY ListFrame
<1>3. OwnInv'
  <2> SUFFICES ASSUME NEW q \in Procs PROVE Owner(q)'
    BY DEF OwnInv
  <2>1. h_buf'[q] = h_buf[q] /\ h_tid'[q] = h_tid[q] /\ Owner(q)
    BY DEF Struct, OwnInv
  <2>2. pc[q] = "new" /\ h_buf[q] = b => /\ buf'[b].b_transaction = buf[b].b_transaction
                                         /\ buf'[b].b_jlist = buf[b].b_jlist
    <3> SUFFICES ASSUME pc[q] = "new", h_buf[q] = b
                 PROVE  /\ buf'[b].b_transaction = buf[b].b_transaction
                        /\ buf'[b].b_jlist = buf[b].b_jlist
      OBVIOUS
    <3>1. h_tid[q] = running /\ running # 0
      BY Working DEF Struct
    <3> QED
      BY <2>1, <3>1 DEF Owner
  <2>3. Listed(b)
    BY DEF Struct, ListInv, Sound
  <2> QED
    BY <2>1, <2>2, <2>3, OwnFrame DEF Struct, Elsewhere
<1> QED
  BY <1>1, <1>2, <1>3 DEF Struct


-----------------------------------------------------------------------------
(* do_get_write_access keeps the buffers sound. *)


\* AccessOwned
LEMMA OwnedStruct ==
  ASSUME Struct, NEW p \in Procs, AccessOwned(p)
  PROVE  Struct'
<1>1. PICK b \in Blocks : h_buf[p] = b
  BY OwnedEffect DEF Struct
<1> DEFINE s == buf[b]
           r == buf'[b]
<1>2. /\ Touches(b)
      /\ r \in Buffer /\ r.b_transaction = s.b_transaction
      /\ r.b_next_transaction = s.b_next_transaction /\ r.b_jlist = s.b_jlist
      /\ r.b_modified = s.b_modified /\ r.b_frozen_data = s.b_frozen_data
      /\ r.b_cp_transaction = s.b_cp_transaction /\ r.data = s.data /\ ~r.dirty
      /\ r.jbddirty = (s.jbddirty \/ s.dirty) /\ r.freed = s.freed
      /\ r.bug = (s.bug \/ (s.dirty /\ s.b_transaction # 0 /\ ~(s.b_transaction \in {h_tid[p], committing} /\ s.b_next_transaction \in {0, h_tid[p]})))
  BY <1>1, OwnedEffect DEF Struct
<1>3. Base'
  BY OwnedBase DEF Struct
<1>4. /\ Works(p) /\ pc[p] = "access" /\ Waiting(p)
  BY DEF AccessOwned, Granted, Works, Waiting
<1>5. /\ h_tid[p] = running /\ running # 0 /\ s \in Buffer /\ use[b] = "used"
      /\ running \in 0 .. MaxTid /\ committing \in 0 .. MaxTid
  BY <1>1, <1>4, Working DEF Struct
<1>6. /\ Listed(b) /\ (~aborted => Bits(b)) /\ Traced(b)
      /\ s.b_jlist = "Dirtydata" => s.b_transaction # committing /\ ~s.dirty
  BY <1>1, <1>4 DEF Struct, ListInv, Sound, OwnInv, Owner
<1>7. h_tid[p] \in {s.b_transaction, s.b_next_transaction}
  BY <1>1, <1>5, <1>6 DEF AccessOwned, Owned
<1>8. /\ UNCHANGED <<running, committing, last, phase, todo, committed, closed, tagged>>
      /\ UNCHANGED <<aborted, use, freed, io, log, wrote, h_tid>>
      /\ pc' = [pc EXCEPT ![p] = "granted"]
  BY DEF AccessOwned, Granted, Goto, Leave, accessUnchanged, commitVars, blockVars
<1>9. /\ \A q \in Procs : q # p => h_buf'[q] = h_buf[q]
      /\ "granted" # "open" => h_buf'[p] = h_buf[p]
      /\ pc'[p] = "granted" /\ h_tid'[p] = h_tid[p]
  BY <1>8, Groups DEF Struct, Base, ProcType, AccessOwned, Granted, Leave
<1>10. running # committing /\ (committing # 0 => committing < running)
  BY <1>5 DEF Struct, Base, TidInv
<1>11. Sound(b)'
  <2>1. Listed(b)'
    BY <1>2, <1>5, <1>6, <1>7, <1>8, <1>10 DEF Listed, PhaseLists
  <2>2. ~aborted => Bits(b)'
    BY <1>2, <1>5, <1>6, <1>7, <1>8, <1>10, Fields DEF Listed, Bits
  <2>3. Traced(b)'
    BY <1>2, <1>5, <1>6, <1>7, <1>8, <1>10, Fields, Numbers DEF Listed, Bits, Traced
  <2>5. Clean(b)'
    BY <1>2, <1>5, <1>8 DEF Clean, On
  <2>4. Kept(b)'
    <3>1. Logging(b)' <=> Logging(b)
      BY <1>2, <1>5, <1>6, <1>7, <1>8 DEF Logging, Listed
    <3>2. Copied(b)' = Copied(b)
      BY <1>2, <1>5, <1>7, Fields, Numbers DEF Copied
    <3> QED
      BY <1>8, <3>1, <3>2, KeptFrame
  <2> QED
    BY <1>8, <2>1, <2>2, <2>3, <2>4, <2>5 DEF Sound
<1>12. Owner(p)'
  BY <1>1, <1>2, <1>5, <1>6, <1>7, <1>8, <1>9 DEF Owner, Waiting, Holding
<1>13. Keeps(b)
  BY <1>2, <1>6, <1>7, <1>10 DEF Keeps
<1>14. "granted" \in Places \ {"idle", "new", "shrunk"}
  BY DEF Places
<1>15. Elsewhere(b)
  BY <1>2, <1>8 DEF Touches, Elsewhere
<1> QED
  BY <1>1, <1>2, <1>3, <1>4, <1>8, <1>9, <1>11, <1>12, <1>13, <1>14, <1>15, WorkStep

\* AccessAborted
LEMMA AbortedStruct ==
  ASSUME Struct, NEW p \in Procs, AccessAborted(p)
  PROVE  Struct'
<1>1. PICK b \in Blocks : h_buf[p] = b
  BY AbortedEffect DEF Struct
<1> DEFINE s == buf[b]
           r == buf'[b]
<1>2. /\ Touches(b)
      /\ r \in Buffer /\ r.b_transaction = s.b_transaction
      /\ r.b_next_transaction = s.b_next_transaction /\ r.b_jlist = s.b_jlist
      /\ r.b_modified = s.b_modified /\ r.b_frozen_data = s.b_frozen_data
      /\ r.b_cp_transaction = s.b_cp_transaction /\ r.data = s.data /\ ~r.dirty
      /\ r.jbddirty = (s.jbddirty \/ s.dirty) /\ r.freed = s.freed
      /\ r.bug = (s.bug \/ (s.dirty /\ s.b_transaction # 0 /\ ~(s.b_transaction \in {h_tid[p], committing} /\ s.b_next_transaction \in {0, h_tid[p]})))
  BY <1>1, AbortedEffect DEF Struct
<1>3. Base'
  BY AbortedBase DEF Struct
<1>4. /\ Works(p) /\ pc[p] = "access" /\ Waiting(p)
  BY DEF AccessAborted, Works, Waiting
<1>5. /\ h_tid[p] = running /\ running # 0 /\ s \in Buffer /\ use[b] = "used"
      /\ running \in 0 .. MaxTid /\ committing \in 0 .. MaxTid
  BY <1>1, <1>4, Working DEF Struct
<1>6. /\ Listed(b) /\ (~aborted => Bits(b)) /\ Traced(b)
      /\ s.b_jlist = "Dirtydata" => s.b_transaction # committing /\ ~s.dirty
  BY <1>1, <1>4 DEF Struct, ListInv, Sound, OwnInv, Owner
<1>7. aborted
  BY <1>1, <1>5, <1>6 DEF AccessAborted
<1>8. /\ UNCHANGED <<running, committing, last, phase, todo, committed, closed, tagged>>
      /\ UNCHANGED <<aborted, use, freed, io, log, wrote, h_tid>>
      /\ pc' = [pc EXCEPT ![p] = "open"]
  BY DEF AccessAborted, Goto, Leave, accessUnchanged, commitVars, blockVars
<1>9. /\ \A q \in Procs : q # p => h_buf'[q] = h_buf[q]
      /\ "open" # "open" => h_buf'[p] = h_buf[p]
      /\ pc'[p] = "open" /\ h_tid'[p] = h_tid[p]
  BY <1>8, Groups DEF Struct, Base, ProcType, AccessAborted, Leave
<1>10. running # committing /\ (committing # 0 => committing < running)
  BY <1>5 DEF Struct, Base, TidInv
<1>11. Sound(b)'
  <2>1. Listed(b)'
    BY <1>2, <1>5, <1>6, <1>7, <1>8, <1>10 DEF Listed, PhaseLists
  <2>2. ~aborted => Bits(b)'
    BY <1>2, <1>5, <1>6, <1>7, <1>8, <1>10, Fields DEF Listed, Bits
  <2>3. Traced(b)'
    BY <1>2, <1>5, <1>6, <1>7, <1>8, <1>10, Fields, Numbers DEF Listed, Bits, Traced
  <2>5. Clean(b)'
    BY <1>2, <1>5, <1>8 DEF Clean, On
  <2>4. Kept(b)'
    <3>1. Logging(b)' <=> Logging(b)
      BY <1>2, <1>5, <1>6, <1>7, <1>8 DEF Logging, Listed
    <3>2. Copied(b)' = Copied(b)
      BY <1>2, <1>5, <1>7, Fields, Numbers DEF Copied
    <3> QED
      BY <1>8, <3>1, <3>2, KeptFrame
  <2> QED
    BY <1>8, <2>1, <2>2, <2>3, <2>4, <2>5 DEF Sound
<1>12. Owner(p)'
  BY <1>1, <1>2, <1>5, <1>6, <1>7, <1>8, <1>9 DEF Owner, Waiting, Holding
<1>13. Keeps(b)
  BY <1>2, <1>6, <1>7, <1>10 DEF Keeps
<1>14. "open" \in Places \ {"idle", "new", "shrunk"}
  BY DEF Places
<1>15. Elsewhere(b)
  BY <1>2, <1>8 DEF Touches, Elsewhere
<1> QED
  BY <1>1, <1>2, <1>3, <1>4, <1>8, <1>9, <1>11, <1>12, <1>13, <1>14, <1>15, WorkStep

\* AccessFrozen
LEMMA FrozenStruct ==
  ASSUME Struct, NEW p \in Procs, AccessFrozen(p)
  PROVE  Struct'
<1>1. PICK b \in Blocks : h_buf[p] = b
  BY FrozenEffect DEF Struct
<1> DEFINE s == buf[b]
           r == buf'[b]
<1>2. /\ Touches(b)
      /\ r \in Buffer /\ r.b_transaction = s.b_transaction /\ r.b_next_transaction = h_tid[p]
      /\ r.b_jlist = s.b_jlist /\ ~r.b_modified /\ r.b_frozen_data = s.b_frozen_data
      /\ r.b_cp_transaction = s.b_cp_transaction /\ r.data = s.data /\ ~r.dirty
      /\ r.jbddirty = (s.jbddirty \/ s.dirty) /\ r.freed = s.freed
      /\ r.bug = (s.bug \/ (s.dirty /\ s.b_transaction # 0 /\ ~(s.b_transaction \in {h_tid[p], committing} /\ s.b_next_transaction \in {0, h_tid[p]})) \/ s.b_next_transaction # 0)
  BY <1>1, FrozenEffect DEF Struct
<1>3. Base'
  BY FrozenBase DEF Struct
<1>4. /\ Works(p) /\ pc[p] = "access" /\ Waiting(p)
  BY DEF AccessFrozen, Granted, Works, Waiting
<1>5. /\ h_tid[p] = running /\ running # 0 /\ s \in Buffer /\ use[b] = "used"
      /\ running \in 0 .. MaxTid /\ committing \in 0 .. MaxTid
  BY <1>1, <1>4, Working DEF Struct
<1>6. /\ Listed(b) /\ (~aborted => Bits(b)) /\ Traced(b)
      /\ s.b_jlist = "Dirtydata" => s.b_transaction # committing /\ ~s.dirty
  BY <1>1, <1>4 DEF Struct, ListInv, Sound, OwnInv, Owner
<1>7. /\ s.b_transaction # running /\ s.b_next_transaction = 0 /\ ~aborted
      /\ s.b_transaction = committing /\ committing # 0 /\ s.b_frozen_data # None
  BY <1>1, <1>5, <1>6 DEF AccessFrozen, Owned, Listed, Bits
<1>8. /\ UNCHANGED <<running, committing, last, phase, todo, committed, closed, tagged>>
      /\ UNCHANGED <<aborted, use, freed, io, log, wrote, h_tid>>
      /\ pc' = [pc EXCEPT ![p] = "granted"]
  BY DEF AccessFrozen, Granted, Goto, Leave, accessUnchanged, commitVars, blockVars
<1>9. /\ \A q \in Procs : q # p => h_buf'[q] = h_buf[q]
      /\ "granted" # "open" => h_buf'[p] = h_buf[p]
      /\ pc'[p] = "granted" /\ h_tid'[p] = h_tid[p]
  BY <1>8, Groups DEF Struct, Base, ProcType, AccessFrozen, Granted, Leave
<1>10. running # committing /\ (committing # 0 => committing < running)
  BY <1>5 DEF Struct, Base, TidInv
<1>11. Sound(b)'
  <2>1. Listed(b)'
    BY <1>2, <1>5, <1>6, <1>7, <1>8, <1>10 DEF Listed, PhaseLists
  <2>2. ~aborted => Bits(b)'
    BY <1>2, <1>5, <1>6, <1>7, <1>8, <1>10, Fields DEF Listed, Bits
  <2>3. Traced(b)'
    BY <1>2, <1>5, <1>6, <1>7, <1>8, <1>10, Fields, Numbers DEF Listed, Bits, Traced
  <2>5. Clean(b)'
    BY <1>2, <1>5, <1>8 DEF Clean, On
  <2>4. Kept(b)'
    <3>1. Logging(b)' <=> Logging(b)
      BY <1>2, <1>5, <1>6, <1>7, <1>8 DEF Logging, Listed
    <3>2. Copied(b)' = Copied(b)
      BY <1>2, <1>5, <1>7, Fields, Numbers DEF Copied
    <3> QED
      BY <1>8, <3>1, <3>2, KeptFrame
  <2> QED
    BY <1>8, <2>1, <2>2, <2>3, <2>4, <2>5 DEF Sound
<1>12. Owner(p)'
  BY <1>1, <1>2, <1>5, <1>6, <1>7, <1>8, <1>9 DEF Owner, Waiting, Holding
<1>13. Keeps(b)
  BY <1>2, <1>6, <1>7, <1>10 DEF Keeps
<1>14. "granted" \in Places \ {"idle", "new", "shrunk"}
  BY DEF Places
<1>15. Elsewhere(b)
  BY <1>2, <1>8 DEF Touches, Elsewhere
<1> QED
  BY <1>1, <1>2, <1>3, <1>4, <1>8, <1>9, <1>11, <1>12, <1>13, <1>14, <1>15, WorkStep

\* AccessForget
LEMMA ForgetStruct ==
  ASSUME Struct, NEW p \in Procs, AccessForget(p)
  PROVE  Struct'
<1>1. PICK b \in Blocks : h_buf[p] = b
  BY ForgetEffect DEF Struct
<1> DEFINE s == buf[b]
           r == buf'[b]
<1>2. /\ Touches(b)
      /\ r \in Buffer /\ r.b_transaction = s.b_transaction /\ r.b_next_transaction = h_tid[p]
      /\ r.b_jlist = s.b_jlist /\ ~r.b_modified /\ r.b_frozen_data = s.b_frozen_data
      /\ r.b_cp_transaction = s.b_cp_transaction /\ r.data = s.data /\ ~r.dirty
      /\ r.jbddirty = (s.jbddirty \/ s.dirty) /\ r.freed = s.freed
      /\ r.bug = (s.bug \/ (s.dirty /\ s.b_transaction # 0 /\ ~(s.b_transaction \in {h_tid[p], committing} /\ s.b_next_transaction \in {0, h_tid[p]})) \/ ~(s.b_next_transaction = 0 /\ s.b_transaction = committing))
  BY <1>1, ForgetEffect DEF Struct
<1>3. Base'
  BY ForgetBase DEF Struct
<1>4. /\ Works(p) /\ pc[p] = "access" /\ Waiting(p)
  BY DEF AccessForget, Older, Granted, Works, Waiting
<1>5. /\ h_tid[p] = running /\ running # 0 /\ s \in Buffer /\ use[b] = "used"
      /\ running \in 0 .. MaxTid /\ committing \in 0 .. MaxTid
  BY <1>1, <1>4, Working DEF Struct
<1>6. /\ Listed(b) /\ (~aborted => Bits(b)) /\ Traced(b)
      /\ s.b_jlist = "Dirtydata" => s.b_transaction # committing /\ ~s.dirty
  BY <1>1, <1>4 DEF Struct, ListInv, Sound, OwnInv, Owner
<1>7. /\ s.b_transaction # running /\ s.b_next_transaction = 0 /\ ~aborted
      /\ s.b_transaction = committing /\ committing # 0 /\ s.b_frozen_data = None /\ s.b_jlist = "Forget"
  BY <1>1, <1>5, <1>6 DEF AccessForget, Older, Owned, Listed
<1>8. /\ UNCHANGED <<running, committing, last, phase, todo, committed, closed, tagged>>
      /\ UNCHANGED <<aborted, use, freed, io, log, wrote, h_tid>>
      /\ pc' = [pc EXCEPT ![p] = "granted"]
  BY DEF AccessForget, Older, Granted, Goto, Leave, accessUnchanged, commitVars, blockVars
<1>9. /\ \A q \in Procs : q # p => h_buf'[q] = h_buf[q]
      /\ "granted" # "open" => h_buf'[p] = h_buf[p]
      /\ pc'[p] = "granted" /\ h_tid'[p] = h_tid[p]
  BY <1>8, Groups DEF Struct, Base, ProcType, AccessForget, Older, Granted, Leave
<1>10. running # committing /\ (committing # 0 => committing < running)
  BY <1>5 DEF Struct, Base, TidInv
<1>11. Sound(b)'
  <2>1. Listed(b)'
    BY <1>2, <1>5, <1>6, <1>7, <1>8, <1>10 DEF Listed, PhaseLists
  <2>2. ~aborted => Bits(b)'
    BY <1>2, <1>5, <1>6, <1>7, <1>8, <1>10, Fields DEF Listed, Bits
  <2>3. Traced(b)'
    BY <1>2, <1>5, <1>6, <1>7, <1>8, <1>10, Fields, Numbers DEF Listed, Bits, Traced
  <2>5. Clean(b)'
    BY <1>2, <1>5, <1>8 DEF Clean, On
  <2>4. Kept(b)'
    <3>1. Logging(b)' <=> Logging(b)
      BY <1>2, <1>5, <1>6, <1>7, <1>8 DEF Logging, Listed
    <3>2. Copied(b)' = Copied(b)
      BY <1>2, <1>5, <1>7, Fields, Numbers DEF Copied
    <3> QED
      BY <1>8, <3>1, <3>2, KeptFrame
  <2> QED
    BY <1>8, <2>1, <2>2, <2>3, <2>4, <2>5 DEF Sound
<1>12. Owner(p)'
  BY <1>1, <1>2, <1>5, <1>6, <1>7, <1>8, <1>9 DEF Owner, Waiting, Holding
<1>13. Keeps(b)
  BY <1>2, <1>6, <1>7, <1>10 DEF Keeps
<1>14. "granted" \in Places \ {"idle", "new", "shrunk"}
  BY DEF Places
<1>15. Elsewhere(b)
  BY <1>2, <1>8 DEF Touches, Elsewhere
<1> QED
  BY <1>1, <1>2, <1>3, <1>4, <1>8, <1>9, <1>11, <1>12, <1>13, <1>14, <1>15, WorkStep

\* AccessCopy
LEMMA CopyStruct ==
  ASSUME Struct, NEW p \in Procs, AccessCopy(p)
  PROVE  Struct'
<1>1. PICK b \in Blocks : h_buf[p] = b
  BY CopyEffect DEF Struct
<1> DEFINE s == buf[b]
           r == buf'[b]
<1>2. /\ Touches(b)
      /\ r \in Buffer /\ r.b_transaction = s.b_transaction /\ r.b_next_transaction = h_tid[p]
      /\ r.b_jlist = s.b_jlist /\ ~r.b_modified /\ r.b_frozen_data = s.data
      /\ r.b_cp_transaction = s.b_cp_transaction /\ r.data = s.data /\ ~r.dirty
      /\ r.jbddirty = (s.jbddirty \/ s.dirty) /\ r.freed = s.freed
      /\ r.bug = (s.bug \/ (s.dirty /\ s.b_transaction # 0 /\ ~(s.b_transaction \in {h_tid[p], committing} /\ s.b_next_transaction \in {0, h_tid[p]})) \/ ~(s.b_next_transaction = 0 /\ s.b_transaction = committing))
  BY <1>1, CopyEffect DEF Struct
<1>3. Base'
  BY CopyBase DEF Struct
<1>4. /\ Works(p) /\ pc[p] = "access" /\ Waiting(p)
  BY DEF AccessCopy, Older, Granted, Works, Waiting
<1>5. /\ h_tid[p] = running /\ running # 0 /\ s \in Buffer /\ use[b] = "used"
      /\ running \in 0 .. MaxTid /\ committing \in 0 .. MaxTid
  BY <1>1, <1>4, Working DEF Struct
<1>6. /\ Listed(b) /\ (~aborted => Bits(b)) /\ Traced(b)
      /\ s.b_jlist = "Dirtydata" => s.b_transaction # committing /\ ~s.dirty
  BY <1>1, <1>4 DEF Struct, ListInv, Sound, OwnInv, Owner
<1>7. /\ s.b_transaction # running /\ s.b_next_transaction = 0 /\ ~aborted
      /\ s.b_transaction = committing /\ committing # 0 /\ s.b_frozen_data = None /\ s.b_jlist \notin {"Shadow", "Forget"}
  BY <1>1, <1>5, <1>6 DEF AccessCopy, Older, Owned, Listed
<1>8. /\ UNCHANGED <<running, committing, last, phase, todo, committed, closed, tagged>>
      /\ UNCHANGED <<aborted, use, freed, io, log, wrote, h_tid>>
      /\ pc' = [pc EXCEPT ![p] = "granted"]
  BY DEF AccessCopy, Older, Granted, Goto, Leave, accessUnchanged, commitVars, blockVars
<1>9. /\ \A q \in Procs : q # p => h_buf'[q] = h_buf[q]
      /\ "granted" # "open" => h_buf'[p] = h_buf[p]
      /\ pc'[p] = "granted" /\ h_tid'[p] = h_tid[p]
  BY <1>8, Groups DEF Struct, Base, ProcType, AccessCopy, Older, Granted, Leave
<1>10. running # committing /\ (committing # 0 => committing < running)
  BY <1>5 DEF Struct, Base, TidInv
<1>11. Sound(b)'
  <2>1. Listed(b)'
    BY <1>2, <1>5, <1>6, <1>7, <1>8, <1>10 DEF Listed, PhaseLists
  <2>2. ~aborted => Bits(b)'
    BY <1>2, <1>5, <1>6, <1>7, <1>8, <1>10, Fields DEF Listed, Bits
  <2>3. Traced(b)'
    BY <1>2, <1>5, <1>6, <1>7, <1>8, <1>10, Fields, Numbers DEF Listed, Bits, Traced
  <2>5. Clean(b)'
    BY <1>2, <1>5, <1>8 DEF Clean, On
  <2>4. Kept(b)'
    <3>1. Logging(b)' <=> Logging(b)
      BY <1>2, <1>5, <1>6, <1>7, <1>8 DEF Logging, Listed
    <3>2. Copied(b)' = Copied(b)
      BY <1>2, <1>5, <1>7, Fields, Numbers DEF Copied
    <3> QED
      BY <1>8, <3>1, <3>2, KeptFrame
  <2> QED
    BY <1>8, <2>1, <2>2, <2>3, <2>4, <2>5 DEF Sound
<1>12. Owner(p)'
  BY <1>1, <1>2, <1>5, <1>6, <1>7, <1>8, <1>9 DEF Owner, Waiting, Holding
<1>13. Keeps(b)
  BY <1>2, <1>6, <1>7, <1>10 DEF Keeps
<1>14. "granted" \in Places \ {"idle", "new", "shrunk"}
  BY DEF Places
<1>15. Elsewhere(b)
  BY <1>2, <1>8 DEF Touches, Elsewhere
<1> QED
  BY <1>1, <1>2, <1>3, <1>4, <1>8, <1>9, <1>11, <1>12, <1>13, <1>14, <1>15, WorkStep

\* AccessAlloc
LEMMA AllocStruct ==
  ASSUME Struct, NEW p \in Procs, AccessAlloc(p)
  PROVE  Struct'
<1>1. PICK b \in Blocks : h_buf[p] = b
  BY AllocEffect DEF Struct
<1> DEFINE s == buf[b]
           r == buf'[b]
<1>2. /\ Touches(b)
      /\ r \in Buffer /\ r.b_transaction = s.b_transaction
      /\ r.b_next_transaction = s.b_next_transaction /\ r.b_jlist = s.b_jlist /\ ~r.b_modified
      /\ r.b_frozen_data = s.b_frozen_data /\ r.b_cp_transaction = s.b_cp_transaction
      /\ r.data = s.data /\ ~r.dirty /\ r.jbddirty = (s.jbddirty \/ s.dirty) /\ r.freed = s.freed
      /\ r.bug = (s.bug \/ (s.dirty /\ s.b_transaction # 0 /\ ~(s.b_transaction \in {h_tid[p], committing} /\ s.b_next_transaction \in {0, h_tid[p]})) \/ ~(s.b_next_transaction = 0 /\ s.b_transaction = committing))
  BY <1>1, AllocEffect DEF Struct
<1>3. Base'
  BY AllocBase DEF Struct
<1>4. /\ Works(p) /\ pc[p] = "access" /\ Waiting(p)
  BY DEF AccessAlloc, Older, Works, Waiting
<1>5. /\ h_tid[p] = running /\ running # 0 /\ s \in Buffer /\ use[b] = "used"
      /\ running \in 0 .. MaxTid /\ committing \in 0 .. MaxTid
  BY <1>1, <1>4, Working DEF Struct
<1>6. /\ Listed(b) /\ (~aborted => Bits(b)) /\ Traced(b)
      /\ s.b_jlist = "Dirtydata" => s.b_transaction # committing /\ ~s.dirty
  BY <1>1, <1>4 DEF Struct, ListInv, Sound, OwnInv, Owner
<1>7. /\ s.b_transaction # running /\ s.b_next_transaction = 0 /\ ~aborted
      /\ s.b_transaction = committing /\ committing # 0 /\ s.b_frozen_data = None
  BY <1>1, <1>5, <1>6 DEF AccessAlloc, Older, Owned, Listed
<1>8. /\ UNCHANGED <<running, committing, last, phase, todo, committed, closed, tagged>>
      /\ UNCHANGED <<aborted, use, freed, io, log, wrote, h_tid>>
      /\ pc' = [pc EXCEPT ![p] = "alloc"]
  BY DEF AccessAlloc, Older, Goto, Leave, accessUnchanged, commitVars, blockVars
<1>9. /\ \A q \in Procs : q # p => h_buf'[q] = h_buf[q]
      /\ "alloc" # "open" => h_buf'[p] = h_buf[p]
      /\ pc'[p] = "alloc" /\ h_tid'[p] = h_tid[p]
  BY <1>8, Groups DEF Struct, Base, ProcType, AccessAlloc, Older, Leave
<1>10. running # committing /\ (committing # 0 => committing < running)
  BY <1>5 DEF Struct, Base, TidInv
<1>11. Sound(b)'
  <2>1. Listed(b)'
    BY <1>2, <1>5, <1>6, <1>7, <1>8, <1>10 DEF Listed, PhaseLists
  <2>2. ~aborted => Bits(b)'
    BY <1>2, <1>5, <1>6, <1>7, <1>8, <1>10, Fields DEF Listed, Bits
  <2>3. Traced(b)'
    BY <1>2, <1>5, <1>6, <1>7, <1>8, <1>10, Fields, Numbers DEF Listed, Bits, Traced
  <2>5. Clean(b)'
    BY <1>2, <1>5, <1>8 DEF Clean, On
  <2>4. Kept(b)'
    <3>1. Logging(b)' <=> Logging(b)
      BY <1>2, <1>5, <1>6, <1>7, <1>8 DEF Logging, Listed
    <3>2. Copied(b)' = Copied(b)
      BY <1>2, <1>5, <1>7, Fields, Numbers DEF Copied
    <3> QED
      BY <1>8, <3>1, <3>2, KeptFrame
  <2> QED
    BY <1>8, <2>1, <2>2, <2>3, <2>4, <2>5 DEF Sound
<1>12. Owner(p)'
  BY <1>1, <1>2, <1>5, <1>6, <1>7, <1>8, <1>9 DEF Owner, Waiting, Holding
<1>13. Keeps(b)
  BY <1>2, <1>6, <1>7, <1>10 DEF Keeps
<1>14. "alloc" \in Places \ {"idle", "new", "shrunk"}
  BY DEF Places
<1>15. Elsewhere(b)
  BY <1>2, <1>8 DEF Touches, Elsewhere
<1> QED
  BY <1>1, <1>2, <1>3, <1>4, <1>8, <1>9, <1>11, <1>12, <1>13, <1>14, <1>15, WorkStep

\* AccessShadow
LEMMA ShadowStruct ==
  ASSUME Struct, NEW p \in Procs, AccessShadow(p)
  PROVE  Struct'
<1>1. PICK b \in Blocks : h_buf[p] = b
  BY ShadowEffect DEF Struct
<1> DEFINE s == buf[b]
           r == buf'[b]
<1>2. /\ Touches(b)
      /\ r \in Buffer /\ r.b_transaction = s.b_transaction
      /\ r.b_next_transaction = s.b_next_transaction /\ r.b_jlist = s.b_jlist /\ ~r.b_modified
      /\ r.b_frozen_data = s.b_frozen_data /\ r.b_cp_transaction = s.b_cp_transaction
      /\ r.data = s.data /\ ~r.dirty /\ r.jbddirty = (s.jbddirty \/ s.dirty) /\ r.freed = s.freed
      /\ r.bug = (s.bug \/ (s.dirty /\ s.b_transaction # 0 /\ ~(s.b_transaction \in {h_tid[p], committing} /\ s.b_next_transaction \in {0, h_tid[p]})) \/ ~(s.b_next_transaction = 0 /\ s.b_transaction = committing))
  BY <1>1, ShadowEffect DEF Struct
<1>3. Base'
  BY ShadowBase DEF Struct
<1>4. /\ Works(p) /\ pc[p] = "access" /\ Waiting(p)
  BY DEF AccessShadow, Older, Works, Waiting
<1>5. /\ h_tid[p] = running /\ running # 0 /\ s \in Buffer /\ use[b] = "used"
      /\ running \in 0 .. MaxTid /\ committing \in 0 .. MaxTid
  BY <1>1, <1>4, Working DEF Struct
<1>6. /\ Listed(b) /\ (~aborted => Bits(b)) /\ Traced(b)
      /\ s.b_jlist = "Dirtydata" => s.b_transaction # committing /\ ~s.dirty
  BY <1>1, <1>4 DEF Struct, ListInv, Sound, OwnInv, Owner
<1>7. /\ s.b_transaction # running /\ s.b_next_transaction = 0 /\ ~aborted
      /\ s.b_transaction = committing /\ committing # 0 /\ s.b_frozen_data = None
  BY <1>1, <1>5, <1>6 DEF AccessShadow, Older, Owned, Listed
<1>8. /\ UNCHANGED <<running, committing, last, phase, todo, committed, closed, tagged>>
      /\ UNCHANGED <<aborted, use, freed, io, log, wrote, h_tid>>
      /\ pc' = [pc EXCEPT ![p] = "shadow"]
  BY DEF AccessShadow, Older, Goto, Leave, accessUnchanged, commitVars, blockVars
<1>9. /\ \A q \in Procs : q # p => h_buf'[q] = h_buf[q]
      /\ "shadow" # "open" => h_buf'[p] = h_buf[p]
      /\ pc'[p] = "shadow" /\ h_tid'[p] = h_tid[p]
  BY <1>8, Groups DEF Struct, Base, ProcType, AccessShadow, Older, Leave
<1>10. running # committing /\ (committing # 0 => committing < running)
  BY <1>5 DEF Struct, Base, TidInv
<1>11. Sound(b)'
  <2>1. Listed(b)'
    BY <1>2, <1>5, <1>6, <1>7, <1>8, <1>10 DEF Listed, PhaseLists
  <2>2. ~aborted => Bits(b)'
    BY <1>2, <1>5, <1>6, <1>7, <1>8, <1>10, Fields DEF Listed, Bits
  <2>3. Traced(b)'
    BY <1>2, <1>5, <1>6, <1>7, <1>8, <1>10, Fields, Numbers DEF Listed, Bits, Traced
  <2>5. Clean(b)'
    BY <1>2, <1>5, <1>8 DEF Clean, On
  <2>4. Kept(b)'
    <3>1. Logging(b)' <=> Logging(b)
      BY <1>2, <1>5, <1>6, <1>7, <1>8 DEF Logging, Listed
    <3>2. Copied(b)' = Copied(b)
      BY <1>2, <1>5, <1>7, Fields, Numbers DEF Copied
    <3> QED
      BY <1>8, <3>1, <3>2, KeptFrame
  <2> QED
    BY <1>8, <2>1, <2>2, <2>3, <2>4, <2>5 DEF Sound
<1>12. Owner(p)'
  BY <1>1, <1>2, <1>5, <1>6, <1>7, <1>8, <1>9 DEF Owner, Waiting, Holding
<1>13. Keeps(b)
  BY <1>2, <1>6, <1>7, <1>10 DEF Keeps
<1>14. "shadow" \in Places \ {"idle", "new", "shrunk"}
  BY DEF Places
<1>15. Elsewhere(b)
  BY <1>2, <1>8 DEF Touches, Elsewhere
<1> QED
  BY <1>1, <1>2, <1>3, <1>4, <1>8, <1>9, <1>11, <1>12, <1>13, <1>14, <1>15, WorkStep

\* AccessFile
LEMMA FileStruct ==
  ASSUME Struct, NEW p \in Procs, AccessFile(p)
  PROVE  Struct'
<1>1. PICK b \in Blocks : h_buf[p] = b
  BY FileEffect DEF Struct
<1> DEFINE s == buf[b]
           r == buf'[b]
<1>2. /\ Touches(b)
      /\ r \in Buffer /\ r.b_transaction = h_tid[p] /\ r.b_next_transaction = s.b_next_transaction
      /\ r.b_jlist = "Reserved" /\ ~r.b_modified /\ r.b_frozen_data = s.b_frozen_data
      /\ r.b_cp_transaction = s.b_cp_transaction /\ r.data = s.data /\ ~r.dirty
      /\ r.jbddirty = (s.dirty \/ s.jbddirty) /\ r.freed = s.freed
      /\ r.bug = (s.bug \/ s.b_next_transaction # 0)
  BY <1>1, FileEffect DEF Struct
<1>3. Base'
  BY FileBase DEF Struct
<1>4. /\ Works(p) /\ pc[p] = "access" /\ Waiting(p)
  BY DEF AccessFile, Granted, Works, Waiting
<1>5. /\ h_tid[p] = running /\ running # 0 /\ s \in Buffer /\ use[b] = "used"
      /\ running \in 0 .. MaxTid /\ committing \in 0 .. MaxTid
  BY <1>1, <1>4, Working DEF Struct
<1>6. /\ Listed(b) /\ (~aborted => Bits(b)) /\ Traced(b)
      /\ s.b_jlist = "Dirtydata" => s.b_transaction # committing /\ ~s.dirty
  BY <1>1, <1>4 DEF Struct, ListInv, Sound, OwnInv, Owner
<1>7. s.b_transaction = 0 /\ s.b_next_transaction = 0 /\ s.b_frozen_data = None /\ ~aborted /\ s.b_jlist = "None"
  BY <1>1, <1>5, <1>6 DEF AccessFile, Owned, Listed
<1>8. /\ UNCHANGED <<running, committing, last, phase, todo, committed, closed, tagged>>
      /\ UNCHANGED <<aborted, use, freed, io, log, wrote, h_tid>>
      /\ pc' = [pc EXCEPT ![p] = "granted"]
  BY DEF AccessFile, Granted, Goto, Leave, accessUnchanged, commitVars, blockVars
<1>9. /\ \A q \in Procs : q # p => h_buf'[q] = h_buf[q]
      /\ "granted" # "open" => h_buf'[p] = h_buf[p]
      /\ pc'[p] = "granted" /\ h_tid'[p] = h_tid[p]
  BY <1>8, Groups DEF Struct, Base, ProcType, AccessFile, Granted, Leave
<1>10. running # committing /\ (committing # 0 => committing < running)
  BY <1>5 DEF Struct, Base, TidInv
<1>11. Sound(b)'
  <2>1. Listed(b)'
    BY <1>2, <1>5, <1>6, <1>7, <1>8, <1>10 DEF Listed, PhaseLists
  <2>2. ~aborted => Bits(b)'
    BY <1>2, <1>5, <1>6, <1>7, <1>8, <1>10, Fields DEF Listed, Bits
  <2>3. Traced(b)'
    BY <1>2, <1>5, <1>6, <1>7, <1>8, <1>10, Fields, Numbers DEF Listed, Bits, Traced
  <2>5. Clean(b)'
    BY <1>2, <1>5, <1>8 DEF Clean, On
  <2>4. Kept(b)'
    <3>1. Logging(b)' <=> Logging(b)
      BY <1>2, <1>5, <1>6, <1>7, <1>8 DEF Logging, Listed
    <3>2. Copied(b)' = Copied(b)
      BY <1>2, <1>5, <1>7, Fields, Numbers DEF Copied
    <3> QED
      BY <1>8, <3>1, <3>2, KeptFrame
  <2> QED
    BY <1>8, <2>1, <2>2, <2>3, <2>4, <2>5 DEF Sound
<1>12. Owner(p)'
  BY <1>1, <1>2, <1>5, <1>6, <1>7, <1>8, <1>9 DEF Owner, Waiting, Holding
<1>13. Keeps(b)
  BY <1>2, <1>6, <1>7, <1>10 DEF Keeps
<1>14. "granted" \in Places \ {"idle", "new", "shrunk"}
  BY DEF Places
<1>15. Elsewhere(b)
  BY <1>2, <1>8 DEF Touches, Elsewhere
<1> QED
  BY <1>1, <1>2, <1>3, <1>4, <1>8, <1>9, <1>11, <1>12, <1>13, <1>14, <1>15, WorkStep

\* A process that works on a buffer goes on or leaves it; the buffer is as it was.
LEMMA QuietStep ==
  ASSUME Struct, Base', NEW p \in Procs, Works(p),
         NEW x \in Places \ {"idle", "new", "shrunk"},
         UNCHANGED <<running, committing, last, phase, todo, committed, closed, tagged>>,
         UNCHANGED <<aborted, use, freed, io, log, wrote, h_tid, buf>>,
         pc' = [pc EXCEPT ![p] = x],
         \A q \in Procs : q # p => h_buf'[q] = h_buf[q],
         x # "open" => h_buf'[p] = h_buf[p],
         x \in {"granted", "created", "modified"} => Holding(p),
         x \in {"access", "alloc", "shadow", "queued", "asleep"} => Waiting(p)
  PROVE  Struct'
<1>1. PICK b \in Blocks : h_buf[p] = b
  BY Working DEF Struct, Works
<1>2. Touches(b) /\ Keeps(b)
  BY Groups DEF Struct, Base, BufType, Touches, Keeps
<1>3. Sound(b)'
  BY DEF Struct, ListInv, Sound, Listed, Bits, PhaseLists, Traced, Kept, Logging, Copied, Clean, On
<1>4. pc'[p] = x
  BY Groups DEF Struct, Base, ProcType
<1>5. Owner(p)'
  BY <1>4 DEF Struct, OwnInv, Owner, Waiting, Holding
<1>6. Elsewhere(b)
  BY DEF Elsewhere
<1> QED
  BY <1>1, <1>2, <1>3, <1>5, <1>6, WorkStep

\* AllocFrozen
LEMMA FrozenAllocStruct ==
  ASSUME Struct, NEW p \in Procs, AllocFrozen(p)
  PROVE  Struct'
<1>1. PICK x \in {"access", "open"} : pc' = [pc EXCEPT ![p] = x]
  BY DEF AllocFrozen, Goto, Leave
<1>2. Base' /\ Works(p) /\ x \in Places \ {"idle", "new", "shrunk"}
  BY <1>1, FrozenAllocBase DEF Struct, Works, Places, AllocFrozen
<1>3. /\ UNCHANGED <<running, committing, last, phase, todo, committed, closed, tagged>>
      /\ UNCHANGED <<aborted, use, freed, io, log, wrote, h_tid, buf>>
  BY DEF AllocFrozen, accessUnchanged, commitVars, blockVars, Leave
<1>4. /\ \A q \in Procs : q # p => h_buf'[q] = h_buf[q]
      /\ x # "open" => h_buf'[p] = h_buf[p]
  BY <1>1, Groups DEF Struct, Base, ProcType, Places, AllocFrozen, Goto, Leave
<1>5. /\ x \in {"granted", "created", "modified"} => Holding(p)
      /\ x \in {"access", "alloc", "shadow", "queued", "asleep"} => Waiting(p)
  BY <1>1 DEF Holding, Waiting, AllocFrozen
<1> QED
  BY <1>1, <1>2, <1>3, <1>4, <1>5, QuietStep

\* ShadowPrepare
LEMMA PrepareStruct ==
  ASSUME Struct, NEW p \in Procs, ShadowPrepare(p)
  PROVE  Struct'
<1>1. PICK x \in {"queued"} : pc' = [pc EXCEPT ![p] = x]
  BY DEF ShadowPrepare, Goto, Leave
<1>2. Base' /\ Works(p) /\ x \in Places \ {"idle", "new", "shrunk"}
  BY <1>1, PrepareBase DEF Struct, Works, Places, ShadowPrepare
<1>3. /\ UNCHANGED <<running, committing, last, phase, todo, committed, closed, tagged>>
      /\ UNCHANGED <<aborted, use, freed, io, log, wrote, h_tid, buf>>
  BY DEF ShadowPrepare, accessUnchanged, commitVars, blockVars, Leave
<1>4. /\ \A q \in Procs : q # p => h_buf'[q] = h_buf[q]
      /\ x # "open" => h_buf'[p] = h_buf[p]
  BY <1>1, Groups DEF Struct, Base, ProcType, Places, ShadowPrepare, Goto, Leave
<1>5. /\ x \in {"granted", "created", "modified"} => Holding(p)
      /\ x \in {"access", "alloc", "shadow", "queued", "asleep"} => Waiting(p)
  BY <1>1 DEF Holding, Waiting, ShadowPrepare
<1> QED
  BY <1>1, <1>2, <1>3, <1>4, <1>5, QuietStep

\* ShadowCheck
LEMMA CheckStruct ==
  ASSUME Struct, NEW p \in Procs, ShadowCheck(p)
  PROVE  Struct'
<1>1. PICK x \in {"asleep", "access"} : pc' = [pc EXCEPT ![p] = x]
  BY DEF ShadowCheck, Goto, Leave
<1>2. Base' /\ Works(p) /\ x \in Places \ {"idle", "new", "shrunk"}
  BY <1>1, CheckBase DEF Struct, Works, Places, ShadowCheck
<1>3. /\ UNCHANGED <<running, committing, last, phase, todo, committed, closed, tagged>>
      /\ UNCHANGED <<aborted, use, freed, io, log, wrote, h_tid, buf>>
  BY DEF ShadowCheck, accessUnchanged, commitVars, blockVars, Leave
<1>4. /\ \A q \in Procs : q # p => h_buf'[q] = h_buf[q]
      /\ x # "open" => h_buf'[p] = h_buf[p]
  BY <1>1, Groups DEF Struct, Base, ProcType, Places, ShadowCheck, Goto, Leave
<1>5. /\ x \in {"granted", "created", "modified"} => Holding(p)
      /\ x \in {"access", "alloc", "shadow", "queued", "asleep"} => Waiting(p)
  BY <1>1 DEF Holding, Waiting, ShadowCheck
<1> QED
  BY <1>1, <1>2, <1>3, <1>4, <1>5, QuietStep

\* jbdbf_journal_release_buffer
LEMMA ReleaseStruct ==
  ASSUME Struct, NEW p \in Procs, jbdbf_journal_release_buffer(p)
  PROVE  Struct'
<1>1. PICK x \in {"open"} : pc' = [pc EXCEPT ![p] = x]
  BY DEF jbdbf_journal_release_buffer, Goto, Leave
<1>2. Base' /\ Works(p) /\ x \in Places \ {"idle", "new", "shrunk"}
  BY <1>1, ReleaseBase DEF Struct, Works, Places, jbdbf_journal_release_buffer
<1>3. /\ UNCHANGED <<running, committing, last, phase, todo, committed, closed, tagged>>
      /\ UNCHANGED <<aborted, use, freed, io, log, wrote, h_tid, buf>>
  BY DEF jbdbf_journal_release_buffer, accessUnchanged, commitVars, blockVars, Leave
<1>4. /\ \A q \in Procs : q # p => h_buf'[q] = h_buf[q]
      /\ x # "open" => h_buf'[p] = h_buf[p]
  BY <1>1, Groups DEF Struct, Base, ProcType, Places, jbdbf_journal_release_buffer, Goto, Leave
<1>5. /\ x \in {"granted", "created", "modified"} => Holding(p)
      /\ x \in {"access", "alloc", "shadow", "queued", "asleep"} => Waiting(p)
  BY <1>1 DEF Holding, Waiting, jbdbf_journal_release_buffer
<1> QED
  BY <1>1, <1>2, <1>3, <1>4, <1>5, QuietStep

-----------------------------------------------------------------------------
(* Changing a buffer keeps the buffers sound. *)

\* Modify
LEMMA ModifyStruct ==
  ASSUME Struct, NEW p \in Procs, Modify(p)
  PROVE  Struct'
<1>1. PICK b \in Blocks : h_buf[p] = b
  BY ModifyEffect DEF Struct
<1> DEFINE s == buf[b]
           r == buf'[b]
<1>2. /\ Touches(b)
      /\ r \in Buffer /\ r.b_transaction = s.b_transaction
      /\ r.b_next_transaction = s.b_next_transaction /\ r.b_jlist = s.b_jlist
      /\ r.b_modified = s.b_modified /\ r.b_frozen_data = s.b_frozen_data
      /\ r.b_cp_transaction = s.b_cp_transaction /\ r.data = version + 1 /\ r.dirty = s.dirty
      /\ r.jbddirty = s.jbddirty /\ r.freed = s.freed /\ r.bug = s.bug
  BY <1>1, ModifyEffect DEF Struct
<1>3. Base' /\ Works(p) /\ Holding(p)
  BY ModifyBase DEF Struct, Modify, Works, Holding
<1>4. /\ UNCHANGED <<running, committing, last, phase, todo, committed, closed, tagged>>
      /\ UNCHANGED <<aborted, use, freed, io, log, wrote, h_tid, h_buf>>
      /\ pc' = [pc EXCEPT ![p] = "modified"]
  BY DEF Modify, Goto, commitVars, blockVars
<1>5. pc'[p] = "modified"
  BY <1>4, Groups DEF Struct, Base, ProcType
<1>6. Sound(b) /\ Owner(p)
  BY DEF Struct, ListInv, OwnInv
<1>7. Sound(b)'
  <2>1. Listed(b)' /\ (~aborted => Bits(b)')
    BY <1>2, <1>4, <1>6 DEF Sound, Listed, Bits, PhaseLists
  <2>2. Traced(b)' /\ Clean(b)'
    BY <1>2, <1>4, <1>6 DEF Sound, Traced, Clean, On
  <2>3. Kept(b)'
    <3>1. Logging(b)' <=> Logging(b)
      BY <1>2, <1>4 DEF Logging
    <3>2. use[b] = "used" /\ h_tid[p] = running /\ running # 0
      BY <1>1, Working DEF Struct, Modify
    <3>3. running # committing
      BY <3>2 DEF Struct, Base, TidInv
    <3>4. ~aborted /\ Logging(b) => s.b_frozen_data # None
      BY <1>1, <1>3, <1>6, <3>2, <3>3 DEF Sound, Owner, Listed, Traced, Logging
    <3>5. ~aborted /\ Logging(b) => Copied(b)' = Copied(b)
      BY <1>2, <3>4 DEF Copied
    <3> QED
      BY <1>4, <3>1, <3>5, KeptFrame
  <2> QED
    BY <1>4, <2>1, <2>2, <2>3 DEF Sound
<1>8. Owner(p)'
  BY <1>1, <1>2, <1>3, <1>4, <1>5, <1>6 DEF Owner, Waiting, Holding
<1>9. Keeps(b) /\ "modified" \in Places \ {"idle", "new", "shrunk"}
  BY <1>2 DEF Keeps, Places
<1>10. Elsewhere(b)
  BY <1>2, <1>4 DEF Touches, Elsewhere
<1> QED
  BY <1>1, <1>2, <1>3, <1>4, <1>7, <1>8, <1>9, <1>10, WorkStep

\* What dirty_metadata does to a buffer that its transaction has, now or next.
LEMMA DirtyKept ==
  ASSUME Struct, NEW p \in Procs, Dirties(p), ~aborted, NEW b \in Blocks, h_buf[p] = b,
         UNCHANGED <<running, committing, last, phase, todo, committed, closed, tagged>>,
         UNCHANGED <<aborted, use, freed, io, log>>
  PROVE  /\ Touches(b) /\ Elsewhere(b) /\ Keeps(b) /\ Sound(b)'
         /\ running \in {buf'[b].b_transaction, buf'[b].b_next_transaction}
<1> DEFINE s == buf[b]
           r == buf'[b]
<1>1. /\ Touches(b) /\ r = Metadata(s, running) /\ Holding(p)
      /\ running \in 0 .. MaxTid /\ h_tid[p] = running /\ running # 0 /\ wrote' = wrote \cup {b}
  BY DirtyEffect DEF Struct
<1>2. s \in Buffer
  BY Groups DEF Struct, Base, BufType
<1>3. /\ Listed(b) /\ Bits(b) /\ Traced(b) /\ ~s.dirty
      /\ running \in {s.b_transaction, s.b_next_transaction}
  BY <1>1 DEF Struct, ListInv, Sound, OwnInv, Owner
<1>4. running # committing
  BY <1>1 DEF Struct, Base, TidInv
<1>8. Elsewhere(b) /\ use[b] = "used"
  BY <1>1, Working DEF Touches, Elsewhere, Holding, Struct
<1>9. /\ r.b_transaction = s.b_transaction /\ r.b_next_transaction = s.b_next_transaction
      /\ s.b_transaction # running => r.b_jlist = s.b_jlist /\ r.b_modified
      /\ s.b_transaction = running => r.b_jlist = "Metadata"
      /\ r.b_frozen_data = s.b_frozen_data /\ r.data = s.data /\ r.freed = s.freed /\ ~r.dirty
      => Traced(b)' /\ Kept(b)' /\ Clean(b)'
  <2> SUFFICES ASSUME
      /\ r.b_transaction = s.b_transaction /\ r.b_next_transaction = s.b_next_transaction
      /\ s.b_transaction # running => r.b_jlist = s.b_jlist /\ r.b_modified
      /\ s.b_transaction = running => r.b_jlist = "Metadata"
      /\ r.b_frozen_data = s.b_frozen_data /\ r.data = s.data /\ r.freed = s.freed /\ ~r.dirty
      PROVE Traced(b)' /\ Kept(b)' /\ Clean(b)'
    OBVIOUS
  <2>1. Traced(b)'
    BY <1>1, <1>3, <1>4, <1>8 DEF Traced, Listed
  <2>2. Clean(b)'
    BY <1>8 DEF Clean, On
  <2>3. (Logging(b)' <=> Logging(b)) /\ Copied(b)' = Copied(b)
    BY <1>4 DEF Logging, Copied
  <2>4. Kept(b)'
    BY <2>3, KeptFrame
  <2> QED
    BY <2>1, <2>2, <2>4
<1>5. CASE s.b_transaction = running /\ s.b_jlist = "Metadata"
  <2>1. /\ r \in Buffer /\ r.b_transaction = s.b_transaction
        /\ r.b_next_transaction = s.b_next_transaction /\ r.b_jlist = s.b_jlist /\ r.b_modified
        /\ r.b_frozen_data = s.b_frozen_data /\ r.b_cp_transaction = s.b_cp_transaction
        /\ r.data = s.data /\ r.dirty = s.dirty /\ r.jbddirty = s.jbddirty /\ r.freed = s.freed
        /\ r.bug = (s.bug \/ running # running)
    BY <1>1, <1>2, <1>5, MetadataAgain
  <2>2. Listed(b)' /\ Bits(b)'
    BY <1>1, <1>2, <1>3, <1>4, <1>5, <2>1 DEF Listed, Bits, PhaseLists
  <2>3. Traced(b)' /\ Kept(b)' /\ Clean(b)'
    BY <1>3, <1>5, <1>9, <2>1
  <2> QED
    BY <1>1, <1>3, <1>8, <2>1, <2>2, <2>3 DEF Keeps, Sound
<1>6. CASE s.b_transaction # running
  <2>1. /\ r \in Buffer /\ r.b_transaction = s.b_transaction
        /\ r.b_next_transaction = s.b_next_transaction /\ r.b_jlist = s.b_jlist /\ r.b_modified
        /\ r.b_frozen_data = s.b_frozen_data /\ r.b_cp_transaction = s.b_cp_transaction
        /\ r.data = s.data /\ r.dirty = s.dirty /\ r.jbddirty /\ r.freed = s.freed
        /\ r.bug = (s.bug \/ ~(s.b_transaction = committing /\ s.b_next_transaction = running))
    BY <1>1, <1>2, <1>6, MetadataOlder
  <2>2. s.b_next_transaction = running /\ s.b_transaction = committing /\ committing # 0
    BY <1>1, <1>3, <1>6 DEF Listed
  <2>3. Listed(b)'
    BY <1>1, <1>3, <2>1, <2>2 DEF Listed, PhaseLists
  <2>4. Bits(b)'
    BY <1>1, <1>3, <2>1, <2>2 DEF Bits
  <2>5. Traced(b)' /\ Kept(b)' /\ Clean(b)'
    BY <1>3, <1>6, <1>9, <2>1
  <2> QED
    BY <1>1, <1>3, <1>8, <2>1, <2>3, <2>4, <2>5 DEF Keeps, Sound
<1>7. CASE s.b_transaction = running /\ s.b_jlist # "Metadata"
  <2>1. /\ r \in Buffer /\ r.b_transaction = s.b_transaction
        /\ r.b_next_transaction = s.b_next_transaction /\ r.b_jlist = "Metadata" /\ r.b_modified
        /\ r.b_frozen_data = s.b_frozen_data /\ r.b_cp_transaction = s.b_cp_transaction
        /\ r.data = s.data /\ r.dirty = (s.dirty /\ s.b_jlist # "None") /\ r.jbddirty
        /\ r.freed = s.freed /\ r.bug = (s.bug \/ s.b_frozen_data # None)
    BY <1>1, <1>2, <1>7, MetadataFiled
  <2>2. Listed(b)'
    BY <1>1, <1>3, <1>4, <1>7, <2>1 DEF Listed, PhaseLists
  <2>3. Bits(b)'
    BY <1>1, <1>3, <1>4, <1>7, <2>1, <2>2, Fields DEF Bits, Listed
  <2>4. Traced(b)' /\ Kept(b)' /\ Clean(b)'
    BY <1>3, <1>7, <1>9, <2>1
  <2> QED
    BY <1>1, <1>3, <1>7, <1>8, <2>1, <2>2, <2>3, <2>4 DEF Keeps, Sound
<1> QED
  BY <1>5, <1>6, <1>7

\* jbdbf_journal_dirty_metadata
LEMMA DirtyStruct ==
  ASSUME Struct, NEW p \in Procs, jbdbf_journal_dirty_metadata(p)
  PROVE  Struct'
<1>1. PICK b \in Blocks : h_buf[p] = b
  BY DirtyEffect DEF Struct, Dirties
<1>2. /\ UNCHANGED <<running, committing, last, phase, todo, committed, closed, tagged>>
      /\ UNCHANGED <<aborted, use, freed, io, log, h_tid>>
      /\ Dirties(p) /\ Base' /\ Works(p) /\ Holding(p) /\ h_tid[p] = running
  BY DirtyBase, DirtyEffect DEF jbdbf_journal_dirty_metadata, Dirties, commitVars, blockVars, Leave, Struct
<1>3. /\ pc' = [pc EXCEPT ![p] = "open"] /\ "open" \in Places \ {"idle", "new", "shrunk"}
      /\ \A q \in Procs : q # p => h_buf'[q] = h_buf[q]
      /\ "open" # "open" => h_buf'[p] = h_buf[p]
      /\ pc'[p] = "open" /\ h_tid'[p] = h_tid[p]
  BY <1>2, Groups DEF jbdbf_journal_dirty_metadata, Goto, Leave, Places, Struct, Base, ProcType
<1>4. CASE aborted
  <2>1. buf' = buf /\ wrote' = wrote
    BY <1>4 DEF jbdbf_journal_dirty_metadata
  <2> QED
    BY <1>2, <1>3, <2>1, QuietStep
<1>5. CASE ~aborted
  <2>1. /\ Touches(b) /\ Elsewhere(b) /\ Keeps(b) /\ Sound(b)'
        /\ running \in {buf'[b].b_transaction, buf'[b].b_next_transaction}
    BY <1>1, <1>2, <1>5, DirtyKept
  <2>2. running # 0 /\ Owner(p)
    BY <1>2, DirtyEffect DEF Struct, OwnInv
  <2>3. Owner(p)'
    BY <1>1, <1>2, <1>3, <2>1, <2>2 DEF Owner, Waiting, Holding, Keeps
  <2> QED
    BY <1>1, <1>2, <1>3, <2>1, <2>3, WorkStep
<1> QED
  BY <1>4, <1>5

\* DirtyAgain
LEMMA DirtyAgainStruct ==
  ASSUME Struct, NEW p \in Procs, DirtyAgain(p)
  PROVE  Struct'
<1>1. PICK b \in Blocks : h_buf[p] = b
  BY DirtyEffect DEF Struct, Dirties
<1>2. /\ UNCHANGED <<running, committing, last, phase, todo, committed, closed, tagged>>
      /\ UNCHANGED <<aborted, use, freed, io, log, h_tid>>
      /\ Dirties(p) /\ Base' /\ Works(p) /\ Holding(p) /\ h_tid[p] = running
  BY DirtyAgainBase, DirtyEffect DEF DirtyAgain, Dirties, commitVars, blockVars, Leave, Struct
<1>3. /\ pc' = [pc EXCEPT ![p] = "granted"] /\ "granted" \in Places \ {"idle", "new", "shrunk"}
      /\ \A q \in Procs : q # p => h_buf'[q] = h_buf[q]
      /\ "granted" # "open" => h_buf'[p] = h_buf[p]
      /\ pc'[p] = "granted" /\ h_tid'[p] = h_tid[p]
  BY <1>2, Groups DEF DirtyAgain, Goto, Leave, Places, Struct, Base, ProcType
<1>4. CASE aborted
  <2>1. buf' = buf /\ wrote' = wrote
    BY <1>4 DEF DirtyAgain
  <2> QED
    BY <1>2, <1>3, <2>1, QuietStep
<1>5. CASE ~aborted
  <2>1. /\ Touches(b) /\ Elsewhere(b) /\ Keeps(b) /\ Sound(b)'
        /\ running \in {buf'[b].b_transaction, buf'[b].b_next_transaction}
    BY <1>1, <1>2, <1>5, DirtyKept
  <2>2. running # 0 /\ Owner(p)
    BY <1>2, DirtyEffect DEF Struct, OwnInv
  <2>3. Owner(p)'
    BY <1>1, <1>2, <1>3, <2>1, <2>2 DEF Owner, Waiting, Holding, Keeps
  <2> QED
    BY <1>1, <1>2, <1>3, <2>1, <2>3, WorkStep
<1> QED
  BY <1>4, <1>5

\* jbdbf_journal_dirty_data
LEMMA AppendedStruct ==
  ASSUME Struct, NEW p \in Procs, jbdbf_journal_dirty_data(p)
  PROVE  Struct'
<1>1. PICK b \in Blocks : h_buf[p] = b
  BY AppendedEffect DEF Struct
<1> DEFINE s == buf[b]
           n == [s EXCEPT !.data = version + 1]
           r == buf'[b]
<1>2. /\ Touches(b) /\ r = (IF aborted THEN n ELSE Dirtydata(n, running)) /\ b \in Data
      /\ running \in 0 .. MaxTid /\ h_tid[p] = running /\ running # 0 /\ n \in Buffer
  BY <1>1, AppendedEffect DEF Struct
<1>3. s \in Buffer /\ Listed(b) /\ (~aborted => Bits(b)) /\ Traced(b)
  BY Groups DEF Struct, Base, BufType, ListInv, Sound
<1>4. /\ n.b_transaction = s.b_transaction /\ n.b_next_transaction = s.b_next_transaction
      /\ n.b_jlist = s.b_jlist /\ n.b_frozen_data = s.b_frozen_data
      /\ n.dirty = s.dirty /\ n.jbddirty = s.jbddirty /\ n.freed = s.freed /\ n.bug = s.bug
  BY <1>3 DEF Buffer
<1>5. s.b_transaction = running /\ s.b_jlist = "Reserved" /\ s.b_next_transaction = 0
  <2>1. s.b_transaction = running /\ s.b_jlist = "Reserved"
    BY <1>1, <1>2 DEF Struct, OwnInv, Owner, jbdbf_journal_dirty_data
  <2> QED
    BY <1>2, <1>3, <2>1 DEF Listed, Struct, Base, TidInv
<1> HIDE DEF n
<1>6. /\ UNCHANGED <<running, committing, last, phase, todo, committed, closed, tagged>>
      /\ UNCHANGED <<aborted, use, freed, io, log, wrote, h_tid>>
      /\ pc' = [pc EXCEPT ![p] = "open"] /\ "open" \in Places \ {"idle", "new", "shrunk"}
      /\ Base' /\ Works(p)
  BY AppendedBase DEF jbdbf_journal_dirty_data, Leave, Goto, Places, Works, commitVars, blockVars, Struct
<1>7. (\A q \in Procs : q # p => h_buf'[q] = h_buf[q]) /\ pc'[p] = "open"
  BY <1>6, Groups DEF jbdbf_journal_dirty_data, Leave, Struct, Base, ProcType
<1>8. Owner(p)'
  BY <1>7 DEF Owner, Waiting, Holding
<1>11. use[b] = "used" /\ running # committing
  BY <1>1, <1>2, Working DEF jbdbf_journal_dirty_data, Struct, Base, TidInv
<1>12. Elsewhere(b)
  BY <1>2, <1>6 DEF Touches, Elsewhere
<1>13. Kept(b)'
  <2>1. r.b_transaction = running
    BY <1>2, <1>4, <1>5, DirtydataFiled
  <2>2. ~Logging(b)' /\ ~Logging(b)
    BY <1>5, <1>6, <1>11, <2>1 DEF Logging
  <2> QED
    BY <1>6, <2>2, KeptFrame
<1>9. Sound(b)'
  <2>1. CASE aborted
    <3>1. Listed(b)'
      BY <1>2, <1>3, <1>4, <1>6, <2>1 DEF Listed, PhaseLists
    <3>2. Traced(b)' /\ Clean(b)'
      BY <1>2, <1>3, <1>4, <1>5, <1>6, <1>11, <2>1 DEF Traced, Clean, On
    <3> QED
      BY <1>6, <1>13, <2>1, <3>1, <3>2 DEF Sound
  <2>2. CASE ~aborted
    <3>1. /\ r.b_transaction = running /\ r.b_next_transaction = 0 /\ r.b_jlist = "Dirtydata"
          /\ r.b_frozen_data = s.b_frozen_data /\ r.dirty /\ ~r.jbddirty /\ r.bug = s.bug
          /\ r.freed = s.freed
      BY <1>2, <1>4, <1>5, <2>2, DirtydataFiled
    <3>2. Listed(b)'
      BY <1>2, <1>3, <1>5, <1>6, <3>1 DEF Listed, PhaseLists, Struct, Base, TidInv
    <3>3. Bits(b)'
      BY <1>2, <1>3, <1>5, <1>6, <2>2, <3>1 DEF Bits, Struct, Base, TidInv
    <3>4. Traced(b)'
      BY <1>2, <1>3, <1>5, <1>6, <1>11, <2>2, <3>1 DEF Traced, Listed
    <3>5. Clean(b)'
      BY <1>6, <1>11, <3>1 DEF Clean, On
    <3> QED
      BY <1>13, <3>2, <3>3, <3>4, <3>5 DEF Sound
  <2> QED
    BY <2>1, <2>2
<1>10. b \notin Meta
  BY <1>2, ConstantsAssumption
<1> QED
  BY <1>1, <1>2, <1>6, <1>7, <1>8, <1>9, <1>10, <1>12, WorkStep

-----------------------------------------------------------------------------
(* What a process does that works on no buffer yet *)

\* A process that has a handle asks for a buffer, allocates a block or frees one; no
\* other process has that block, or it is metadata and its buffer is as it was.
LEMMA OpenStep ==
  ASSUME Struct, Base', NEW p \in Procs, pc[p] = "open", NEW b \in Blocks,
         NEW x \in Places \ {"idle"},
         Elsewhere(b), UNCHANGED h_tid,
         pc' = [pc EXCEPT ![p] = x],
         \A q \in Procs : q # p => h_buf'[q] = h_buf[q],
         x \notin {"open", "shrunk"} => h_buf'[p] = b,
         \/ \A q \in Procs : Works(q) => h_buf[q] # b
         \/ b \in Meta /\ buf'[b] = buf[b] /\ x \notin {"new"},
         Touches(b), Sound(b)', Owner(p)'
  PROVE  Struct'
<1>0. pc \in [Procs -> Places] /\ Meta \cap Data = {}
  BY Groups, ConstantsAssumption DEF Struct, Base, ProcType
<1>1. \A q \in Procs : q # p => pc'[q] = pc[q] /\ h_buf'[q] = h_buf[q] /\ h_tid'[q] = h_tid[q]
  BY <1>0
<1>2. pc'[p] = x /\ (x \notin {"open", "shrunk"} => h_buf'[p] = b)
  BY <1>0
<1>3. Alone'
  <2> SUFFICES ASSUME NEW q \in Procs, NEW r \in Procs, q # r, Works(q)', Works(r)',
                      h_buf'[q] = h_buf'[r]
               PROVE  h_buf'[q] \in Meta
    BY DEF Alone
  <2>1. CASE q # p /\ r # p
    BY <1>1, <2>1 DEF Struct, Alone, Works
  <2>2. CASE q = p
    BY <1>1, <1>2, <2>2 DEF Works
  <2>3. CASE r = p
    BY <1>1, <1>2, <2>3 DEF Works
  <2> QED
    BY <2>1, <2>2, <2>3
<1>4. ListInv'
  BY ListFrame
<1>5. OwnInv'
  <2> SUFFICES ASSUME NEW q \in Procs, q # p PROVE Owner(q)'
    BY DEF OwnInv
  <2>1. pc'[q] = pc[q] /\ h_buf'[q] = h_buf[q] /\ h_tid'[q] = h_tid[q] /\ Owner(q)
    BY <1>1 DEF Struct, OwnInv
  <2>2. Listed(b)
    BY DEF Struct, ListInv, Sound
  <2>3. CASE Works(q) /\ h_buf[q] = b
    <3>1. buf'[b] = buf[b]
      BY <2>3
    <3>2. Keeps(b)
      BY <3>1 DEF Keeps
    <3> QED
      BY <2>1, <2>2, <3>1, <3>2, OwnFrame DEF Struct, Elsewhere
  <2>4. CASE ~(Works(q) /\ h_buf[q] = b)
    <3>1. pc[q] = "new" => h_buf[q] # b
      BY <2>4 DEF Works
    <3> QED
      BY <2>1, <2>2, <2>4, <3>1, OwnFrame DEF Struct, Elsewhere
  <2> QED
    BY <2>3, <2>4
<1> QED
  BY <1>3, <1>4, <1>5 DEF Struct

\* A block that can be allocated has a buffer that is on no list, and no process.
LEMMA AvailableClean ==
  ASSUME Struct, NEW b \in Blocks, Available(b)
  PROVE  /\ buf[b].b_transaction = 0 /\ buf[b].b_next_transaction = 0
         /\ buf[b].b_jlist = "None" /\ io[b] = "none"
         /\ \A q \in Procs : Works(q) => h_buf[q] # b
<1>1. Listed(b) /\ buf[b] \in Buffer /\ CommitType /\ FsType
  BY Groups DEF Struct, ListInv, Sound, Base, BufType
<1>2. \A q \in Procs : Works(q) => use[h_buf[q]] = "used"
  BY Working DEF Struct, Works
<1>3. CASE use[b] = "free"
  BY <1>1, <1>2, <1>3 DEF Listed
<1>4. CASE use[b] = "freed" /\ freed[b] \in committed /\ freed[b] # committing
  <2>1. /\ running # 0 => freed[b] < running
        /\ committing # 0 => freed[b] < committing
    BY <1>1, <1>4 DEF Struct, Base, TidInv, CommitType, FsType
  <2>2. buf[b].b_transaction = 0
    BY <1>1, <1>4, <2>1, Fields DEF Listed, CommitType, FsType
  <2> QED
    BY <1>1, <1>2, <1>4, <2>2 DEF Listed
<1> QED
  BY <1>3, <1>4 DEF Available


\* jbdbf_journal_start
LEMMA StartStruct ==
  ASSUME Struct, NEW p \in Procs, jbdbf_journal_start(p)
  PROVE  Struct'
<1>1. /\ UNCHANGED <<committing, phase, todo, committed, closed, tagged>>
      /\ UNCHANGED <<aborted, use, freed, io, log, h_buf, buf>>
      /\ pc' = [pc EXCEPT ![p] = "open"] /\ h_tid' = [h_tid EXCEPT ![p] = running'] /\ Base'
  BY StartBase DEF jbdbf_journal_start, Goto, blockVars, Struct
<1>2. /\ pc'[p] = "open"
      /\ \A q \in Procs : q # p => pc'[q] = pc[q] /\ h_tid'[q] = h_tid[q]
  BY <1>1, Groups DEF Struct, Base, ProcType
<1>3. Alone'
  BY <1>1, <1>2 DEF Struct, Alone, Works
<1>4. CASE running # 0
  <2>1. running' = running /\ last' = last /\ wrote' = wrote
    BY <1>4 DEF jbdbf_journal_start
  <2>2. ListInv'
    BY <1>1, <2>1 DEF Struct, ListInv, Sound, Listed, Bits, PhaseLists, Traced, Kept, Logging,
                      Copied, Clean, On
  <2>3. OwnInv'
    BY <1>1, <1>2, <2>1 DEF Struct, OwnInv, Owner, Waiting, Holding
  <2> QED
    BY <1>1, <1>3, <2>2, <2>3 DEF Struct
<1>5. CASE running = 0
  <2>1. /\ running' = last + 1 /\ last' = last + 1 /\ wrote' = {}
        /\ last \in 0 .. MaxTid /\ committing \in 0 .. MaxTid
    BY <1>5, Groups DEF jbdbf_journal_start, Struct, Base, CommitType
  <2>2. \A q \in Procs : ~Waiting(q) /\ ~Holding(q) /\ pc[q] # "new"
    BY <1>5, Working DEF Struct, Waiting, Holding
  <2>3. OwnInv'
    BY <1>2, <2>2 DEF OwnInv, Owner, Waiting, Holding
  <2>4. ListInv'
    <3> SUFFICES ASSUME NEW b \in Blocks PROVE Sound(b)'
      BY DEF ListInv
    <3>1. /\ Listed(b) /\ (~aborted => Bits(b)) /\ Traced(b) /\ Kept(b) /\ Clean(b)
          /\ buf[b] \in Buffer
      BY Groups DEF Struct, ListInv, Sound, Base, BufType
    <3>2. /\ buf[b].b_transaction \in {0, committing} /\ buf[b].b_next_transaction = 0
          /\ running' # committing /\ running' # 0
      BY <1>5, <2>1, <3>1 DEF Struct, Base, TidInv, Listed
    <3>3. Listed(b)'
      BY <1>1, <3>1, <3>2 DEF Listed, PhaseLists
    <3>4. ~aborted => Bits(b)'
      BY <1>1, <3>1 DEF Bits
    <3>5. Traced(b)' /\ Clean(b)'
      BY <1>1, <2>1, <3>1, <3>2 DEF Traced, Clean, On
    <3>6. Kept(b)'
      <4>1. \A t \in Tids : t > last' \/ t = running' => t > last
        BY <2>1, Constant DEF Tids
      <4> QED
        BY <1>1, <3>1, <4>1 DEF Kept, Logging, Copied
    <3> QED
      BY <1>1, <3>3, <3>4, <3>5, <3>6 DEF Sound
  <2> QED
    BY <1>1, <1>3, <2>3, <2>4 DEF Struct
<1> QED
  BY <1>4, <1>5

\* jbdbf_journal_stop
LEMMA StopStruct ==
  ASSUME Struct, NEW p \in Procs, jbdbf_journal_stop(p)
  PROVE  Struct'
<1>1. /\ UNCHANGED <<running, committing, last, phase, todo, committed, closed, tagged>>
      /\ UNCHANGED <<aborted, use, freed, io, log, wrote, buf>> /\ Base'
      /\ pc' = [pc EXCEPT ![p] = "idle"] /\ h_tid' = [h_tid EXCEPT ![p] = 0]
      /\ h_buf' = [h_buf EXCEPT ![p] = "none"]
  BY StopBase DEF jbdbf_journal_stop, Goto, commitVars, blockVars, Struct
<1>2. /\ pc'[p] = "idle"
      /\ \A q \in Procs : q # p => pc'[q] = pc[q] /\ h_tid'[q] = h_tid[q] /\ h_buf'[q] = h_buf[q]
  BY <1>1, Groups DEF Struct, Base, ProcType
<1>3. Alone'
  BY <1>2 DEF Struct, Alone, Works
<1>4. ListInv'
  BY <1>1 DEF Struct, ListInv, Sound, Listed, Bits, PhaseLists, Traced, Kept, Logging, Copied,
              Clean, On
<1>5. OwnInv'
  <2> SUFFICES ASSUME NEW q \in Procs PROVE Owner(q)'
    BY DEF OwnInv
  <2>1. CASE q = p
    BY <1>2, <2>1 DEF Owner, Waiting, Holding
  <2>2. CASE q # p
    BY <1>1, <1>2, <2>2 DEF Struct, OwnInv, Owner, Waiting, Holding
  <2> QED
    BY <2>1, <2>2
<1> QED
  BY <1>1, <1>3, <1>4, <1>5 DEF Struct

\* GetWriteAccess: the dirty bit of a file block is taken away.
LEMMA GetStruct ==
  ASSUME Struct, NEW p \in Procs, NEW b \in Blocks, GetWriteAccess(p, b)
  PROVE  Struct'
<1> DEFINE s == buf[b]
           r == buf'[b]
<1>1. /\ UNCHANGED <<running, committing, last, phase, todo, committed, closed, tagged>>
      /\ UNCHANGED <<aborted, use, freed, io, log, wrote, h_tid>> /\ Base' /\ use[b] = "used"
      /\ pc[p] = "open" /\ pc' = [pc EXCEPT ![p] = "access"]
      /\ h_buf' = [h_buf EXCEPT ![p] = b] /\ "access" \in Places \ {"idle"}
  BY GetBase DEF GetWriteAccess, Goto, commitVars, blockVars, Struct, Places
<1>2. /\ pc'[p] = "access" /\ h_buf'[p] = b
      /\ \A q \in Procs : q # p => h_buf'[q] = h_buf[q]
  BY <1>1, Groups DEF Struct, Base, ProcType
<1>3. /\ s \in Buffer /\ Listed(b) /\ (~aborted => Bits(b)) /\ buf \in [Blocks -> Buffer]
      /\ Traced(b) /\ Kept(b) /\ Clean(b)
  BY Groups DEF Struct, Base, BufType, ListInv, Sound
<1>4. /\ b \in Data => \A q \in Procs : h_buf[q] # b
      /\ s.b_jlist = "Dirtydata" => s.b_transaction # committing
  BY DEF GetWriteAccess, At, On, Struct
<1>5. CASE b \in Data
  <2> DEFINE n == [s EXCEPT !.dirty = FALSE]
  <2>1. buf' = [buf EXCEPT ![b] = n]
    BY <1>5 DEF GetWriteAccess
  <2>2. /\ n \in Buffer /\ n.b_transaction = s.b_transaction
        /\ n.b_next_transaction = s.b_next_transaction /\ n.b_jlist = s.b_jlist
        /\ n.b_modified = s.b_modified /\ n.b_frozen_data = s.b_frozen_data
        /\ n.b_cp_transaction = s.b_cp_transaction /\ n.data = s.data /\ ~n.dirty
        /\ n.jbddirty = s.jbddirty /\ n.freed = s.freed /\ n.bug = s.bug
    BY <1>3 DEF Buffer
  <2> HIDE DEF n
  <2>3. Touches(b) /\ r = n
    BY <2>1, <2>2, OneBuffer DEF Struct, Base
  <2>4. Sound(b)'
    <3>1. Listed(b)' /\ (~aborted => Bits(b)')
      BY <1>1, <1>3, <2>2, <2>3 DEF Listed, Bits, PhaseLists
    <3>2. Traced(b)' /\ Clean(b)'
      BY <1>1, <1>3, <2>2, <2>3 DEF Traced, Clean, On
    <3>3. (Logging(b)' <=> Logging(b)) /\ Copied(b)' = Copied(b)
      BY <1>1, <2>2, <2>3 DEF Logging, Copied
    <3>4. Kept(b)'
      BY <1>1, <3>3, KeptFrame
    <3> QED
      BY <1>1, <3>1, <3>2, <3>4 DEF Sound
  <2>5. Owner(p)'
    BY <1>1, <1>2, <1>4, <2>2, <2>3 DEF Owner, Waiting, Holding
  <2>6. Elsewhere(b)
    BY <1>1, <2>3 DEF Touches, Elsewhere
  <2> QED
    BY <1>1, <1>2, <1>4, <1>5, <2>3, <2>4, <2>5, <2>6, OpenStep DEF Works
<1>6. CASE b \notin Data
  <2>1. buf' = buf /\ b \in Meta
    BY <1>6 DEF GetWriteAccess, Blocks
  <2>2. Touches(b) /\ Sound(b)'
    BY <1>1, <1>3, <2>1 DEF Touches, Sound, Listed, Bits, PhaseLists, Traced, Kept, Logging,
                            Copied, Clean, On
  <2>3. Owner(p)'
    BY <1>1, <1>2, <1>3, <1>6, <2>1 DEF Owner, Waiting, Holding, Listed
  <2>4. Elsewhere(b)
    BY <1>1, <2>1 DEF Elsewhere
  <2> QED
    BY <1>1, <1>2, <2>1, <2>2, <2>3, <2>4, OpenStep
<1> QED
  BY <1>5, <1>6


\* jbdbf_journal_get_create_access
LEMMA CreateStruct ==
  ASSUME Struct, NEW p \in Procs, NEW b \in Blocks, jbdbf_journal_get_create_access(p, b)
  PROVE  Struct'
<1> DEFINE s == buf[b]
           r == buf'[b]
<1>1. /\ UNCHANGED <<running, committing, last, phase, todo, committed, closed, tagged>>
      /\ UNCHANGED <<aborted, io, log, wrote, h_tid>> /\ Base' /\ ~aborted
      /\ pc[p] = "open" /\ pc' = [pc EXCEPT ![p] = "created"]
      /\ h_buf' = [h_buf EXCEPT ![p] = b] /\ "created" \in Places \ {"idle"} /\ Available(b)
  BY CreateBase DEF jbdbf_journal_get_create_access, Goto, commitVars, Struct, Places
<1>2. /\ pc'[p] = "created" /\ h_buf'[p] = b /\ h_tid'[p] = running
      /\ \A q \in Procs : q # p => h_buf'[q] = h_buf[q]
  BY <1>1, Groups DEF Struct, Base, ProcType, HandleInv
<1>3. s \in Buffer /\ Listed(b) /\ Bits(b) /\ Traced(b) /\ buf \in [Blocks -> Buffer]
  BY <1>1, Groups DEF Struct, Base, BufType, ListInv, Sound
<1>4. /\ s.b_transaction = 0 /\ s.b_next_transaction = 0 /\ s.b_jlist = "None" /\ io[b] = "none"
      /\ \A q \in Procs : Works(q) => h_buf[q] # b
  BY <1>1, AvailableClean
<1>5. running # 0 /\ running # committing /\ h_tid[p] = running /\ running \in 0 .. MaxTid
  BY <1>1, <1>2, Groups DEF Struct, Base, HandleInv, TidInv, CommitType
<1>6. buf' = [buf EXCEPT ![b] = CreateAccess(s, running)]
  BY <1>5 DEF jbdbf_journal_get_create_access
<1> DEFINE n == CreateAccess(s, running)
<1>7. /\ n \in Buffer /\ n.b_transaction = running /\ n.b_next_transaction = s.b_next_transaction
      /\ n.b_jlist = "Reserved" /\ ~n.b_modified /\ n.b_frozen_data = s.b_frozen_data
      /\ n.b_cp_transaction = s.b_cp_transaction /\ n.data = s.data /\ ~n.dirty
      /\ n.jbddirty = s.jbddirty /\ n.freed = s.freed
      /\ n.bug = (s.bug \/ s.b_next_transaction # 0)
  BY <1>3, <1>4, <1>5, CreateFiled
<1> HIDE DEF n
<1>8. Touches(b) /\ r = n
  BY <1>6, <1>7, OneBuffer DEF Struct, Base, n
<1>9. /\ use'[b] = "used"
      /\ \A c \in Blocks : c # b => use'[c] = use[c] /\ freed'[c] = freed[c]
  BY Groups DEF jbdbf_journal_get_create_access, Allocate, Struct, Base, FsType
<1>10. Sound(b)'
  <2>1. Listed(b)'
    BY <1>1, <1>3, <1>4, <1>5, <1>7, <1>8, <1>9 DEF Listed, PhaseLists
  <2>2. Bits(b)'
    BY <1>1, <1>3, <1>4, <1>5, <1>7, <1>8, Fields DEF Bits
  <2>3. b \notin wrote /\ ~n.freed
    BY <1>1, <1>3, <1>7, ConstantsAssumption DEF Traced, Available, jbdbf_journal_get_create_access
  <2>4. Traced(b)'
    BY <1>1, <1>4, <1>5, <1>7, <1>8, <1>9, <2>3 DEF Traced
  <2>5. Clean(b)'
    BY <1>7, <1>8, <1>9 DEF Clean, On
  <2>6. ~Logging(b)' /\ ~Logging(b)
    BY <1>4, <1>7, <1>8 DEF Logging
  <2>7. Kept(b)'
    BY <1>1, <2>6, KeptFrame
  <2> QED
    BY <2>1, <2>2, <2>4, <2>5, <2>7 DEF Sound
<1>11. Owner(p)'
  BY <1>1, <1>2, <1>5, <1>7, <1>8 DEF Owner, Waiting, Holding
<1>12. Elsewhere(b)
  BY <1>1, <1>8, <1>9 DEF Touches, Elsewhere
<1> QED
  BY <1>1, <1>2, <1>4, <1>8, <1>10, <1>11, <1>12, OpenStep


\* Append
LEMMA AppendStruct ==
  ASSUME Struct, NEW p \in Procs, NEW b \in Blocks, Append(p, b)
  PROVE  Struct'
<1> DEFINE s == buf[b]
           r == buf'[b]
<1>1. /\ UNCHANGED <<running, committing, last, phase, todo, committed, closed, tagged>>
      /\ UNCHANGED <<aborted, io, log, wrote, h_tid>> /\ Base' /\ ~aborted
      /\ pc[p] = "open" /\ pc' = [pc EXCEPT ![p] = "new"]
      /\ h_buf' = [h_buf EXCEPT ![p] = b] /\ "new" \in Places \ {"idle"} /\ Available(b)
  BY AppendBase DEF Append, Goto, commitVars, Struct, Places
<1>2. /\ pc'[p] = "new" /\ h_buf'[p] = b /\ h_tid'[p] = running
      /\ \A q \in Procs : q # p => h_buf'[q] = h_buf[q]
  BY <1>1, Groups DEF Struct, Base, ProcType, HandleInv
<1>3. s \in Buffer /\ Listed(b) /\ Bits(b) /\ Traced(b) /\ buf \in [Blocks -> Buffer]
  BY <1>1, Groups DEF Struct, Base, BufType, ListInv, Sound
<1>4. /\ s.b_transaction = 0 /\ s.b_next_transaction = 0 /\ s.b_jlist = "None" /\ io[b] = "none"
      /\ \A q \in Procs : Works(q) => h_buf[q] # b
  BY <1>1, AvailableClean
<1>5. running # 0 /\ running # committing /\ h_tid[p] = running /\ running \in 0 .. MaxTid
  BY <1>1, <1>2, Groups DEF Struct, Base, HandleInv, TidInv, CommitType
<1>6. buf' = [buf EXCEPT ![b] = file(Fresh, running, "Reserved")]
  BY <1>5 DEF Append
<1> DEFINE n == file(Fresh, running, "Reserved")
<1>7. /\ n \in Buffer /\ n.b_transaction = running /\ n.b_next_transaction = 0
      /\ n.b_jlist = "Reserved" /\ ~n.b_modified /\ n.b_frozen_data = None
      /\ n.b_cp_transaction = 0 /\ n.data = 0 /\ ~n.dirty /\ ~n.jbddirty /\ ~n.freed /\ ~n.bug
  BY <1>3, <1>4, <1>5, FreshFiled
<1> HIDE DEF n
<1>8. Touches(b) /\ r = n
  BY <1>6, <1>7, OneBuffer DEF Struct, Base, n
<1>9. /\ use'[b] = "used"
      /\ \A c \in Blocks : c # b => use'[c] = use[c] /\ freed'[c] = freed[c]
  BY Groups DEF Append, Allocate, Struct, Base, FsType
<1>10. Sound(b)'
  <2>1. Listed(b)'
    BY <1>1, <1>3, <1>4, <1>5, <1>7, <1>8, <1>9 DEF Listed, PhaseLists
  <2>2. Bits(b)'
    BY <1>1, <1>3, <1>4, <1>5, <1>7, <1>8, Fields DEF Bits
  <2>3. b \notin wrote /\ ~n.freed
    BY <1>1, <1>3, <1>7, ConstantsAssumption DEF Traced, Available, Append
  <2>4. Traced(b)'
    BY <1>1, <1>4, <1>5, <1>7, <1>8, <1>9, <2>3 DEF Traced
  <2>5. Clean(b)'
    BY <1>7, <1>8, <1>9 DEF Clean, On
  <2>6. ~Logging(b)' /\ ~Logging(b)
    BY <1>4, <1>7, <1>8 DEF Logging
  <2>7. Kept(b)'
    BY <1>1, <2>6, KeptFrame
  <2> QED
    BY <2>1, <2>2, <2>4, <2>5, <2>7 DEF Sound
<1>11. Owner(p)'
  BY <1>1, <1>2, <1>5, <1>7, <1>8 DEF Owner, Waiting, Holding
<1>12. Elsewhere(b)
  BY <1>1, <1>8, <1>9 DEF Touches, Elsewhere
<1> QED
  BY <1>1, <1>2, <1>4, <1>8, <1>10, <1>11, <1>12, OpenStep


-----------------------------------------------------------------------------
(* Freeing a block keeps the buffers sound. *)

\* What jbdbf_journal_forget does to the buffer of a block that nobody works on.
LEMMA Forgotten ==
  ASSUME Struct, NEW b \in Meta, b \in Blocks, running # 0, running \in 0 .. MaxTid,
         UNCHANGED <<running, committing, last, phase, todo, committed, closed, tagged>>,
         UNCHANGED <<aborted, io, log>>, b \notin wrote',
         buf'[b] = Forget(buf[b], running), use'[b] = "freed", freed'[b] = running
  PROVE  buf'[b] \in Buffer /\ Sound(b)'
<1> DEFINE s == buf[b]
           r == buf'[b]
<1>1. /\ s \in Buffer /\ Listed(b) /\ (~aborted => Bits(b)) /\ Traced(b)
      /\ committing \in 0 .. MaxTid
  BY Groups DEF Struct, Base, BufType, CommitType, ListInv, Sound
<1>2. running # committing /\ (committing # 0 => committing < running) /\ b \notin Data
  BY ConstantsAssumption DEF Struct, Base, TidInv
<1>3. s.b_transaction \in 0 .. MaxTid /\ s.b_next_transaction \in 0 .. MaxTid
  BY <1>1, Fields

<1>4. CASE s.b_transaction = running /\ s.b_cp_transaction # 0
  <2>1. /\ r \in Buffer /\ r.b_transaction = s.b_transaction
        /\ r.b_next_transaction = s.b_next_transaction /\ r.b_jlist = "Forget" /\ ~r.b_modified
        /\ r.b_frozen_data = s.b_frozen_data /\ r.b_cp_transaction = s.b_cp_transaction
        /\ r.data = s.data /\ ~r.dirty /\ ~r.jbddirty /\ r.freed = s.freed
        /\ r.bug = (s.bug \/ s.b_frozen_data # None)
    BY <1>1, <1>4, ForgetPinned
  <2>2. Listed(b)'
    BY <1>1, <1>2, <1>3, <1>4, <2>1 DEF Listed, PhaseLists
  <2>3. ~aborted => Bits(b)'
    BY <1>1, <1>2, <1>4, <2>1, Fields DEF Bits, Listed
  <2>4. Traced(b)'
    BY <1>1, <1>2, <1>4, <2>1, <2>2 DEF Traced, Listed
  <2>5. Clean(b)'
    BY <1>2, <2>2 DEF Clean, On, Listed
  <2>6. Kept(b)'
    <3>1. (Logging(b)' <=> Logging(b)) /\ (Logging(b) => Copied(b)' = Copied(b))
      BY <1>1, <1>2, <1>4, <2>1 DEF Logging, Copied, Listed
    <3> QED
      BY <3>1, KeptFrame
  <2> QED
    BY <2>1, <2>2, <2>3, <2>4, <2>5, <2>6 DEF Sound
<1>5. CASE s.b_transaction = running /\ s.b_cp_transaction = 0
  <2>1. /\ r \in Buffer /\ r.b_transaction = 0 /\ r.b_next_transaction = s.b_next_transaction
        /\ r.b_jlist = "None" /\ ~r.b_modified /\ r.b_frozen_data = None
        /\ r.b_cp_transaction = s.b_cp_transaction /\ r.data = s.data /\ ~r.dirty /\ ~r.jbddirty
        /\ r.freed = s.freed
        /\ r.bug = (s.bug \/ s.b_frozen_data # None \/ s.b_next_transaction # 0)
    BY <1>1, <1>5, ForgetUnfiled
  <2>2. Listed(b)'
    BY <1>1, <1>2, <1>3, <1>5, <2>1 DEF Listed, PhaseLists
  <2>3. ~aborted => Bits(b)'
    BY <1>1, <1>2, <1>5, <2>1, Fields DEF Bits, Listed
  <2>4. Traced(b)'
    BY <1>1, <1>2, <1>5, <2>1, <2>2 DEF Traced, Listed
  <2>5. Clean(b)'
    BY <1>2, <2>2 DEF Clean, On, Listed
  <2>6. Kept(b)'
    <3>1. (Logging(b)' <=> Logging(b)) /\ (Logging(b) => Copied(b)' = Copied(b))
      BY <1>1, <1>2, <1>5, <2>1 DEF Logging, Copied, Listed
    <3> QED
      BY <3>1, KeptFrame
  <2> QED
    BY <2>1, <2>2, <2>3, <2>4, <2>5, <2>6 DEF Sound
<1>6. CASE s.b_transaction # running /\ s.b_transaction # 0
  <2>1. /\ r \in Buffer /\ r.b_transaction = s.b_transaction /\ r.b_next_transaction = 0
        /\ r.b_jlist = s.b_jlist /\ ~r.b_modified /\ r.b_frozen_data = s.b_frozen_data
        /\ r.b_cp_transaction = s.b_cp_transaction /\ r.data = s.data /\ r.dirty = s.dirty
        /\ r.jbddirty = s.jbddirty /\ r.freed = s.freed
        /\ r.bug = (s.bug \/ ~(s.b_transaction = committing /\ s.b_next_transaction \in {0, running}))
    BY <1>1, <1>6, ForgetOlder
  <2>2. Listed(b)'
    BY <1>1, <1>2, <1>3, <1>6, <2>1 DEF Listed, PhaseLists
  <2>3. ~aborted => Bits(b)'
    BY <1>1, <1>2, <1>6, <2>1, Fields DEF Bits, Listed
  <2>4. Traced(b)'
    BY <1>1, <1>2, <1>6, <2>1, <2>2 DEF Traced, Listed
  <2>5. Clean(b)'
    BY <1>2, <2>2 DEF Clean, On, Listed
  <2>6. Kept(b)'
    <3>1. (Logging(b)' <=> Logging(b)) /\ (Logging(b) => Copied(b)' = Copied(b))
      BY <1>1, <1>2, <1>6, <2>1 DEF Logging, Copied, Listed
    <3> QED
      BY <3>1, KeptFrame
  <2> QED
    BY <2>1, <2>2, <2>3, <2>4, <2>5, <2>6 DEF Sound
<1>7. CASE s.b_transaction = 0
  <2>1. /\ r \in Buffer /\ r.b_transaction = s.b_transaction
        /\ r.b_next_transaction = s.b_next_transaction /\ r.b_jlist = s.b_jlist
        /\ r.b_modified = (s.b_modified /\ s.b_cp_transaction = 0)
        /\ r.b_frozen_data = s.b_frozen_data /\ r.b_cp_transaction = s.b_cp_transaction
        /\ r.data = s.data /\ r.dirty = s.dirty /\ r.jbddirty = s.jbddirty /\ r.freed = s.freed
        /\ r.bug = s.bug
    BY <1>1, <1>7, ForgetNone
  <2>2. Listed(b)'
    BY <1>1, <1>2, <1>3, <1>7, <2>1 DEF Listed, PhaseLists
  <2>3. ~aborted => Bits(b)'
    BY <1>1, <1>2, <1>7, <2>1, Fields DEF Bits, Listed
  <2>4. Traced(b)'
    BY <1>1, <1>2, <1>7, <2>1, <2>2 DEF Traced, Listed
  <2>5. Clean(b)'
    BY <1>2, <2>2 DEF Clean, On, Listed
  <2>6. Kept(b)'
    <3>1. (Logging(b)' <=> Logging(b)) /\ (Logging(b) => Copied(b)' = Copied(b))
      BY <1>1, <1>2, <1>7, <2>1 DEF Logging, Copied, Listed
    <3> QED
      BY <3>1, KeptFrame
  <2> QED
    BY <2>1, <2>2, <2>3, <2>4, <2>5, <2>6 DEF Sound
<1> QED
  BY <1>4, <1>5, <1>6, <1>7

\* jbdbf_journal_forget
LEMMA ForgetBlockStruct ==
  ASSUME Struct, NEW p \in Procs, NEW b \in Blocks, jbdbf_journal_forget(p, b)
  PROVE  Struct'
<1>1. /\ UNCHANGED <<running, committing, last, phase, todo, committed, closed, tagged>>
      /\ UNCHANGED <<aborted, io, log, pc, h_tid, h_buf>> /\ Base'
      /\ pc[p] = "open" /\ b \in Meta /\ wrote' = wrote \ {b}
      /\ \A q \in Procs : h_buf[q] # b
  BY ForgetBlockBase DEF jbdbf_journal_forget, At, commitVars, procVars, Struct
<1>2. /\ pc' = [pc EXCEPT ![p] = "open"] /\ "open" \in Places \ {"idle"} /\ pc'[p] = "open"
  BY <1>1, Groups DEF Struct, Base, ProcType, Places
<1>3. h_tid[p] = running /\ running # 0 /\ running \in 0 .. MaxTid
  BY <1>1, Groups DEF Struct, Base, HandleInv, CommitType
<1>4. /\ use'[b] = "freed" /\ freed'[b] = running
      /\ \A c \in Blocks : c # b => use'[c] = use[c] /\ freed'[c] = freed[c]
  BY <1>3, Groups DEF jbdbf_journal_forget, Struct, Base, FsType
<1>5. /\ buf' = [buf EXCEPT ![b] = Forget(buf[b], running)]
      /\ buf'[b] = Forget(buf[b], running)
  BY <1>3, Groups DEF jbdbf_journal_forget, Struct, Base, BufType
<1>6. buf'[b] \in Buffer /\ Sound(b)'
  BY <1>1, <1>3, <1>4, <1>5, Forgotten
<1>7. Touches(b)
  BY <1>5, <1>6, OneBuffer DEF Struct, Base
<1>8. Owner(p)'
  BY <1>2 DEF Owner, Waiting, Holding
<1>9. Elsewhere(b)
  BY <1>1, <1>4, <1>7 DEF Touches, Elsewhere
<1> QED
  BY <1>1, <1>2, <1>6, <1>7, <1>8, <1>9, OpenStep

\* Shrink
LEMMA ShrinkStruct ==
  ASSUME Struct, NEW p \in Procs, NEW b \in Blocks, Shrink(p, b)
  PROVE  Struct'
<1>1. /\ UNCHANGED <<running, committing, last, phase, todo, committed, closed, tagged>>
      /\ UNCHANGED <<aborted, io, log, wrote, h_tid, buf, freed>> /\ Base'
      /\ b \in Data /\ use[b] = "used" /\ ~aborted
      /\ pc[p] = "open" /\ pc' = [pc EXCEPT ![p] = "shrunk"] /\ "shrunk" \in Places \ {"idle"}
      /\ h_buf' = [h_buf EXCEPT ![p] = b]
      /\ \A q \in Procs : h_buf[q] # b
  BY ShrinkBase DEF Shrink, At, Goto, commitVars, Struct, Places
<1>2. /\ pc'[p] = "shrunk"
      /\ \A q \in Procs : q # p => h_buf'[q] = h_buf[q]
  BY <1>1, Groups DEF Struct, Base, ProcType
<1>3. /\ use'[b] = "orphan"
      /\ \A c \in Blocks : c # b => use'[c] = use[c] /\ freed'[c] = freed[c]
  BY <1>1, Groups DEF Shrink, Struct, Base, FsType
<1>4. Touches(b) /\ Sound(b)
  BY <1>1, Groups DEF Struct, Base, BufType, Touches, ListInv
<1>5. Sound(b)'
  <2>1. Listed(b)' /\ Bits(b)'
    BY <1>1, <1>3, <1>4 DEF Sound, Listed, Bits, PhaseLists
  <2>2. Traced(b)' /\ Clean(b)'
    BY <1>1, <1>3, <1>4 DEF Sound, Traced, Clean, Bits, On
  <2>3. Kept(b)'
    BY <1>1, <1>4 DEF Sound, Kept, Logging, Copied
  <2> QED
    BY <1>1, <2>1, <2>2, <2>3 DEF Sound
<1>6. Owner(p)'
  BY <1>2 DEF Owner, Waiting, Holding
<1>7. Elsewhere(b)
  BY <1>1, <1>3 DEF Elsewhere
<1> QED
  BY <1>1, <1>2, <1>4, <1>5, <1>6, <1>7, OpenStep

\* FreeBlocks
LEMMA FreeStruct ==
  ASSUME Struct, NEW p \in Procs, NEW b \in Blocks, FreeBlocks(p, b)
  PROVE  Struct'
<1>1. /\ UNCHANGED <<running, committing, last, phase, todo, committed, closed, tagged>>
      /\ UNCHANGED <<aborted, io, log, wrote, pc, h_tid, h_buf, buf>> /\ Base' /\ ~aborted
      /\ pc[p] = "open" /\ use[b] = "unmapped"
  BY FreeBase DEF FreeBlocks, commitVars, procVars, Struct
<1>2. pc' = [pc EXCEPT ![p] = "open"] /\ "open" \in Places \ {"idle"} /\ pc'[p] = "open"
  BY <1>1, Groups DEF Struct, Base, ProcType, Places
<1>3. /\ h_tid[p] = running /\ running # 0 /\ running \in 0 .. MaxTid /\ committing \in 0 .. MaxTid
      /\ committing # 0 => committing < running
  BY <1>1, Groups DEF Struct, Base, HandleInv, TidInv, CommitType
<1>4. /\ use'[b] = "freed" /\ freed'[b] = running
      /\ \A c \in Blocks : c # b => use'[c] = use[c] /\ freed'[c] = freed[c]
  BY <1>1, <1>3, Groups DEF FreeBlocks, Struct, Base, FsType
<1>5. Touches(b) /\ Sound(b) /\ buf[b] \in Buffer
  BY <1>1, Groups DEF Struct, Base, BufType, Touches, ListInv
<1>6. Sound(b)'
  <2>1. Listed(b)' /\ Bits(b)'
    BY <1>1, <1>3, <1>4, <1>5, Fields DEF Sound, Listed, Bits, PhaseLists
  <2>2. Traced(b)' /\ Clean(b)'
    BY <1>1, <1>4, <1>5 DEF Sound, Traced, Clean, On
  <2>3. Kept(b)'
    BY <1>1, <1>5 DEF Sound, Kept, Logging, Copied
  <2> QED
    BY <1>1, <2>1, <2>2, <2>3 DEF Sound
<1>7. Owner(p)' /\ \A q \in Procs : Works(q) => h_buf[q] # b
  BY <1>1, <1>2, Working DEF Owner, Waiting, Holding, Works, Struct
<1>8. Elsewhere(b)
  BY <1>1, <1>4 DEF Elsewhere
<1> QED
  BY <1>1, <1>2, <1>5, <1>6, <1>7, <1>8, OpenStep


\* What journal_unmap_buffer does to the buffer of a truncated block.
LEMMA Unmapped ==
  ASSUME Struct, NEW b \in Blocks, use[b] = "orphan", use'[b] = "unmapped",
         UNCHANGED <<running, committing, last, phase, todo, committed, closed, tagged>>,
         UNCHANGED <<aborted, io, log>>, b \notin wrote',
         buf'[b] = Unmap(buf[b])
  PROVE  Sound(b)'
<1> DEFINE s == buf[b]
           r == buf'[b]
<1>1. /\ s \in Buffer /\ Listed(b) /\ (~aborted => Bits(b)) /\ Traced(b) /\ Clean(b)
      /\ b \in Data /\ ~s.freed /\ (s.b_transaction = 0 => ~s.jbddirty)
  BY Groups DEF Struct, Base, BufType, ListInv, Sound, Traced, Clean
<1>2. /\ running \in 0 .. MaxTid /\ committing \in 0 .. MaxTid /\ phase \in Phases
      /\ running # 0 => running # committing
      /\ committing # 0 => phase \notin {"none", "locked"}
  BY Groups DEF Struct, Base, TidInv, CommitType

<1>3. CASE s.b_transaction = 0 /\ (s.b_cp_transaction = 0 \/ ~s.dirty)
  <2>1. /\ r \in Buffer /\ r.b_transaction = s.b_transaction
        /\ r.b_next_transaction = s.b_next_transaction /\ r.b_jlist = s.b_jlist
        /\ r.b_modified = s.b_modified /\ r.b_frozen_data = s.b_frozen_data
        /\ r.b_cp_transaction = s.b_cp_transaction /\ r.data = s.data /\ ~r.dirty
        /\ r.jbddirty = s.jbddirty /\ r.freed = s.freed /\ r.bug = (s.bug \/ s.jbddirty)
    BY <1>1, <1>2, <1>3, UnmapClean
  <2>2. Listed(b)'
    BY <1>1, <1>2, <1>3, <2>1 DEF Listed, PhaseLists, Phases
  <2>3. ~aborted => Bits(b)'
    BY <1>1, <1>2, <1>3, <2>1, Fields DEF Bits, Listed
  <2>4. Traced(b)'
    BY <1>1, <1>2, <1>3, <2>1, <2>2 DEF Traced, Listed
  <2>5. Clean(b)'
    BY <1>1, <1>2, <1>3, <2>1 DEF Clean, On, Listed
  <2>6. Kept(b)'
    <3>1. (Logging(b)' <=> Logging(b)) /\ (Logging(b) => Copied(b)' = Copied(b))
      BY <1>1, <1>2, <1>3, <2>1 DEF Logging, Copied, Listed
    <3> QED
      BY <3>1, KeptFrame
  <2> QED
    BY <2>2, <2>3, <2>4, <2>5, <2>6 DEF Sound
<1>4. CASE s.b_transaction = 0 /\ s.b_cp_transaction # 0 /\ s.dirty /\ running # 0
  <2>1. /\ r \in Buffer /\ r.b_transaction = running
        /\ r.b_next_transaction = s.b_next_transaction /\ r.b_jlist = "Forget"
        /\ r.b_modified = s.b_modified /\ r.b_frozen_data = s.b_frozen_data
        /\ r.b_cp_transaction = s.b_cp_transaction /\ r.data = s.data /\ ~r.dirty
        /\ r.jbddirty = (s.b_jlist = "None" /\ s.jbddirty) /\ r.freed = s.freed /\ r.bug = s.bug
    BY <1>1, <1>2, <1>4, UnmapRunning
  <2>2. Listed(b)'
    BY <1>1, <1>2, <1>4, <2>1 DEF Listed, PhaseLists, Phases
  <2>3. ~aborted => Bits(b)'
    BY <1>1, <1>2, <1>4, <2>1, Fields DEF Bits, Listed
  <2>4. Traced(b)'
    BY <1>1, <1>2, <1>4, <2>1, <2>2 DEF Traced, Listed
  <2>5. Clean(b)'
    BY <1>1, <1>2, <1>4, <2>1 DEF Clean, On, Listed
  <2>6. Kept(b)'
    <3>1. (Logging(b)' <=> Logging(b)) /\ (Logging(b) => Copied(b)' = Copied(b))
      BY <1>1, <1>2, <1>4, <2>1 DEF Logging, Copied, Listed
    <3> QED
      BY <3>1, KeptFrame
  <2> QED
    BY <2>2, <2>3, <2>4, <2>5, <2>6 DEF Sound
<1>5. CASE s.b_transaction = 0 /\ s.b_cp_transaction # 0 /\ s.dirty /\ running = 0 /\ committing # 0
  <2>1. /\ r \in Buffer /\ r.b_transaction = committing
        /\ r.b_next_transaction = s.b_next_transaction /\ r.b_jlist = "Forget"
        /\ r.b_modified = s.b_modified /\ r.b_frozen_data = s.b_frozen_data
        /\ r.b_cp_transaction = s.b_cp_transaction /\ r.data = s.data /\ ~r.dirty
        /\ r.jbddirty = (s.b_jlist = "None" /\ s.jbddirty) /\ r.freed = s.freed /\ r.bug = s.bug
    BY <1>1, <1>2, <1>5, UnmapCommitting
  <2>2. Listed(b)'
    BY <1>1, <1>2, <1>5, <2>1 DEF Listed, PhaseLists, Phases
  <2>3. ~aborted => Bits(b)'
    BY <1>1, <1>2, <1>5, <2>1, Fields DEF Bits, Listed
  <2>4. Traced(b)'
    BY <1>1, <1>2, <1>5, <2>1, <2>2 DEF Traced, Listed
  <2>5. Clean(b)'
    BY <1>1, <1>2, <1>5, <2>1 DEF Clean, On, Listed
  <2>6. Kept(b)'
    <3>1. (Logging(b)' <=> Logging(b)) /\ (Logging(b) => Copied(b)' = Copied(b))
      BY <1>1, <1>2, <1>5, <2>1 DEF Logging, Copied, Listed
    <3> QED
      BY <3>1, KeptFrame
  <2> QED
    BY <2>2, <2>3, <2>4, <2>5, <2>6 DEF Sound
<1>6. CASE s.b_transaction = 0 /\ s.b_cp_transaction # 0 /\ s.dirty /\ running = 0 /\ committing = 0
  <2>1. /\ r \in Buffer /\ r.b_transaction = s.b_transaction
        /\ r.b_next_transaction = s.b_next_transaction /\ r.b_jlist = s.b_jlist
        /\ r.b_modified = s.b_modified /\ r.b_frozen_data = s.b_frozen_data
        /\ r.b_cp_transaction = s.b_cp_transaction /\ r.data = s.data /\ ~r.dirty /\ ~r.jbddirty
        /\ r.freed = s.freed /\ r.bug = s.bug
    BY <1>1, <1>2, <1>6, UnmapIdle
  <2>2. Listed(b)'
    BY <1>1, <1>2, <1>6, <2>1 DEF Listed, PhaseLists, Phases
  <2>3. ~aborted => Bits(b)'
    BY <1>1, <1>2, <1>6, <2>1, Fields DEF Bits, Listed
  <2>4. Traced(b)'
    BY <1>1, <1>2, <1>6, <2>1, <2>2 DEF Traced, Listed
  <2>5. Clean(b)'
    BY <1>1, <1>2, <1>6, <2>1 DEF Clean, On, Listed
  <2>6. Kept(b)'
    <3>1. (Logging(b)' <=> Logging(b)) /\ (Logging(b) => Copied(b)' = Copied(b))
      BY <1>1, <1>2, <1>6, <2>1 DEF Logging, Copied, Listed
    <3> QED
      BY <3>1, KeptFrame
  <2> QED
    BY <2>2, <2>3, <2>4, <2>5, <2>6 DEF Sound
<1>7. CASE s.b_transaction # 0 /\ s.b_transaction = committing
  <2>1. /\ r \in Buffer /\ r.b_transaction = s.b_transaction
        /\ r.b_next_transaction = IF running # 0 /\ s.jbddirty THEN running ELSE s.b_next_transaction
        /\ r.b_jlist = s.b_jlist /\ r.b_modified = s.b_modified
        /\ r.b_frozen_data = s.b_frozen_data /\ r.b_cp_transaction = s.b_cp_transaction
        /\ r.data = s.data /\ r.dirty = s.dirty /\ r.jbddirty = s.jbddirty /\ r.freed
        /\ r.bug = s.bug
    BY <1>1, <1>2, <1>7, UnmapOlder
  <2>2. Listed(b)'
    BY <1>1, <1>2, <1>7, <2>1 DEF Listed, PhaseLists, Phases
  <2>3. ~aborted => Bits(b)'
    BY <1>1, <1>2, <1>7, <2>1, Fields DEF Bits, Listed
  <2>4. Traced(b)'
    BY <1>1, <1>2, <1>7, <2>1, <2>2 DEF Traced, Listed
  <2>5. Clean(b)'
    BY <1>1, <1>2, <1>7, <2>1 DEF Clean, On, Listed
  <2>6. Kept(b)'
    <3>1. (Logging(b)' <=> Logging(b)) /\ (Logging(b) => Copied(b)' = Copied(b))
      BY <1>1, <1>2, <1>7, <2>1 DEF Logging, Copied, Listed
    <3> QED
      BY <3>1, KeptFrame
  <2> QED
    BY <2>2, <2>3, <2>4, <2>5, <2>6 DEF Sound
<1>8. CASE s.b_transaction # 0 /\ s.b_transaction # committing /\ s.b_cp_transaction # 0
  <2>1. /\ r \in Buffer /\ r.b_transaction = s.b_transaction
        /\ r.b_next_transaction = s.b_next_transaction /\ r.b_jlist = "Forget"
        /\ r.b_modified = s.b_modified /\ r.b_frozen_data = s.b_frozen_data
        /\ r.b_cp_transaction = s.b_cp_transaction /\ r.data = s.data /\ ~r.dirty
        /\ r.jbddirty = (s.b_jlist = "None" /\ s.jbddirty) /\ r.freed = s.freed
        /\ r.bug = (s.bug \/ s.b_transaction # running \/ (s.b_jlist = "None" /\ s.jbddirty))
    BY <1>1, <1>2, <1>8, UnmapOwnPinned
  <2>2. Listed(b)'
    BY <1>1, <1>2, <1>8, <2>1 DEF Listed, PhaseLists, Phases
  <2>3. ~aborted => Bits(b)'
    BY <1>1, <1>2, <1>8, <2>1, Fields DEF Bits, Listed
  <2>4. Traced(b)'
    BY <1>1, <1>2, <1>8, <2>1, <2>2 DEF Traced, Listed
  <2>5. Clean(b)'
    BY <1>1, <1>2, <1>8, <2>1 DEF Clean, On, Listed
  <2>6. Kept(b)'
    <3>1. (Logging(b)' <=> Logging(b)) /\ (Logging(b) => Copied(b)' = Copied(b))
      BY <1>1, <1>2, <1>8, <2>1 DEF Logging, Copied, Listed
    <3> QED
      BY <3>1, KeptFrame
  <2> QED
    BY <2>2, <2>3, <2>4, <2>5, <2>6 DEF Sound
<1>9. CASE s.b_transaction # 0 /\ s.b_transaction # committing /\ s.b_cp_transaction = 0
  <2>1. /\ r \in Buffer /\ r.b_transaction = 0 /\ r.b_next_transaction = s.b_next_transaction
        /\ r.b_jlist = "None" /\ ~r.b_modified /\ r.b_frozen_data = None
        /\ r.b_cp_transaction = s.b_cp_transaction /\ r.data = s.data /\ ~r.dirty
        /\ r.jbddirty = (s.b_jlist = "None" /\ s.jbddirty) /\ r.freed = s.freed
        /\ r.bug = (s.bug \/ s.b_transaction # running \/ s.b_next_transaction # 0 \/ (s.b_jlist = "None" /\ s.jbddirty))
    BY <1>1, <1>2, <1>9, UnmapOwn
  <2>2. Listed(b)'
    BY <1>1, <1>2, <1>9, <2>1 DEF Listed, PhaseLists, Phases
  <2>3. ~aborted => Bits(b)'
    BY <1>1, <1>2, <1>9, <2>1, Fields DEF Bits, Listed
  <2>4. Traced(b)'
    BY <1>1, <1>2, <1>9, <2>1, <2>2 DEF Traced, Listed
  <2>5. Clean(b)'
    BY <1>1, <1>2, <1>9, <2>1 DEF Clean, On, Listed
  <2>6. Kept(b)'
    <3>1. (Logging(b)' <=> Logging(b)) /\ (Logging(b) => Copied(b)' = Copied(b))
      BY <1>1, <1>2, <1>9, <2>1 DEF Logging, Copied, Listed
    <3> QED
      BY <3>1, KeptFrame
  <2> QED
    BY <2>2, <2>3, <2>4, <2>5, <2>6 DEF Sound
<1> QED
  BY <1>3, <1>4, <1>5, <1>6, <1>7, <1>8, <1>9

\* jbdbf_journal_invalidatepage
LEMMA InvalidateStruct ==
  ASSUME Struct, NEW b \in Blocks, jbdbf_journal_invalidatepage(b)
  PROVE  Struct'
<1>1. /\ UNCHANGED <<running, committing, last, phase, todo, committed, closed, tagged>>
      /\ UNCHANGED <<aborted, io, log, pc, h_tid, h_buf, freed>> /\ Base'
      /\ use[b] = "orphan" /\ wrote' = wrote \ {b}
      /\ \A q \in Procs : h_buf[q] # b
  BY InvalidateBase DEF jbdbf_journal_invalidatepage, At, commitVars, procVars, Struct
<1>2. Touches(b) /\ buf'[b] = Unmap(buf[b])
  BY InvalidateEffect DEF Struct, Base
<1>3. use'[b] = "unmapped" /\ \A c \in Blocks : c # b => use'[c] = use[c]
  BY Groups DEF jbdbf_journal_invalidatepage, Struct, Base, FsType
<1>4. Sound(b)'
  BY <1>1, <1>2, <1>3, Unmapped
<1>8. Elsewhere(b)
  BY <1>1, <1>2, <1>3 DEF Touches, Elsewhere
<1>5. ListInv'
  BY <1>4, <1>8, ListFrame
<1>6. Alone'
  BY <1>1 DEF Struct, Alone, Works
<1>7. OwnInv'
  <2> SUFFICES ASSUME NEW q \in Procs PROVE Owner(q)'
    BY DEF OwnInv
  <2>1. Owner(q) /\ Listed(b)
    BY DEF Struct, OwnInv, ListInv, Sound
  <2> QED
    BY <1>1, <1>2, <2>1, OwnFrame DEF Struct
<1> QED
  BY <1>1, <1>5, <1>6, <1>7 DEF Struct


-----------------------------------------------------------------------------
(* The commit keeps the buffers sound. *)

\* The commit goes on, or the journal is aborted; the buffers are as they were.
LEMMA PhaseStep ==
  ASSUME Struct, Base', UNCHANGED <<running, committing, use, freed, io, pc, h_tid, h_buf, buf>>,
         wrote' = wrote, aborted => aborted',
         \A b \in Blocks : Kept(b)' /\ Clean(b)',
         \A b \in Blocks : committing # 0 /\ buf[b].b_transaction = committing =>
                             buf[b].b_jlist \in PhaseLists'
  PROVE  Struct'
<1>1. Alone' /\ OwnInv'
  BY DEF Struct, Alone, Works, OwnInv, Owner, Waiting, Holding
<1>2. ListInv'
  <2> SUFFICES ASSUME NEW b \in Blocks PROVE Sound(b)'
    BY DEF ListInv
  <2>1. Sound(b)
    BY DEF Struct, ListInv
  <2>2. Listed(b)'
    BY <2>1 DEF Sound, Listed
  <2>3. Traced(b)'
    BY <2>1 DEF Sound, Traced
  <2> QED
    BY <2>1, <2>2, <2>3 DEF Sound, Bits
<1> QED
  BY <1>1, <1>2 DEF Struct

\* From one loop of the commit to the next nothing is logged; when the first one is
\* over, all data has been issued.
LEMMA LoopKept ==
  ASSUME Struct, UNCHANGED <<running, committing, last, todo, committed, closed, tagged>>,
         UNCHANGED <<aborted, use, io, buf, log>>,
         phase \in {"data", "log", "wait_for_data", "wait_for_iobuf"},
         phase = "data" => todo = {},
         NEW b \in Blocks
  PROVE  Kept(b)' /\ Clean(b)'
<1>1. Kept(b) /\ Clean(b)
  BY DEF Struct, ListInv, Sound
<1>2. Kept(b)'
  BY <1>1 DEF Kept, Logging, Copied
<1>3. Clean(b)'
  BY <1>1 DEF Clean, On
<1> QED
  BY <1>2, <1>3

\* CommitLock, CommitRecord, jbdbf_cleanup_journal_tail, Abort
LEMMA StillStruct ==
  ASSUME Struct, CommitLock \/ CommitRecord \/ jbdbf_cleanup_journal_tail \/ Abort
  PROVE  Struct'
<1>1. Base'
  BY LockBase, RecordBase, TailBase, AbortBase DEF Struct
<1>2. /\ UNCHANGED <<running, committing, use, freed, io, pc, h_tid, h_buf, buf>>
      /\ UNCHANGED <<last, todo, closed, tagged, log, wrote>> /\ (aborted => aborted')
  BY DEF CommitLock, CommitRecord, jbdbf_cleanup_journal_tail, Abort, commitVars, procVars, blockVars
<1>3. ASSUME NEW b \in Blocks, committing # 0, buf[b].b_transaction = committing
      PROVE  buf[b].b_jlist \in PhaseLists'
  <2>1. buf[b].b_jlist \in PhaseLists
    BY <1>3 DEF Struct, ListInv, Sound, Listed
  <2>2. ~CommitLock
    BY <1>3 DEF CommitLock, Struct, Base, TidInv
  <2>3. PhaseLists' = PhaseLists
    BY <2>2 DEF CommitRecord, jbdbf_cleanup_journal_tail, Abort, commitVars, PhaseLists
  <2> QED
    BY <2>1, <2>3
<1>4. ASSUME NEW b \in Blocks
      PROVE  Kept(b)' /\ Clean(b)'
  <2>1. Kept(b) /\ Clean(b) /\ Listed(b)
    BY DEF Struct, ListInv, Sound
  <2>2. CASE CommitLock
    <3>1. committing = 0 /\ phase' = "locked" /\ UNCHANGED <<aborted, committed>>
      BY <2>2 DEF CommitLock, Struct, Base, TidInv
    <3> QED
      BY <1>2, <2>1, <3>1 DEF Kept, Clean, On
  <2>3. CASE CommitRecord
    <3>1. /\ phase = "record" /\ phase' = "forget" /\ aborted' = aborted
          /\ committed' = IF aborted THEN committed ELSE committed \cup {committing}
          /\ committing # 0
      BY <2>3 DEF CommitRecord, Struct, Base, TidInv
    <3>2. buf[b].b_transaction = committing => buf[b].b_jlist = "Forget"
      BY <2>1, <3>1 DEF Listed, PhaseLists
    <3>3. ~aborted /\ b \notin tagged[committing] => log[committing][b] = closed[committing][b]
      BY <2>1, <3>1, <3>2 DEF Kept, Logging
    <3>4. Kept(b)'
      BY <1>2, <2>1, <3>1, <3>3 DEF Kept
    <3>5. Clean(b)'
      BY <1>2, <2>1, <3>2 DEF Clean, On
    <3> QED
      BY <3>4, <3>5
  <2>4. CASE jbdbf_cleanup_journal_tail
    <3>1. UNCHANGED <<phase, committed, aborted>>
      BY <2>4 DEF jbdbf_cleanup_journal_tail, commitVars
    <3> QED
      BY <1>2, <2>1, <3>1 DEF Kept, Logging, Copied, Clean, On
  <2>5. CASE Abort
    <3>1. UNCHANGED <<phase, committed>> /\ aborted'
      BY <2>5 DEF Abort, commitVars
    <3> QED
      BY <1>2, <2>1, <3>1 DEF Kept, Clean, On
  <2> QED
    BY <2>2, <2>3, <2>4, <2>5
<1> QED
  BY <1>1, <1>2, <1>3, <1>4, PhaseStep

\* LogIO: the log gets the copy, or the contents of a buffer that has none and that
\* nobody changes before its I/O is over.
LEMMA LogIOStruct ==
  ASSUME Struct, LogIO
  PROVE  Struct'
<1>1. PICK b \in Blocks :
        /\ io[b] \in {"page", "frozen"} /\ io' = [io EXCEPT ![b] = "done"]
        /\ log' = [log EXCEPT ![committing][b] =
                     IF io[b] = "page" THEN buf[b].data ELSE buf[b].b_frozen_data]
  BY DEF LogIO
<1>2. /\ UNCHANGED <<running, committing, last, phase, todo, committed, closed, tagged>>
      /\ UNCHANGED <<aborted, use, freed, wrote, pc, h_tid, h_buf, buf>> /\ Base'
  BY LogIOBase DEF LogIO, commitVars, procVars, blockVars, Struct
<1>3. io'[b] = "done" /\ \A c \in Blocks : c # b => io'[c] = io[c]
  BY <1>1, Groups DEF Struct, Base, RestType
<1>4. Touches(b) /\ Keeps(b)
  BY <1>2, Groups DEF Struct, Base, BufType, Touches, Keeps
<1>5. Listed(b) /\ (~aborted => Bits(b)) /\ Traced(b) /\ Kept(b) /\ Clean(b)
  BY DEF Struct, ListInv, Sound
<1>6. /\ buf[b].b_jlist = "Shadow" /\ buf[b].b_transaction = committing /\ committing # 0
      /\ phase \in {"log", "wait_for_data", "wait_for_iobuf"}
  BY <1>1, <1>5 DEF Listed, PhaseLists
<1>7. /\ committing \in Tids /\ committing \notin committed /\ committing # running
      /\ committing <= last /\ last \in 0 .. MaxTid
  BY <1>6, CommittedTids, Groups DEF Struct, Base, TidInv, CommitType
<1>8. /\ \A t \in Tids \ {committing} : log'[t][b] = log[t][b]
      /\ \A t \in Tids : \A c \in Blocks : c # b => log'[t][c] = log[t][c]
      /\ log'[committing][b] = IF io[b] = "page" THEN buf[b].data ELSE buf[b].b_frozen_data
  BY <1>1, <1>7, Groups DEF Struct, Base, RestType
<1>9. Kept(b)'
  <2>1. \A t \in Tids : t > last \/ t = running => t # committing
    BY <1>7 DEF Tids
  <2>2. committed \ {0} \subseteq Tids \ {committing}
    BY <1>7, CommittedTids
  <2>3. ~Logging(b)' /\ Logging(b)
    BY <1>1, <1>3, <1>6 DEF Logging
  <2>4. ~aborted /\ b \notin tagged[committing] => log'[committing][b] = closed[committing][b]
    <3>1. ~aborted => log'[committing][b] = Copied(b)
      BY <1>1, <1>5, <1>8 DEF Traced, Copied
    <3> QED
      BY <1>5, <1>6, <2>3, <3>1 DEF Kept
  <2>5. \A t \in Tids : t > last' \/ t = running' => log'[t][b] = None
    BY <1>2, <1>5, <1>8, <2>1 DEF Kept
  <2>6. \A t \in committed' \ {0} : b \notin tagged'[t] => log'[t][b] = closed'[t][b]
    BY <1>2, <1>5, <1>8, <2>2 DEF Kept
  <2> QED
    BY <1>2, <2>3, <2>4, <2>5, <2>6 DEF Kept
<1>10. Sound(b)'
  <2>1. Listed(b)' /\ (~aborted => Bits(b)')
    BY <1>1, <1>2, <1>3, <1>5 DEF Listed, Bits, PhaseLists
  <2>2. Traced(b)' /\ Clean(b)'
    BY <1>2, <1>3, <1>5 DEF Traced, Clean, On
  <2> QED
    BY <1>2, <1>9, <2>1, <2>2 DEF Sound
<1>11. Elsewhere(b)
  BY <1>2, <1>3, <1>8 DEF Elsewhere
<1> QED
  BY <1>2, <1>4, <1>10, <1>11, JournalStep

\* What a write in place does to a buffer.
LEMMA WrittenStruct ==
  ASSUME Struct, Base', NEW b \in Blocks, NEW ok \in BOOLEAN, Written(b, ok),
         UNCHANGED <<running, committing, last, phase, committed, closed, tagged>>,
         UNCHANGED <<aborted, use, freed, io, log, wrote, pc, h_tid, h_buf>>,
         todo' \in {todo, todo \ {b}}
  PROVE  Struct'
<1> DEFINE s == buf[b]
           r == buf'[b]
<1>1. /\ Touches(b)
      /\ r \in Buffer /\ r.b_transaction = s.b_transaction
      /\ r.b_next_transaction = s.b_next_transaction /\ r.b_jlist = s.b_jlist
      /\ r.b_modified = s.b_modified /\ r.b_frozen_data = s.b_frozen_data
      /\ r.b_cp_transaction = s.b_cp_transaction /\ r.data = s.data /\ ~r.dirty
      /\ r.jbddirty = s.jbddirty /\ r.freed = s.freed /\ r.bug = s.bug
  BY WrittenEffect DEF Struct, Base
<1>2. Keeps(b)
  BY <1>1 DEF Keeps
<1>3. Sound(b)'
  <2>1. Sound(b)
    BY DEF Struct, ListInv
  <2>2. Listed(b)' /\ (~aborted => Bits(b)')
    BY <1>1, <2>1 DEF Sound, Listed, Bits, PhaseLists
  <2>3. Traced(b)' /\ Clean(b)'
    BY <1>1, <2>1 DEF Sound, Traced, Clean, On
  <2>4. (Logging(b)' <=> Logging(b)) /\ Copied(b)' = Copied(b)
    BY <1>1 DEF Logging, Copied
  <2>5. Kept(b)'
    BY <2>4, KeptFrame
  <2> QED
    BY <2>2, <2>3, <2>5 DEF Sound
<1>4. Elsewhere(b)
  BY <1>1 DEF Touches, Elsewhere
<1> QED
  BY <1>1, <1>2, <1>3, <1>4, JournalStep

\* WriteBack
LEMMA WriteBackStruct ==
  ASSUME Struct, NEW b \in Blocks, WriteBack(b)
  PROVE  Struct'
<1>1. PICK ok \in BOOLEAN : Written(b, ok)
  BY DEF WriteBack
<1> QED
  BY <1>1, WriteBackBase, WrittenStruct DEF WriteBack, commitVars, procVars, Struct

\* IssueData
LEMMA IssueStruct ==
  ASSUME Struct, IssueData
  PROVE  Struct'
<1>1. /\ UNCHANGED <<running, committing, last, committed, closed, tagged>>
      /\ UNCHANGED <<aborted, use, freed, io, log, wrote, pc, h_tid, h_buf>> /\ Base'
  BY IssueBase DEF IssueData, procVars, Struct
<1>2. CASE \E b \in todo, ok \in BOOLEAN : Written(b, ok) /\ todo' = todo \ {b} /\ UNCHANGED phase
  <2>1. PICK b \in Blocks, ok \in BOOLEAN : Written(b, ok) /\ todo' = todo \ {b} /\ UNCHANGED phase
    BY <1>2, Groups DEF Struct, Base, CommitType
  <2> QED
    BY <1>1, <2>1, WrittenStruct
<1>3. CASE todo = {} /\ phase' = "log" /\ UNCHANGED <<todo, buf>>
  <2>1. ASSUME NEW b \in Blocks, committing # 0, buf[b].b_transaction = committing
        PROVE  buf[b].b_jlist \in PhaseLists'
    BY <1>3, <2>1 DEF IssueData, Struct, ListInv, Sound, Listed, PhaseLists
  <2>2. phase = "data"
    BY DEF IssueData
  <2>3. \A b \in Blocks : Kept(b)' /\ Clean(b)'
    BY <1>1, <1>3, <2>2, LoopKept
  <2> QED
    BY <1>1, <1>3, <2>1, <2>3, PhaseStep
<1> QED
  BY <1>2, <1>3 DEF IssueData

\* RemoveCheckpoint, FailCheckpoint
LEMMA RemoveStruct ==
  ASSUME Struct, NEW b \in Blocks, Uncheckpoint(b), aborted' \in {aborted, TRUE}
  PROVE  Struct'
<1> DEFINE s == buf[b]
           r == buf'[b]
<1>1. /\ UNCHANGED <<running, committing, last, phase, todo, committed, closed, tagged>>
      /\ UNCHANGED <<use, freed, io, log, wrote, pc, h_tid, h_buf>> /\ Base'
      /\ s.b_jlist = "None" /\ ~s.dirty /\ (aborted => aborted')
  <2>1. Base'
    BY RemoveBase DEF Struct
  <2>2. UNCHANGED <<commitVars, procVars, use, freed, io, log, wrote>> /\ s.b_jlist = "None" /\ ~s.dirty
    BY DEF Uncheckpoint, blockVars
  <2>3. aborted => aborted'
    BY Zenon
  <2> QED
    BY <2>1, <2>2, <2>3 DEF commitVars, procVars
<1>2. s \in Buffer /\ Listed(b) /\ (~aborted => Bits(b)) /\ Traced(b) /\ Clean(b)
  BY Groups DEF Struct, Base, BufType, ListInv, Sound
<1>3. s.b_transaction = 0 /\ s.b_next_transaction = 0
  BY <1>1, <1>2 DEF Listed
<1>4. /\ Touches(b)
      /\ r \in Buffer /\ r.b_transaction = s.b_transaction
      /\ r.b_next_transaction = s.b_next_transaction /\ r.b_jlist = s.b_jlist /\ ~r.b_modified
      /\ r.b_frozen_data = None /\ r.b_cp_transaction = 0 /\ r.data = s.data /\ r.dirty = s.dirty
      /\ r.jbddirty = s.jbddirty /\ r.freed = s.freed
      /\ r.bug = (s.bug \/ ~(s.b_next_transaction = 0 /\ s.b_jlist = "None"))
  <2>1. Touches(b) /\ r = put_journal_head([s EXCEPT !.b_cp_transaction = 0])
    BY RemoveEffect DEF Struct, Base
  <2> HIDE DEF s, r
  <2> QED
    BY <1>2, <1>3, <2>1, Removed
<1>5. Keeps(b)
  BY <1>1, <1>4 DEF Keeps
<1>6. Listed(b)'
  BY <1>1, <1>2, <1>4 DEF Listed, PhaseLists
<1>7. ~aborted => Bits(b)'
  BY <1>1, <1>2, <1>3, <1>4 DEF Bits
<1>9. Traced(b)' /\ Clean(b)'
  BY <1>1, <1>2, <1>3, <1>4 DEF Listed, Traced, Clean, On
<1>10. ~Logging(b)' /\ ~Logging(b)
  BY <1>1, <1>4 DEF Logging
<1>11. Kept(b)'
  BY <1>1, <1>10, KeptFrame
<1>8. Sound(b)'
  BY <1>1, <1>6, <1>7, <1>9, <1>11 DEF Sound
<1>12. Elsewhere(b)
  BY <1>1, <1>4 DEF Touches, Elsewhere
<1> QED
  BY <1>1, <1>3, <1>4, <1>5, <1>8, <1>12, JournalStep


\* A buffer of the committing transaction: what the commit knows of it.
LEMMA Committing ==
  ASSUME Struct, NEW b \in Blocks, committing # 0, buf[b].b_transaction = committing
  PROVE  /\ buf[b] \in Buffer /\ Listed(b) /\ (~aborted => Bits(b)) /\ Traced(b) /\ Clean(b)
         /\ running \in 0 .. MaxTid /\ committing \in 0 .. MaxTid /\ aborted \in BOOLEAN
         /\ running # committing /\ buf[b].b_jlist # "None"
<1>1. buf[b] \in Buffer /\ Listed(b) /\ (~aborted => Bits(b)) /\ Traced(b) /\ Clean(b)
  BY Groups DEF Struct, Base, BufType, ListInv, Sound
<1>2. running \in 0 .. MaxTid /\ committing \in 0 .. MaxTid /\ aborted \in BOOLEAN
  BY Groups DEF Struct, Base, CommitType, RestType
<1>3. running # committing
  BY <1>2 DEF Struct, Base, TidInv
<1> QED
  BY <1>1, <1>2, <1>3 DEF Listed


\* A buffer that was written in place goes to its next transaction, or to none.
LEMMA RefileStep ==
  ASSUME Struct, Base', NEW b \in Blocks, committing # 0, buf[b].b_transaction = committing,
         buf[b].b_jlist = "Dirtydata",
         UNCHANGED <<running, committing, last, phase, todo, committed, closed, tagged>>,
         UNCHANGED <<aborted, use, freed, log, wrote, h_tid, h_buf>>,
         Touches(b), UNCHANGED <<io, pc>>,
         buf'[b] = refile(buf[b]), phase # "data"
  PROVE  Struct'
<1> DEFINE s == buf[b]
           r == buf'[b]
<1>1. /\ s \in Buffer /\ Listed(b) /\ (~aborted => Bits(b)) /\ Traced(b) /\ Clean(b)
      /\ running \in 0 .. MaxTid /\ committing \in 0 .. MaxTid /\ aborted \in BOOLEAN
      /\ running # committing /\ s.b_jlist # "None"
  BY Committing
<1>2. /\ r \in Buffer /\ r.b_transaction = s.b_next_transaction /\ r.b_next_transaction = 0
      /\ r.b_jlist = IF s.b_next_transaction = 0 THEN "None" ELSE IF s.freed THEN "Forget" ELSE IF s.b_modified THEN "Metadata" ELSE "Reserved"
      /\ r.b_modified = (s.b_modified /\ (s.b_next_transaction # 0 \/ s.b_cp_transaction # 0))
      /\ r.b_frozen_data = IF s.b_next_transaction = 0 /\ s.b_cp_transaction = 0 THEN None ELSE s.b_frozen_data
      /\ r.b_cp_transaction = s.b_cp_transaction /\ r.data = s.data
      /\ r.dirty = (s.b_next_transaction = 0 /\ (s.dirty \/ s.jbddirty))
      /\ r.jbddirty = (s.b_next_transaction # 0 /\ (s.dirty \/ s.jbddirty)) /\ r.freed = s.freed
      /\ r.bug = (s.bug \/ (s.b_next_transaction # 0 /\ s.b_next_transaction # running))
  BY <1>1, RefiledFields
<1>3. Keeps(b)
  BY <1>1, <1>2 DEF Keeps, Listed
<1>4. Listed(b)'
  <2>1. /\ s.b_next_transaction \in {0, running} /\ io[b] = "none"
        /\ use[b] \notin {"off", "free"}
        /\ use[b] = "freed" => s.b_next_transaction <= freed[b]
    BY <1>1 DEF Listed
  <2>2. CASE s.b_next_transaction = 0
    <3>1. r.b_transaction = 0 /\ r.b_next_transaction = 0 /\ r.b_jlist = "None"
      BY <1>2, <2>2
    <3> HIDE DEF s, r
    <3> QED
      BY <2>1, <2>2, <3>1 DEF Listed, r
  <2>3. CASE s.b_next_transaction # 0
    <3>1. /\ r.b_transaction = s.b_next_transaction /\ r.b_next_transaction = 0
          /\ r.b_jlist \in {"Forget", "Metadata", "Reserved"} /\ ~r.dirty
      BY <1>2, <2>3
    <3> HIDE DEF s, r
    <3>2. /\ r.b_transaction = running /\ r.b_transaction # committing /\ running # 0
          /\ use[b] = "freed" => r.b_transaction <= freed[b] /\ r.b_next_transaction <= freed[b]
      BY <1>1, <2>1, <2>3, <3>1, Groups DEF Struct, Base, FsType
    <3> QED
      BY <2>1, <3>1, <3>2 DEF Listed, r
  <2> QED
    BY <2>2, <2>3
<1>5. ~aborted => Bits(b)'
  BY <1>1, <1>2, Fields DEF Bits, Listed
<1>7. Traced(b)'
  BY <1>1, <1>2 DEF Listed, Traced
<1>8. Clean(b)'
  BY <1>1, <1>2, Fields DEF Listed, Clean, On
<1>9. Kept(b)'
  <2>1. ~Logging(b) /\ ~Logging(b)'
    BY <1>1, <1>2 DEF Logging, Listed
  <2> QED
    BY <2>1, KeptFrame
<1>6. Sound(b)'
  BY <1>4, <1>5, <1>7, <1>8, <1>9 DEF Sound
<1>10. Elsewhere(b)
  BY DEF Touches, Elsewhere
<1> QED
  BY <1>1, <1>3, <1>6, <1>10, JournalStep

\* The journal is aborted: a buffer is not logged.
LEMMA DropStep ==
  ASSUME Struct, Base', NEW b \in Blocks, committing # 0, buf[b].b_transaction = committing,
         buf[b].b_jlist = "Metadata",
         UNCHANGED <<running, committing, last, phase, todo, committed, closed, tagged>>,
         UNCHANGED <<aborted, use, freed, log, wrote, h_tid, h_buf>>,
         Touches(b), UNCHANGED <<io, pc>>,
         buf'[b] = refile([buf[b] EXCEPT !.jbddirty = FALSE]), aborted
  PROVE  Struct'
<1> DEFINE s == buf[b]
           r == buf'[b]
<1>1. /\ s \in Buffer /\ Listed(b) /\ (~aborted => Bits(b)) /\ Traced(b) /\ Clean(b)
      /\ running \in 0 .. MaxTid /\ committing \in 0 .. MaxTid /\ aborted \in BOOLEAN
      /\ running # committing /\ s.b_jlist # "None"
  BY Committing
<1>2. /\ r \in Buffer /\ r.b_transaction = s.b_next_transaction /\ r.b_next_transaction = 0
      /\ r.b_jlist = IF s.b_next_transaction = 0 THEN "None" ELSE IF s.freed THEN "Forget" ELSE IF s.b_modified THEN "Metadata" ELSE "Reserved"
      /\ r.b_modified = (s.b_modified /\ (s.b_next_transaction # 0 \/ s.b_cp_transaction # 0))
      /\ r.b_frozen_data = IF s.b_next_transaction = 0 /\ s.b_cp_transaction = 0 THEN None ELSE s.b_frozen_data
      /\ r.b_cp_transaction = s.b_cp_transaction /\ r.data = s.data
      /\ r.dirty = (s.b_next_transaction = 0 /\ s.dirty)
      /\ r.jbddirty = (s.b_next_transaction # 0 /\ s.dirty) /\ r.freed = s.freed
      /\ r.bug = (s.bug \/ (s.b_next_transaction # 0 /\ s.b_next_transaction # running))
  BY <1>1, Dropped
<1>3. Keeps(b)
  BY <1>1, <1>2 DEF Keeps, Listed
<1>4. Listed(b)'
  <2>1. /\ s.b_next_transaction \in {0, running} /\ io[b] = "none"
        /\ use[b] \notin {"off", "free"}
        /\ use[b] = "freed" => s.b_next_transaction <= freed[b]
    BY <1>1 DEF Listed
  <2>2. CASE s.b_next_transaction = 0
    <3>1. r.b_transaction = 0 /\ r.b_next_transaction = 0 /\ r.b_jlist = "None"
      BY <1>2, <2>2
    <3> HIDE DEF s, r
    <3> QED
      BY <2>1, <2>2, <3>1 DEF Listed, r
  <2>3. CASE s.b_next_transaction # 0
    <3>1. /\ r.b_transaction = s.b_next_transaction /\ r.b_next_transaction = 0
          /\ r.b_jlist \in {"Forget", "Metadata", "Reserved"} /\ ~r.dirty
      BY <1>2, <2>3
    <3> HIDE DEF s, r
    <3>2. /\ r.b_transaction = running /\ r.b_transaction # committing /\ running # 0
          /\ use[b] = "freed" => r.b_transaction <= freed[b] /\ r.b_next_transaction <= freed[b]
      BY <1>1, <2>1, <2>3, <3>1, Groups DEF Struct, Base, FsType
    <3> QED
      BY <2>1, <3>1, <3>2 DEF Listed, r
  <2> QED
    BY <2>2, <2>3
<1>5. ~aborted => Bits(b)'
  BY <1>1, <1>2, Fields DEF Bits, Listed
<1>7. Traced(b)'
  BY <1>1, <1>2 DEF Traced
<1>8. Clean(b)'
  <2>1. CASE s.b_next_transaction = 0
    <3>1. r.b_transaction = 0 /\ r.b_next_transaction = 0 /\ r.dirty = s.dirty /\ ~r.jbddirty
      BY <1>1, <1>2, <2>1, Fields
    <3> QED
      BY <1>1, <2>1, <3>1, Fields DEF Listed, Clean, On
  <2>2. CASE s.b_next_transaction # 0
    <3>1. /\ r.b_transaction = s.b_next_transaction /\ r.b_next_transaction = 0 /\ r.freed = s.freed
          /\ ~r.dirty /\ r.jbddirty = s.dirty /\ (s.freed => r.b_jlist = "Forget")
      BY <1>1, <1>2, <2>2, Fields
    <3> QED
      BY <1>1, <2>2, <3>1, Fields DEF Listed, Clean, On
  <2> QED
    BY <2>1, <2>2
<1>9. Kept(b)'
  BY KeptFrame
<1>6. Sound(b)'
  BY <1>4, <1>5, <1>7, <1>8, <1>9 DEF Sound
<1>10. Elsewhere(b)
  BY DEF Touches, Elsewhere
<1> QED
  BY <1>1, <1>3, <1>6, <1>10, JournalStep

\* A buffer is checkpointed and goes to its next transaction, or to none.
LEMMA CheckpointStep ==
  ASSUME Struct, Base', NEW b \in Blocks, committing # 0, buf[b].b_transaction = committing,
         buf[b].b_jlist = "Forget",
         UNCHANGED <<running, committing, last, phase, todo, committed, closed, tagged>>,
         UNCHANGED <<aborted, use, freed, log, wrote, h_tid, h_buf>>,
         Touches(b), UNCHANGED <<io, pc>>,
         buf'[b] = Checkpointed(buf[b]), phase = "forget"
  PROVE  Struct'
<1> DEFINE s == buf[b]
           r == buf'[b]
<1>1. /\ s \in Buffer /\ Listed(b) /\ (~aborted => Bits(b)) /\ Traced(b) /\ Clean(b)
      /\ running \in 0 .. MaxTid /\ committing \in 0 .. MaxTid /\ aborted \in BOOLEAN
      /\ running # committing /\ s.b_jlist # "None"
  BY Committing
<1>2. /\ r \in Buffer /\ r.b_transaction = s.b_next_transaction /\ r.b_next_transaction = 0
      /\ r.b_jlist = IF s.b_next_transaction = 0 THEN "None" ELSE IF s.freed THEN "Forget" ELSE IF s.b_modified THEN "Metadata" ELSE "Reserved"
      /\ r.b_modified = (s.b_modified /\ (s.b_next_transaction # 0 \/ r.b_cp_transaction # 0))
      /\ r.b_frozen_data = None
      /\ r.b_cp_transaction = IF s.jbddirty /\ ~(s.freed /\ s.b_next_transaction = 0) THEN committing ELSE 0
      /\ r.data = s.data
      /\ r.dirty = (s.b_next_transaction = 0 /\ (s.dirty \/ (s.jbddirty /\ ~(s.freed /\ s.b_next_transaction = 0) /\ ~aborted)))
      /\ r.jbddirty = (s.b_next_transaction # 0 /\ (s.dirty \/ (s.jbddirty /\ ~(s.freed /\ s.b_next_transaction = 0) /\ ~aborted)))
      /\ r.freed = (s.freed /\ s.b_next_transaction # 0)
      /\ r.bug = (s.bug \/ (s.dirty /\ ~(s.jbddirty /\ ~(s.freed /\ s.b_next_transaction = 0))) \/ (s.b_next_transaction # 0 /\ s.b_next_transaction # running))
  BY <1>1, CheckpointedFields
<1>3. Keeps(b)
  BY <1>1, <1>2 DEF Keeps, Listed
<1>4. Listed(b)'
  <2>1. /\ s.b_next_transaction \in {0, running} /\ io[b] = "none"
        /\ use[b] \notin {"off", "free"}
        /\ use[b] = "freed" => s.b_next_transaction <= freed[b]
    BY <1>1 DEF Listed
  <2>2. CASE s.b_next_transaction = 0
    <3>1. r.b_transaction = 0 /\ r.b_next_transaction = 0 /\ r.b_jlist = "None"
      BY <1>2, <2>2
    <3> HIDE DEF s, r
    <3> QED
      BY <2>1, <2>2, <3>1 DEF Listed, r
  <2>3. CASE s.b_next_transaction # 0
    <3>1. /\ r.b_transaction = s.b_next_transaction /\ r.b_next_transaction = 0
          /\ r.b_jlist \in {"Forget", "Metadata", "Reserved"} /\ ~r.dirty
      BY <1>2, <2>3
    <3> HIDE DEF s, r
    <3>2. /\ r.b_transaction = running /\ r.b_transaction # committing /\ running # 0
          /\ use[b] = "freed" => r.b_transaction <= freed[b] /\ r.b_next_transaction <= freed[b]
      BY <1>1, <2>1, <2>3, <3>1, Groups DEF Struct, Base, FsType
    <3> QED
      BY <2>1, <3>1, <3>2 DEF Listed, r
  <2> QED
    BY <2>2, <2>3
<1>5. ~aborted => Bits(b)'
  BY <1>1, <1>2, Fields DEF Bits, Listed
<1>7. Traced(b)'
  <2>1. CASE s.b_next_transaction = 0
    <3>1. r.b_transaction = 0 /\ r.b_next_transaction = 0 /\ r.b_jlist = "None" /\ ~r.freed
      BY <1>1, <1>2, <2>1, Fields
    <3> QED
      BY <1>1, <2>1, <3>1, Fields DEF Listed, Traced
  <2>2. CASE s.b_next_transaction # 0
    <3>1. /\ r.b_transaction = s.b_next_transaction /\ r.b_next_transaction = 0 /\ r.freed = s.freed
          /\ r.b_jlist = "Metadata" <=> ~s.freed /\ s.b_modified
      BY <1>1, <1>2, <2>2, Fields
    <3> QED
      BY <1>1, <2>2, <3>1, Fields DEF Listed, Traced
  <2> QED
    BY <2>1, <2>2
<1>8. Clean(b)'
  <2>1. CASE s.b_next_transaction = 0
    <3>1. r.b_transaction = 0 /\ r.b_next_transaction = 0 /\ r.b_jlist = "None" /\ ~r.jbddirty
          /\ (r.dirty => s.dirty \/ (s.jbddirty /\ ~s.freed))
      BY <1>1, <1>2, <2>1, Fields
    <3> QED
      BY <1>1, <2>1, <3>1, Fields DEF Listed, Clean, On
  <2>2. CASE s.b_next_transaction # 0
    <3>1. /\ r.b_transaction = s.b_next_transaction /\ r.b_next_transaction = 0 /\ r.freed = s.freed
          /\ ~r.dirty /\ (s.freed => r.b_jlist = "Forget")
      BY <1>1, <1>2, <2>2, Fields
    <3> QED
      BY <1>1, <2>2, <3>1, Fields DEF Listed, Clean, On
  <2> QED
    BY <2>1, <2>2
<1>9. Kept(b)'
  BY KeptFrame
<1>6. Sound(b)'
  BY <1>4, <1>5, <1>7, <1>8, <1>9 DEF Sound
<1>10. Elsewhere(b)
  BY DEF Touches, Elsewhere
<1> QED
  BY <1>1, <1>3, <1>6, <1>10, JournalStep

\* The log I/O of a buffer is over.
LEMMA UnshadowStep ==
  ASSUME Struct, Base', NEW b \in Blocks, committing # 0, buf[b].b_transaction = committing,
         buf[b].b_jlist = "Shadow",
         UNCHANGED <<running, committing, last, phase, todo, committed, closed, tagged>>,
         UNCHANGED <<aborted, use, freed, log, wrote, h_tid, h_buf>>,
         Touches(b), buf'[b] = Unshadow(buf[b]), phase = "wait_for_iobuf",
         io[b] = "done", io'[b] = "none",
         \A c \in Blocks : c # b => io'[c] = io[c],
         \A q \in Procs : \/ pc'[q] = pc[q]
                          \/ pc[q] = "asleep" /\ pc'[q] = "shadow"
  PROVE  Struct'
<1> DEFINE s == buf[b]
           r == buf'[b]
<1>1. /\ s \in Buffer /\ Listed(b) /\ (~aborted => Bits(b)) /\ Traced(b) /\ Clean(b)
      /\ running \in 0 .. MaxTid /\ committing \in 0 .. MaxTid /\ aborted \in BOOLEAN
      /\ running # committing /\ s.b_jlist # "None"
  BY Committing
<1>2. /\ r \in Buffer /\ r.b_transaction = s.b_transaction
      /\ r.b_next_transaction = s.b_next_transaction /\ r.b_jlist = "Forget"
      /\ r.b_modified = s.b_modified /\ r.b_frozen_data = s.b_frozen_data
      /\ r.b_cp_transaction = s.b_cp_transaction /\ r.data = s.data
      /\ r.dirty = (s.dirty /\ s.jbddirty) /\ r.jbddirty = (s.dirty \/ s.jbddirty)
      /\ r.freed = s.freed /\ r.bug = (s.bug \/ ~s.jbddirty)
  BY <1>1, Unshadowed
<1>3. Keeps(b)
  BY <1>1, <1>2 DEF Keeps, Listed
<1>4. Listed(b)'
  BY <1>1, <1>2, Fields DEF Listed, PhaseLists
<1>5. ~aborted => Bits(b)'
  BY <1>1, <1>2, Fields DEF Bits, Listed
<1>7. Traced(b)'
  BY <1>1, <1>2 DEF Listed, Traced
<1>8. Clean(b)'
  BY <1>1, <1>2, Fields DEF Listed, Clean, On
<1>9. Kept(b)'
  <2>1. ~Logging(b) /\ ~Logging(b)'
    BY <1>1, <1>2 DEF Logging, Listed
  <2> QED
    BY <2>1, KeptFrame
<1>6. Sound(b)'
  BY <1>4, <1>5, <1>7, <1>8, <1>9 DEF Sound
<1>10. Elsewhere(b)
  BY DEF Touches, Elsewhere
<1> QED
  BY <1>1, <1>3, <1>6, <1>10, JournalStep

\* A buffer is given to the log I/O.
LEMMA LogStep ==
  ASSUME Struct, Base', phase = "log", NEW b \in On(committing, "Metadata"),
         NEW escape \in BOOLEAN, WriteMetadata(b, escape),
         UNCHANGED <<running, committing, last, phase, todo, committed, closed, tagged>>,
         UNCHANGED <<aborted, use, freed, log, wrote, pc, h_tid, h_buf>>
  PROVE  Struct'
<1> DEFINE s == buf[b]
           r == buf'[b]
<1>1. /\ b \in Blocks /\ Touches(b) /\ committing # 0
      /\ s.b_transaction = committing /\ s.b_jlist = "Metadata"
      /\ io' = [io EXCEPT ![b] = IF r.b_frozen_data = None THEN "page" ELSE "frozen"]
      /\ r.b_transaction = s.b_transaction /\ r.b_next_transaction = s.b_next_transaction
      /\ r.b_jlist = "Shadow" /\ r.b_modified = s.b_modified
      /\ r.dirty = (s.dirty /\ s.jbddirty) /\ r.jbddirty = (s.dirty \/ s.jbddirty)
      /\ r.b_frozen_data = IF escape /\ s.b_frozen_data = None THEN s.data ELSE s.b_frozen_data
      /\ r.data = s.data /\ r.freed = s.freed /\ r.bug = (s.bug \/ ~s.jbddirty)
  BY LogEffect DEF Struct
<1>2. /\ s \in Buffer /\ Listed(b) /\ (~aborted => Bits(b)) /\ Traced(b) /\ Clean(b)
      /\ running # committing
  BY <1>1, Committing
<1>3. /\ io'[b] = (IF r.b_frozen_data = None THEN "page" ELSE "frozen") /\ io'[b] # "none"
      /\ \A c \in Blocks : c # b => io'[c] = io[c]
  BY <1>1, Groups DEF Struct, Base, RestType
<1>4. Keeps(b)
  BY <1>1 DEF Keeps
<1>5. Listed(b)'
  BY <1>1, <1>2, <1>3, Fields DEF Listed, PhaseLists
<1>6. ~aborted => Bits(b)'
  BY <1>1, <1>2 DEF Bits
<1>8. Traced(b)'
  BY <1>1, <1>2, <1>3, Fields, Numbers DEF Listed, Traced
<1>9. Clean(b)'
  BY <1>1, <1>2, Fields DEF Listed, Clean, On
<1>10. Kept(b)'
  <2>1. Logging(b)' /\ Logging(b)
    BY <1>1, <1>2, <1>3 DEF Logging, Listed
  <2>2. Copied(b)' = Copied(b)
    BY <1>1, <1>2, Fields, Numbers DEF Copied
  <2> QED
    BY <1>1, <2>1, <2>2, KeptFrame
<1>7. Sound(b)'
  BY <1>5, <1>6, <1>8, <1>9, <1>10 DEF Sound
<1>11. Elsewhere(b)
  BY <1>1, <1>3 DEF Touches, Elsewhere
<1> QED
  BY <1>1, <1>2, <1>4, <1>7, <1>11, JournalStep

\* LogBuffer
LEMMA LogStruct ==
  ASSUME Struct, LogBuffer
  PROVE  Struct'
<1>1. /\ UNCHANGED <<running, committing, last, todo, committed, closed, tagged>>
      /\ UNCHANGED <<aborted, use, freed, log, wrote, pc, h_tid, h_buf>> /\ Base'
      /\ phase = "log"
  BY LogBase DEF LogBuffer, procVars, blockVars, Struct
<1>2. committing # 0
  BY <1>1 DEF Struct, Base, TidInv
<1>3. CASE \E b \in On(committing, "Metadata") :
             /\ \E escape \in BOOLEAN : WriteMetadata(b, escape)
             /\ UNCHANGED phase
  BY <1>1, <1>3, LogStep
<1>4. ASSUME NEW b \in On(committing, "Metadata"), aborted, UNCHANGED <<phase, io>>,
             buf' = [buf EXCEPT ![b] = refile([@ EXCEPT !.jbddirty = FALSE])]
      PROVE  Struct'
  <2>1. b \in Blocks /\ buf[b].b_transaction = committing /\ buf[b].b_jlist = "Metadata"
    BY <1>4 DEF On
  <2>2. Touches(b) /\ buf'[b] = refile([buf[b] EXCEPT !.jbddirty = FALSE])
    BY <1>4, <2>1, DropEffect DEF Struct, Base
  <2> QED
    BY <1>1, <1>2, <1>4, <2>1, <2>2, DropStep
<1>5. CASE On(committing, "Metadata") = {} /\ phase' = "wait_for_data" /\ UNCHANGED <<buf, io>>
  <2>1. ASSUME NEW b \in Blocks, buf[b].b_transaction = committing
        PROVE  buf[b].b_jlist \in PhaseLists'
    BY <1>1, <1>2, <1>5, <2>1 DEF On, Struct, ListInv, Sound, Listed, PhaseLists
  <2>2. \A b \in Blocks : Kept(b)' /\ Clean(b)'
    BY <1>1, <1>5, LoopKept
  <2> QED
    BY <1>1, <1>5, <2>1, <2>2, PhaseStep
<1> QED
  BY <1>3, <1>4, <1>5 DEF LogBuffer

\* WaitForData
LEMMA WaitDataStruct ==
  ASSUME Struct, WaitForData
  PROVE  Struct'
<1>1. /\ UNCHANGED <<running, committing, last, todo, committed, closed, tagged>>
      /\ UNCHANGED <<aborted, use, freed, io, log, wrote, pc, h_tid, h_buf>> /\ Base'
      /\ phase = "wait_for_data"
  BY WaitDataBase DEF WaitForData, procVars, blockVars, Struct
<1>2. committing # 0
  BY <1>1 DEF Struct, Base, TidInv
<1>3. ASSUME NEW b \in On(committing, "Dirtydata"), UNCHANGED phase,
             buf' = [buf EXCEPT ![b] = refile(@)]
      PROVE  Struct'
  <2>1. b \in Blocks /\ buf[b].b_transaction = committing /\ buf[b].b_jlist = "Dirtydata"
    BY <1>3 DEF On
  <2>2. Touches(b) /\ buf'[b] = refile(buf[b])
    BY <1>3, <2>1, RefileEffect DEF Struct, Base
  <2> QED
    BY <1>1, <1>2, <1>3, <2>1, <2>2, RefileStep
<1>4. CASE On(committing, "Dirtydata") = {} /\ phase' = "wait_for_iobuf" /\ UNCHANGED buf
  <2>1. ASSUME NEW b \in Blocks, buf[b].b_transaction = committing
        PROVE  buf[b].b_jlist \in PhaseLists'
    BY <1>1, <1>2, <1>4, <2>1 DEF On, Struct, ListInv, Sound, Listed, PhaseLists
  <2>2. \A b \in Blocks : Kept(b)' /\ Clean(b)'
    BY <1>1, <1>4, LoopKept
  <2> QED
    BY <1>1, <1>4, <2>1, <2>2, PhaseStep
<1> QED
  BY <1>3, <1>4 DEF WaitForData

\* WaitForIobuf
LEMMA WaitIoStruct ==
  ASSUME Struct, WaitForIobuf
  PROVE  Struct'
<1>1. /\ UNCHANGED <<running, committing, last, todo, committed, closed, tagged>>
      /\ UNCHANGED <<aborted, use, freed, log, wrote, h_tid, h_buf>> /\ Base'
      /\ phase = "wait_for_iobuf"
  BY WaitIoBase DEF WaitForIobuf, blockVars, Struct
<1>2. committing # 0
  BY <1>1 DEF Struct, Base, TidInv
<1>3. ASSUME NEW b \in Blocks, io[b] = "done", io' = [io EXCEPT ![b] = "none"], UNCHANGED phase,
             buf' = [buf EXCEPT ![b] = Unshadow(@)], pc' = Woken(b)
      PROVE  Struct'
  <2>1. io'[b] = "none" /\ \A c \in Blocks : c # b => io'[c] = io[c]
    BY <1>3, Groups DEF Struct, Base, RestType
  <2>2. Touches(b) /\ buf'[b] = Unshadow(buf[b])
    BY <1>3, UnshadowEffect DEF Struct, Base
  <2>3. \A q \in Procs : pc'[q] = pc[q] \/ (pc[q] = "asleep" /\ pc'[q] = "shadow")
    BY <1>3 DEF Woken
  <2>4. buf[b].b_jlist = "Shadow" /\ buf[b].b_transaction = committing
    <3>1. Listed(b)
      BY DEF Struct, ListInv, Sound
    <3> QED
      BY <1>3, <3>1 DEF Listed
  <2> QED
    BY <1>1, <1>2, <1>3, <2>1, <2>2, <2>3, <2>4, UnshadowStep
<1>4. CASE (\A b \in Blocks : io[b] = "none") /\ phase' = "record" /\ UNCHANGED <<io, buf, pc>>
  <2>1. ASSUME NEW b \in Blocks, buf[b].b_transaction = committing
        PROVE  buf[b].b_jlist \in PhaseLists'
    BY <1>1, <1>2, <1>4, <2>1 DEF Struct, ListInv, Sound, Listed, PhaseLists
  <2>2. \A b \in Blocks : Kept(b)' /\ Clean(b)'
    BY <1>1, <1>4, LoopKept
  <2> QED
    BY <1>1, <1>4, <2>1, <2>2, PhaseStep
<1> QED
  BY <1>3, <1>4 DEF WaitForIobuf

\* ForgetBuffer
LEMMA FinishStruct ==
  ASSUME Struct, ForgetBuffer
  PROVE  Struct'
<1>1. /\ UNCHANGED <<running, last, todo, committed, closed, tagged>>
      /\ UNCHANGED <<aborted, use, freed, io, log, wrote, pc, h_tid, h_buf>> /\ Base'
      /\ phase = "forget"
  BY FinishBase DEF ForgetBuffer, procVars, blockVars, Struct
<1>2. committing # 0
  BY <1>1 DEF Struct, Base, TidInv
<1>3. ASSUME NEW b \in On(committing, "Forget"), UNCHANGED <<phase, committing>>,
             buf' = [buf EXCEPT ![b] = Checkpointed(@)]
      PROVE  Struct'
  <2>1. /\ b \in Blocks /\ Touches(b) /\ buf'[b] = Checkpointed(buf[b])
        /\ buf[b].b_transaction = committing /\ buf[b].b_jlist = "Forget"
    BY <1>3, CheckpointedEffect DEF Struct, Base
  <2> QED
    BY <1>1, <1>2, <1>3, <2>1, CheckpointStep
<1>4. CASE On(committing, "Forget") = {} /\ phase' = "none" /\ committing' = 0 /\ UNCHANGED buf
  <2>1. ASSUME NEW b \in Blocks
        PROVE  /\ Listed(b) /\ (~aborted => Bits(b)) /\ Traced(b) /\ Kept(b) /\ Clean(b)
               /\ buf[b].b_transaction # committing /\ buf[b].b_next_transaction = 0
    <3>1. Listed(b) /\ (~aborted => Bits(b)) /\ Traced(b) /\ Kept(b) /\ Clean(b)
      BY DEF Struct, ListInv, Sound
    <3>2. buf[b].b_transaction # committing
      BY <1>1, <1>2, <1>4, <3>1 DEF On, Listed, PhaseLists
    <3> QED
      BY <1>2, <3>1, <3>2 DEF Listed
  <2>2. ListInv'
    <3> SUFFICES ASSUME NEW b \in Blocks PROVE Sound(b)'
      BY DEF ListInv
    <3>1. Listed(b)'
      BY <1>1, <1>4, <2>1 DEF Listed
    <3>2. ~aborted => Bits(b)'
      BY <1>1, <1>2, <1>4, <2>1 DEF Bits
    <3>3. Traced(b)' /\ Clean(b)'
      BY <1>1, <1>4, <2>1 DEF Traced, Clean, On
    <3>4. Kept(b)'
      BY <1>1, <1>4, <2>1 DEF Kept
    <3> QED
      BY <1>1, <3>1, <3>2, <3>3, <3>4 DEF Sound
  <2>3. Alone'
    BY <1>1 DEF Struct, Alone, Works
  <2>4. OwnInv'
    <3> SUFFICES ASSUME NEW q \in Procs PROVE Owner(q)'
      BY DEF OwnInv
    <3>1. Waiting(q) => h_buf[q] \in Blocks
      BY Working DEF Struct, Waiting
    <3>2. Waiting(q) /\ buf[h_buf[q]].b_jlist = "Dirtydata" => buf[h_buf[q]].b_transaction # 0
      BY <2>1, <3>1 DEF Listed
    <3> QED
      BY <1>1, <1>4, <3>2 DEF Struct, OwnInv, Owner, Waiting, Holding
  <2> QED
    BY <1>1, <2>2, <2>3, <2>4 DEF Struct
<1> QED
  BY <1>3, <1>4 DEF ForgetBuffer

\* CommitSwitch
LEMMA SwitchStruct ==
  ASSUME Struct, CommitSwitch
  PROVE  Struct'
<1>1. /\ running # 0 /\ committing = 0 /\ running \in Tids
      /\ \A q \in Procs : pc[q] = "idle"
  BY AllIdle DEF Struct
<1>2. /\ UNCHANGED <<last, committed, aborted, use, freed, io, log, pc, h_tid, h_buf>> /\ Base'
      /\ phase' = "data" /\ committing' = running /\ running' = 0
      /\ wrote' = {} /\ todo' = On(running, "Dirtydata")
  BY SwitchBase DEF CommitSwitch, procVars, blockVars, Struct
<1>5. /\ \A t \in Tids \ {running} : closed'[t] = closed[t] /\ tagged'[t] = tagged[t]
      /\ \A b \in Blocks : closed'[running][b] = IF b \in wrote \cup tags THEN buf[b].data ELSE None
      /\ tagged'[running] = tags \ wrote
  BY <1>1, Groups DEF Struct, Base, CommitType, CommitSwitch
<1>6. committed \ {0} \subseteq Tids \ {running}
  BY <1>1, CommittedTids, Groups DEF Struct, Base, TidInv, CommitType
<1>3. Alone' /\ OwnInv'
  BY <1>1, <1>2 DEF Alone, Works, OwnInv, Owner, Waiting, Holding
<1>4. ListInv'
  <2> SUFFICES ASSUME NEW b \in Blocks PROVE Sound(b)'
    BY DEF ListInv
  <2> DEFINE s == buf[b]
             r == buf'[b]
  <2>1. /\ s \in Buffer /\ Listed(b) /\ (~aborted => Bits(b)) /\ running \in 0 .. MaxTid
        /\ Traced(b) /\ Kept(b) /\ Clean(b)
        /\ r = IF b \in On(running, "Reserved") THEN refile(s) ELSE s
    BY Groups, SwitchEffect DEF Struct, Base, BufType, CommitType, ListInv, Sound
  <2>2. s.b_next_transaction = 0 /\ s.b_transaction \in {0, running}
    BY <1>1, <2>1 DEF Listed
  <2>5. io[b] = "none" /\ (~aborted => s.b_frozen_data = None)
    BY <1>1, <2>1, <2>2 DEF Listed, Bits
  <2>6. ASSUME Logging(b)' <=> s.b_transaction = running /\ s.b_jlist = "Metadata",
               Logging(b)' => r = s
        PROVE  Kept(b)'
    <3>1. \A t \in Tids : t > last' \/ t = running' => log'[t][b] = None
      BY <1>2, <2>1 DEF Kept, Tids
    <3>2. \A t \in committed' \ {0} : b \notin tagged'[t] => log'[t][b] = closed'[t][b]
      BY <1>2, <1>5, <1>6, <2>1 DEF Kept
    <3>3. ~aborted /\ Logging(b)' => Copied(b)' = closed'[running][b]
      BY <1>1, <1>5, <2>1, <2>5, <2>6 DEF Traced, Copied
    <3>4. ~aborted /\ ~Logging(b)' /\ b \notin tagged'[running] =>
            log'[running][b] = closed'[running][b]
      <4>1. log'[running][b] = None
        BY <1>1, <1>2, <2>1 DEF Kept
      <4>2. ~aborted /\ ~Logging(b)' => b \notin wrote
        BY <2>1, <2>2, <2>6 DEF Traced
      <4> QED
        BY <1>5, <4>1, <4>2
    <3> QED
      BY <1>2, <3>1, <3>2, <3>3, <3>4 DEF Kept
  <2>3. CASE b \in On(running, "Reserved")
    <3>1. s.b_transaction = running /\ s.b_jlist = "Reserved"
      BY <2>3 DEF On
    <3>2. /\ r.b_transaction = 0 /\ r.b_next_transaction = 0 /\ r.b_jlist = "None"
          /\ r.b_frozen_data = IF s.b_cp_transaction = 0 THEN None ELSE s.b_frozen_data
          /\ ~r.jbddirty /\ r.freed = s.freed /\ r.bug = s.bug
      BY <2>1, <2>2, <2>3, <3>1, RefiledFields, Fields
    <3>3. /\ io[b] = "none" /\ use[b] \notin {"off", "free"}
          /\ use[b] = "freed" => 0 <= freed[b]
      BY <1>1, <2>1, <2>2, <3>1 DEF Listed
    <3>6. Kept(b)'
      <4>1. ~Logging(b)'
        BY <3>2 DEF Logging
      <4> QED
        BY <2>6, <3>1, <4>1
    <3>7. Traced(b)'
      BY <1>2, <2>1, <2>5, <3>2 DEF Traced
    <3>8. Clean(b)'
      BY <1>1, <1>2, <2>1, <3>1, <3>2 DEF Clean, On
    <3> HIDE DEF s, r
    <3>4. Listed(b)'
      BY <1>1, <1>2, <3>2, <3>3 DEF Listed, r
    <3>5. ~aborted => Bits(b)'
      BY <1>1, <1>2, <2>1, <3>2 DEF Bits, r, s
    <3> QED
      BY <1>2, <3>4, <3>5, <3>6, <3>7, <3>8 DEF Sound
  <2>4. CASE b \notin On(running, "Reserved")
    <3>1. r = s /\ ~(s.b_transaction = running /\ s.b_jlist = "Reserved") /\ s.b_jlist \in Lists
      BY <2>1, <2>4, Fields DEF On
    <3>2. Listed(b)'
      BY <1>1, <1>2, <2>1, <2>2, <3>1 DEF Listed, PhaseLists, Lists
    <3>3. ~aborted => Bits(b)'
      BY <1>1, <1>2, <2>1, <2>2, <3>1 DEF Bits
    <3>4. Kept(b)'
      <4>1. Logging(b)' <=> s.b_transaction = running /\ s.b_jlist = "Metadata"
        BY <1>1, <1>2, <2>1, <2>5, <3>1 DEF Logging, Listed
      <4> QED
        BY <2>6, <3>1, <4>1
    <3>5. Traced(b)'
      BY <1>2, <2>1, <2>2, <2>5, <3>1 DEF Traced
    <3>6. Clean(b)'
      BY <1>1, <1>2, <2>1, <2>2, <3>1 DEF Clean, On
    <3> QED
      BY <1>2, <3>2, <3>3, <3>4, <3>5, <3>6 DEF Sound
  <2> QED
    BY <2>3, <2>4
<1> QED
  BY <1>2, <1>3, <1>4 DEF Struct

\* No step disturbs the buffers.
LEMMA StructNext ==
  ASSUME Struct, [Next]_vars
  PROVE  Struct'
<1>1. ASSUME NEW p \in Procs, AccessStep(p)
      PROVE  Struct'
  BY <1>1, OwnedStruct, AbortedStruct, FrozenStruct, ForgetStruct, CopyStruct, AllocStruct,
     FrozenAllocStruct, FileStruct, ShadowStruct, PrepareStruct, CheckStruct DEF AccessStep
<1>2. ASSUME NEW p \in Procs,
             \/ jbdbf_journal_start(p) \/ jbdbf_journal_stop(p)
             \/ DirtyAgain(p) \/ Modify(p) \/ jbdbf_journal_release_buffer(p)
             \/ jbdbf_journal_dirty_metadata(p) \/ jbdbf_journal_dirty_data(p)
      PROVE  Struct'
  BY <1>2, StartStruct, StopStruct, DirtyAgainStruct, ModifyStruct, ReleaseStruct, DirtyStruct,
     AppendedStruct
<1>3. ASSUME NEW p \in Procs, NEW b \in Blocks,
             \/ GetWriteAccess(p, b) \/ jbdbf_journal_get_create_access(p, b) \/ Append(p, b)
             \/ jbdbf_journal_forget(p, b) \/ Shrink(p, b) \/ FreeBlocks(p, b)
      PROVE  Struct'
  BY <1>3, GetStruct, CreateStruct, AppendStruct, ForgetBlockStruct, ShrinkStruct, FreeStruct
<1>4. ASSUME CommitLock \/ CommitStep \/ LogIO \/ jbdbf_cleanup_journal_tail \/ Abort
      PROVE  Struct'
  BY <1>4, StillStruct, SwitchStruct, IssueStruct, LogStruct, WaitDataStruct, WaitIoStruct,
     FinishStruct, LogIOStruct DEF CommitStep
<1>5. ASSUME NEW b \in Blocks,
             \/ jbdbf_journal_invalidatepage(b)
             \/ WriteBack(b) \/ RemoveCheckpoint(b) \/ FailCheckpoint(b)
      PROVE  Struct'
  BY <1>5, InvalidateStruct, WriteBackStruct, RemoveStruct DEF RemoveCheckpoint, FailCheckpoint
<1>6. CASE UNCHANGED vars
  <2>1. /\ UNCHANGED <<running, committing, last, phase, todo, committed, closed, tagged>>
        /\ UNCHANGED <<aborted, use, freed, io, log, wrote, pc, h_tid, h_buf, buf>> /\ Base'
    BY <1>6, BaseNext DEF vars, commitVars, procVars, blockVars, Struct
  <2>2. ASSUME NEW b \in Blocks, committing # 0, buf[b].b_transaction = committing
        PROVE  buf[b].b_jlist \in PhaseLists'
    BY <2>1, <2>2 DEF Struct, ListInv, Sound, Listed, PhaseLists
  <2>3. \A b \in Blocks : Kept(b)' /\ Clean(b)'
    BY <2>1 DEF Struct, ListInv, Sound, Kept, Logging, Copied, Clean, On
  <2> QED
    BY <2>1, <2>2, <2>3, PhaseStep
<1> QED
  BY <1>1, <1>2, <1>3, <1>4, <1>5, <1>6 DEF Next

\* In the initial states no buffer is on a list.
LEMMA StructInit ==
  ASSUME Init, ~Overtakes
  PROVE  Struct
<1>1. Base
  BY BaseInit
<1>2. Alone /\ OwnInv
  BY DEF Init, Alone, Works, OwnInv, Owner, Waiting, Holding
<1>3. ListInv
  <2> SUFFICES ASSUME NEW b \in Blocks PROVE Sound(b)
    BY DEF ListInv
  <2>1. buf[b] = Fresh /\ io[b] = "none" /\ use[b] \in {"used", "free", "off"}
    BY DEF Init
  <2>2. Listed(b) /\ Bits(b)
    BY <2>1 DEF Init, Listed, Bits, Fresh, PhaseLists
  <2>3. Traced(b) /\ Clean(b)
    BY <2>1 DEF Init, Traced, Clean, On, Fresh
  <2>4. Kept(b)
    BY DEF Init, Kept
  <2> QED
    BY <2>2, <2>3, <2>4 DEF Sound
<1> QED
  BY <1>1, <1>2, <1>3 DEF Struct

\* Struct is an invariant where no block is written again while its append commits.
LEMMA StructHolds == Spec => [](~Overtakes => Struct)
<1>1. Init => (~Overtakes => Struct)
  BY StructInit
<1>2. (~Overtakes => Struct) /\ [Next]_vars => (~Overtakes => Struct)'
  BY StructNext
<1> QED
  BY <1>1, <1>2, PTL DEF Spec

\* AssertionsHold, where no block is written again while its append commits: until the
\* journal is aborted no J_ASSERT of transaction.c and commit.c fails and dirty_metadata
\* never reports -EINVAL, for any number of processes, blocks and transactions.
THEOREM AssertionsNeverFail == Spec => [](~Overtakes => AssertionsHold)
<1>1. (~Overtakes => Struct) => (~Overtakes => AssertionsHold)
  BY DEF Struct, ListInv, Sound, Bits, AssertionsHold
<1> QED
  BY <1>1, StructHolds, PTL

\* LoggedIsClosed, under the same condition: the log of a transaction with a commit
\* record has of every block the transaction changed, and of no other, what was in it
\* when the transaction was closed, although the next transaction shares the buffers:
\* it waits for the log I/O or leaves a copy behind.
THEOREM LogIsWhatWasClosed == Spec => [](~Overtakes => LoggedIsClosed)
<1>1. (~Overtakes => Struct) => (~Overtakes => LoggedIsClosed)
  BY DEF Struct, ListInv, Sound, Kept, LoggedIsClosed
<1> QED
  BY <1>1, StructHolds, PTL

\* TruncatedIsClean, under the same condition: when the transaction that freed a
\* truncated block has finished and the block can be allocated again, the old buffer is
\* on no list and will not be written, whichever of the two transactions had it when
\* jbdbf_journal_invalidatepage met it.
THEOREM TruncatedStaysClean == Spec => [](~Overtakes => TruncatedIsClean)
<1>1. (~Overtakes => Struct) => (~Overtakes => TruncatedIsClean)
  <2> SUFFICES ASSUME Struct, NEW b \in Data, use[b] = "freed", Available(b)
               PROVE  buf[b].b_transaction = 0 /\ ~buf[b].dirty /\ ~buf[b].jbddirty
    BY DEF TruncatedIsClean
  <2>1. b \in Blocks
    BY Constant
  <2>2. buf[b].b_transaction = 0
    BY <2>1, AvailableClean
  <2> QED
    BY <2>1, <2>2 DEF Struct, ListInv, Sound, Clean
<1> QED
  BY <1>1, StructHolds, PTL

=============================================================================
