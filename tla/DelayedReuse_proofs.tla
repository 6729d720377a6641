------------------------- MODULE DelayedReuse_proofs -------------------------
(***************************************************************************)
(* Proofs about DelayedReuse: no block returns before its freeing is       *)
(* durable and none is lost or returned twice, for any number of blocks    *)
(* and transactions.                                                       *)
(***************************************************************************)
EXTENDS DelayedReuse, Extrema, SequenceTheorems

-----------------------------------------------------------------------------
(* The inductive invariant *)

WalkPlaces == {"check", "item", "delete", "done", "sleepy", "asleep", "exited",
            "mounted", "stop", "join", "gone"}

(* The functions that TypeOK looks into; the thread goes on while its batch   *)
(* is not full.                                                              *)
Shapes ==
  /\ pc \in [Walkers -> WalkPlaces] /\ dr_count \in [Walkers -> Nat]
  /\ pc["thread"] \in {"item", "delete"} => dr_count["thread"] < Batch
  /\ priv \in [running : Seq(Entry), committing : Seq(Entry)]

(* The commits are written in order, until one fails; the committing         *)
(* transaction has entries until its callback is done.                       *)
CommitInv ==
  /\ ~aborted => written = 1 .. (IF phase = "record" THEN running - 2 ELSE running - 1)
  /\ \A t \in written : t < running /\ 1 .. t \subseteq written
  /\ phase # "none" => running > 1
  /\ phase = "none" => priv.committing = <<>>
  /\ freeing # "none" => use[freeing] \in {"used", "held"}
  /\ pc["umount"] # "mounted" => freeing = "none" /\ phase = "none" /\ priv.running = <<>>

(* An entry is on one list, once, and moves with its transaction. *)
StageInv ==
  /\ IsInjective(priv.running) /\ IsInjective(priv.committing) /\ IsInjective(list)
  /\ \A e \in Range(priv.running) : e.t = running
  /\ \A e \in Range(priv.committing) : e.t = running - 1 /\ e \notin Range(list)
  /\ \A e \in Range(list) : e.t < running

Entries == Range(priv.running) \cup Range(priv.committing) \cup Range(list)

(* Entries are those of held blocks, but for the one the thread is dropping. *)
Dropping(e) == pc["thread"] = "delete" /\ cur["thread"] = e
Held(e)     == use[e.b] = "held" /\ freed[e.b] = e.t

HeldInv ==
  pc["umount"] = "mounted" =>
    /\ \A b \in Blocks : use[b] = "held" => [b |-> b, t |-> freed[b]] \in Entries
    /\ \A e \in Entries : ~Held(e) => Dropping(e)
    /\ pc["thread"] = "delete" => ~Held(cur["thread"])

(* A walk is at the first entry, and goes on to the second. *)
AtFirst(w) ==
  pc[w] \in {"item", "delete"} =>
    /\ Len(list) >= 1 /\ cur[w] = list[1]
    /\ next[w] = End \/ (Len(list) >= 2 /\ next[w] = list[2])

WalkInv == pc["umount"] = "mounted" => AtFirst("thread")

(* The delay of an entry counts from after its commit record, if it has one. *)
Delayed(e) == freed[e.b] = e.t /\ (1 .. e.t \subseteq d_ftime[e.b] \/ Lost(e.t))

DelayInv ==
  /\ \A b \in aged : d_ftime[b] \subseteq durable
  /\ \A e \in Range(list) : Delayed(e) \/ Dropping(e)
  /\ pc["thread"] = "item" => Delayed(cur["thread"])
  /\ pc["thread"] \in {"item", "delete"} =>
       /\ cur["thread"] # End
       /\ next["thread"] # End => Delayed(next["thread"]) /\ next["thread"] # cur["thread"]
  /\ ReleasedIsDurable

ReuseInv == Shapes /\ CommitInv /\ StageInv /\ HeldInv /\ WalkInv /\ DelayInv

-----------------------------------------------------------------------------
(* Lists *)

\* A sequence is a function on its positions.
LEMMA SeqIs ==
  ASSUME NEW S, NEW s \in Seq(S)
  PROVE  /\ Len(s) \in Nat /\ DOMAIN s = 1 .. Len(s)
         /\ \A i \in 1 .. Len(s) : s[i] \in S
         /\ \A x \in Range(s) : x \in S /\ \E i \in 1 .. Len(s) : x = s[i]
         /\ \A i \in 1 .. Len(s) : s[i] \in Range(s)
BY LenProperties, ElementOfSeq DEF Range

\* The entries of a list without repetition are at different positions.
LEMMA InjectiveIs ==
  ASSUME NEW S, NEW s \in Seq(S)
  PROVE  IsInjective(s) <=> \A i, j \in 1 .. Len(s) : s[i] = s[j] => i = j
BY LenProperties DEF IsInjective

\* An entry has one place in a list.
LEMMA OnePlace ==
  ASSUME NEW S, NEW s \in Seq(S), IsInjective(s), NEW i \in 1 .. Len(s)
  PROVE  Places(s, s[i]) = {i} /\ Min(Places(s, s[i])) = i
<1>1. Places(s, s[i]) = {i}
  BY SeqIs, InjectiveIs DEF Places
<1>2. {i} \in SUBSET Nat /\ {i} # {}
  BY SeqIs
<1>3. Min({i}) = i
  BY <1>2, MinIsSmallest
<1> QED
  BY <1>1, <1>3

\* What follows an entry is another entry of the list, or the end.
LEMMA FollowingIs ==
  ASSUME NEW S, NEW s \in Seq(S), IsInjective(s), NEW e, End \notin S
  PROVE  /\ Following(s, e) # End => Following(s, e) \in Range(s) /\ Following(s, e) # e
         /\ s # <<>> /\ e = s[1] =>
              Following(s, e) = End \/ (Len(s) >= 2 /\ Following(s, e) = s[2])
<1>1. CASE e \notin Range(s)
  <2>1. Places(s, e) = {}
    BY <1>1 DEF Places, Range
  <2>2. s # <<>> => s[1] \in Range(s)
    BY SeqIs
  <2> QED
    BY <1>1, <2>1, <2>2 DEF Following
<1>2. CASE e \in Range(s)
  <2>1. PICK i \in 1 .. Len(s) : e = s[i]
    BY <1>2, SeqIs
  <2>2. Places(s, e) = {i} /\ Min(Places(s, e)) = i
    BY <2>1, OnePlace
  <2>3. Following(s, e) = IF i = Len(s) THEN End ELSE s[i + 1]
    BY <2>2 DEF Following
  <2>4. i # Len(s) => i + 1 \in 1 .. Len(s) /\ s[i + 1] \in Range(s) /\ s[i + 1] # s[i]
    BY SeqIs, InjectiveIs
  <2>5. s # <<>> /\ e = s[1] => i = 1
    <3>1. 1 \in 1 .. Len(s) /\ \A j, k \in 1 .. Len(s) : s[j] = s[k] => j = k
      BY SeqIs, InjectiveIs
    <3> QED
      BY <2>1, <3>1
  <2> QED
    BY <2>1, <2>3, <2>4, <2>5, SeqIs
<1> QED
  BY <1>1, <1>2

\* Removing a position moves up what comes after it.
LEMMA RemoveAtIs ==
  ASSUME NEW S, NEW s \in Seq(S), NEW n \in 1 .. Len(s)
  PROVE  /\ RemoveAt(s, n) \in Seq(S) /\ Len(RemoveAt(s, n)) = Len(s) - 1
         /\ \A i \in 1 .. Len(s) - 1 : RemoveAt(s, n)[i] = IF i < n THEN s[i] ELSE s[i + 1]
<1> DEFINE a == SubSeq(s, 1, n - 1)
           z == SubSeq(s, n + 1, Len(s))
<1>1. Len(s) \in Nat /\ \A i \in 1 .. Len(s) : s[i] \in S
  BY SeqIs
<1>2. /\ a \in Seq(S) /\ Len(a) = n - 1
      /\ \A i \in 1 .. n - 1 : a[i] = s[i]
  <2>1. \A i \in 1 .. n - 1 : s[i] \in S
    BY <1>1
  <2>2. /\ SubSeq(s, 1, n - 1) \in Seq(S)
        /\ Len(SubSeq(s, 1, n - 1)) = IF 1 <= n - 1 THEN n - 1 - 1 + 1 ELSE 0
        /\ \A i \in 1 .. n - 1 - 1 + 1 : SubSeq(s, 1, n - 1)[i] = s[1 + i - 1]
    <3>1. 1 \in Int /\ n - 1 \in Int
      BY <1>1
    <3> QED
      BY <2>1, <3>1, SubSeqProperties
  <2>3. \A i \in 1 .. n - 1 : i \in 1 .. n - 1 - 1 + 1 /\ 1 + i - 1 = i
    BY <1>1
  <2> QED
    BY <1>1, <2>2, <2>3
<1>3. /\ z \in Seq(S) /\ Len(z) = Len(s) - n
      /\ \A i \in 1 .. Len(s) - n : z[i] = s[n + i]
  <2>1. \A i \in n + 1 .. Len(s) : s[i] \in S
    BY <1>1
  <2>2. /\ SubSeq(s, n + 1, Len(s)) \in Seq(S)
        /\ Len(SubSeq(s, n + 1, Len(s))) = IF n + 1 <= Len(s) THEN Len(s) - (n + 1) + 1 ELSE 0
        /\ \A i \in 1 .. Len(s) - (n + 1) + 1 : SubSeq(s, n + 1, Len(s))[i] = s[n + 1 + i - 1]
    <3>1. n + 1 \in Int /\ Len(s) \in Int
      BY <1>1
    <3> QED
      BY <2>1, <3>1, SubSeqProperties
  <2>3. \A i \in 1 .. Len(s) - n : i \in 1 .. Len(s) - (n + 1) + 1 /\ n + 1 + i - 1 = n + i
    BY <1>1
  <2> QED
    BY <1>1, <2>2, <2>3
<1>4. RemoveAt(s, n) = a \o z
  BY DEF RemoveAt
<1> HIDE DEF a, z
<1>5. /\ a \o z \in Seq(S)
      /\ Len(a \o z) = Len(a) + Len(z)
      /\ \A i \in 1 .. Len(a) + Len(z) : (a \o z)[i] = IF i <= Len(a) THEN a[i] ELSE z[i - Len(a)]
  BY <1>2, <1>3, ConcatProperties
<1>6. Len(a) + Len(z) = Len(s) - 1
  BY <1>1, <1>2, <1>3
<1>7. ASSUME NEW i \in 1 .. Len(s) - 1
      PROVE  (a \o z)[i] = IF i < n THEN s[i] ELSE s[i + 1]
  <2>1. CASE i < n
    BY <1>1, <1>2, <1>5, <1>6, <2>1
  <2>2. CASE ~(i < n)
    <3>1. i - Len(a) \in 1 .. Len(s) - n /\ n + (i - Len(a)) = i + 1 /\ ~(i <= Len(a))
      BY <1>1, <1>2, <2>2
    <3>2. (a \o z)[i] = z[i - Len(a)]
      BY <1>5, <1>6, <3>1
    <3> QED
      BY <1>3, <2>2, <3>1, <3>2
  <2> QED
    BY <2>1, <2>2
<1> QED
  BY <1>4, <1>5, <1>6, <1>7

\* What list_del leaves of a list.
LEMMA UnlinkIs ==
  ASSUME NEW S, NEW s \in Seq(S), IsInjective(s), NEW e
  PROVE  /\ Unlink(s, e) \in Seq(S) /\ IsInjective(Unlink(s, e))
         /\ Range(Unlink(s, e)) = Range(s) \ {e}
         /\ s # <<>> /\ e = s[1] =>
              /\ Len(Unlink(s, e)) = Len(s) - 1
              /\ \A i \in 1 .. Len(s) - 1 : Unlink(s, e)[i] = s[i + 1]
<1>1. CASE e \notin Range(s)
  <2>1. Places(s, e) = {}
    BY <1>1 DEF Places, Range
  <2>2. s # <<>> => s[1] \in Range(s)
    BY SeqIs
  <2> QED
    BY <1>1, <2>1, <2>2 DEF Unlink
<1>2. CASE e \in Range(s)
  <2>1. PICK n \in 1 .. Len(s) : e = s[n]
    BY <1>2, SeqIs
  <2>2. Places(s, e) = {n} /\ Min(Places(s, e)) = n
    BY <2>1, OnePlace
  <2> DEFINE u == RemoveAt(s, n)
  <2>3. Unlink(s, e) = u
    BY <2>2 DEF Unlink
  <2>4. /\ u \in Seq(S) /\ Len(u) = Len(s) - 1
        /\ \A i \in 1 .. Len(s) - 1 : u[i] = IF i < n THEN s[i] ELSE s[i + 1]
    BY RemoveAtIs
  <2> HIDE DEF u
  <2>5. /\ Len(s) \in Nat
        /\ \A i, j \in 1 .. Len(s) : s[i] = s[j] => i = j
        /\ \A x \in Range(s) : \E i \in 1 .. Len(s) : x = s[i]
        /\ \A i \in 1 .. Len(s) : s[i] \in Range(s)
    BY SeqIs, InjectiveIs
  <2>6. /\ \A x \in Range(u) : \E i \in 1 .. Len(u) : x = u[i]
        /\ \A i \in 1 .. Len(u) : u[i] \in Range(u)
        /\ IsInjective(u) <=> \A i, j \in 1 .. Len(u) : u[i] = u[j] => i = j
    <3>1. u \in Seq(S)
      BY <2>4
    <3> QED
      BY <3>1, SeqIs, InjectiveIs
  <2>7. \A i, j \in 1 .. Len(s) - 1 : u[i] = u[j] => i = j
    BY <2>4, <2>5
  <2>8. ASSUME NEW x \in Range(u)
        PROVE  x \in Range(s) \ {e}
    BY <2>1, <2>4, <2>5, <2>6, SMTT(30)
  <2>9. ASSUME NEW x \in Range(s) \ {e}
        PROVE  x \in Range(u)
    <3>1. PICK i \in 1 .. Len(s) : x = s[i]
      BY <2>5
    <3>2. CASE i < n
      <4>1. i \in 1 .. Len(u) /\ u[i] = x
        BY <2>4, <2>5, <3>1, <3>2
      <4> QED
        BY <2>6, <4>1
    <3>3. CASE i > n
      <4>1. i - 1 \in 1 .. Len(u) /\ u[i - 1] = s[(i - 1) + 1] /\ (i - 1) + 1 = i
        BY <2>4, <2>5, <3>1, <3>3
      <4> QED
        BY <2>6, <3>1, <4>1
    <3> QED
      BY <2>1, <2>5, <3>1, <3>2, <3>3
  <2>10. s # <<>> /\ e = s[1] => n = 1
    <3>1. 1 \in 1 .. Len(s)
      BY <2>5
    <3> QED
      BY <2>1, <2>5, <3>1
  <2>11. Range(u) = Range(s) \ {e}
    BY <2>8, <2>9
  <2>12. IsInjective(u)
    BY <2>4, <2>6, <2>7
  <2>13. n = 1 => \A i \in 1 .. Len(s) - 1 : u[i] = s[i + 1]
    BY <2>4, <2>5
  <2> QED
    BY <2>3, <2>4, <2>10, <2>11, <2>12, <2>13
<1> QED
  BY <1>1, <1>2

\* An entry is added at the end.
LEMMA AppendIs ==
  ASSUME NEW S, NEW s \in Seq(S), NEW e \in S
  PROVE  /\ Append(s, e) \in Seq(S) /\ Len(Append(s, e)) = Len(s) + 1
         /\ \A i \in 1 .. Len(s) : Append(s, e)[i] = s[i]
         /\ Range(Append(s, e)) = Range(s) \cup {e}
         /\ IsInjective(s) /\ e \notin Range(s) => IsInjective(Append(s, e))
<1> DEFINE u == Append(s, e)
<1>1. /\ u \in Seq(S) /\ Len(u) = Len(s) + 1 /\ u[Len(s) + 1] = e
      /\ \A i \in 1 .. Len(s) : u[i] = s[i]
  BY AppendProperties
<1> HIDE DEF u
<1>2. /\ Len(s) \in Nat
      /\ IsInjective(s) <=> \A i, j \in 1 .. Len(s) : s[i] = s[j] => i = j
      /\ \A x \in Range(s) : \E i \in 1 .. Len(s) : x = s[i]
      /\ \A i \in 1 .. Len(s) : s[i] \in Range(s)
  BY SeqIs, InjectiveIs
<1>3. /\ \A x \in Range(u) : \E i \in 1 .. Len(u) : x = u[i]
      /\ \A i \in 1 .. Len(u) : u[i] \in Range(u)
      /\ IsInjective(u) <=> \A i, j \in 1 .. Len(u) : u[i] = u[j] => i = j
  <2>1. u \in Seq(S)
    BY <1>1
  <2> QED
    BY <2>1, SeqIs, InjectiveIs
<1>4. \A i \in 1 .. Len(u) : i \in 1 .. Len(s) \/ i = Len(s) + 1
  BY <1>1, <1>2
<1>5. \A x \in Range(u) : x \in Range(s) \cup {e}
  BY <1>1, <1>2, <1>3, <1>4, SMTT(30)
<1>6. \A i \in 1 .. Len(s) + 1 : i \in 1 .. Len(u)
  BY <1>1
<1>7. \A x \in Range(s) \cup {e} : x \in Range(u)
  BY <1>1, <1>2, <1>3, <1>6
<1>8. IsInjective(s) /\ e \notin Range(s) => IsInjective(u)
  BY <1>1, <1>2, <1>3, <1>4
<1> QED
  BY <1>1, <1>5, <1>7, <1>8 DEF u

\* One list before another.
LEMMA ConcatIs ==
  ASSUME NEW S, NEW s \in Seq(S), NEW v \in Seq(S)
  PROVE  /\ s \o v \in Seq(S)
         /\ Range(s \o v) = Range(s) \cup Range(v)
         /\ IsInjective(s) /\ IsInjective(v) /\ Range(s) \cap Range(v) = {} => IsInjective(s \o v)
<1> DEFINE u == s \o v
<1>1. /\ u \in Seq(S) /\ Len(u) = Len(s) + Len(v)
      /\ \A i \in 1 .. Len(s) + Len(v) : u[i] = IF i <= Len(s) THEN s[i] ELSE v[i - Len(s)]
  BY ConcatProperties
<1> HIDE DEF u
<1>2. /\ Len(s) \in Nat
      /\ IsInjective(s) <=> \A i, j \in 1 .. Len(s) : s[i] = s[j] => i = j
      /\ \A x \in Range(s) : \E i \in 1 .. Len(s) : x = s[i]
      /\ \A i \in 1 .. Len(s) : s[i] \in Range(s)
  BY SeqIs, InjectiveIs
<1>3. /\ Len(v) \in Nat
      /\ IsInjective(v) <=> \A i, j \in 1 .. Len(v) : v[i] = v[j] => i = j
      /\ \A x \in Range(v) : \E i \in 1 .. Len(v) : x = v[i]
      /\ \A i \in 1 .. Len(v) : v[i] \in Range(v)
  BY SeqIs, InjectiveIs
<1>4. /\ \A x \in Range(u) : \E i \in 1 .. Len(u) : x = u[i]
      /\ \A i \in 1 .. Len(u) : u[i] \in Range(u)
      /\ IsInjective(u) <=> \A i, j \in 1 .. Len(u) : u[i] = u[j] => i = j
  <2>1. u \in Seq(S)
    BY <1>1
  <2> QED
    BY <2>1, SeqIs, InjectiveIs
<1>5. \A i \in 1 .. Len(u) :
        \/ i \in 1 .. Len(s) /\ u[i] = s[i]
        \/ i - Len(s) \in 1 .. Len(v) /\ u[i] = v[i - Len(s)]
  BY <1>1, <1>2, <1>3
<1>6. /\ \A i \in 1 .. Len(s) : i \in 1 .. Len(u) /\ u[i] = s[i]
      /\ \A i \in 1 .. Len(v) : i + Len(s) \in 1 .. Len(u) /\ u[i + Len(s)] = v[i]
  <2>1. \A i \in 1 .. Len(v) :
          i + Len(s) \in 1 .. Len(s) + Len(v) /\ ~(i + Len(s) <= Len(s)) /\ (i + Len(s)) - Len(s) = i
    BY <1>2, <1>3
  <2> QED
    BY <1>1, <1>2, <1>3, <2>1
<1>7. ASSUME NEW x \in Range(u)
      PROVE  x \in Range(s) \cup Range(v)
  <2>1. PICK i \in 1 .. Len(u) : x = u[i]
    BY <1>4
  <2>2. CASE i \in 1 .. Len(s) /\ u[i] = s[i]
    BY <1>2, <2>1, <2>2
  <2>3. CASE i - Len(s) \in 1 .. Len(v) /\ u[i] = v[i - Len(s)]
    BY <1>3, <2>1, <2>3
  <2> QED
    BY <1>5, <2>2, <2>3
<1>8. ASSUME NEW x \in Range(s) \cup Range(v)
      PROVE  x \in Range(u)
  <2>1. CASE x \in Range(s)
    <3>1. PICK i \in 1 .. Len(s) : x = s[i]
      BY <1>2, <2>1
    <3> QED
      BY <1>4, <1>6, <3>1
  <2>2. CASE x \in Range(v)
    <3>1. PICK i \in 1 .. Len(v) : x = v[i]
      BY <1>3, <2>2
    <3>2. i + Len(s) \in 1 .. Len(u) /\ u[i + Len(s)] = x
      BY <1>6, <3>1
    <3> QED
      BY <1>4, <3>2
  <2> QED
    BY <2>1, <2>2
<1>9. ASSUME IsInjective(s), IsInjective(v), Range(s) \cap Range(v) = {},
             NEW i \in 1 .. Len(u), NEW j \in 1 .. Len(u), u[i] = u[j]
      PROVE  i = j
  <2>1. CASE i \in 1 .. Len(s) /\ u[i] = s[i] /\ j \in 1 .. Len(s) /\ u[j] = s[j]
    BY <1>2, <1>9, <2>1
  <2>2. CASE i - Len(s) \in 1 .. Len(v) /\ u[i] = v[i - Len(s)] /\ j - Len(s) \in 1 .. Len(v) /\ u[j] = v[j - Len(s)]
    <3>1. i - Len(s) = j - Len(s)
      BY <1>3, <1>9, <2>2
    <3> QED
      BY <1>1, <1>2, <3>1
  <2> QED
    BY <1>2, <1>3, <1>5, <1>9, <2>1, <2>2
<1> QED
  BY <1>1, <1>4, <1>7, <1>8, <1>9 DEF u

\* The first entry and the others.
LEMMA TailIs ==
  ASSUME NEW S, NEW s \in Seq(S), s # <<>>, IsInjective(s)
  PROVE  /\ Head(s) \in Range(s) /\ Tail(s) \in Seq(S) /\ IsInjective(Tail(s))
         /\ Range(Tail(s)) = Range(s) \ {Head(s)}
<1> DEFINE u == Tail(s)
<1>1. /\ u \in Seq(S) /\ Len(u) = Len(s) - 1 /\ Head(s) = s[1]
      /\ \A i \in 1 .. Len(u) : u[i] = s[i + 1]
  BY HeadTailProperties
<1> HIDE DEF u
<1>2. /\ Len(s) \in Nat /\ Len(s) # 0
      /\ \A i, j \in 1 .. Len(s) : s[i] = s[j] => i = j
      /\ \A x \in Range(s) : \E i \in 1 .. Len(s) : x = s[i]
      /\ \A i \in 1 .. Len(s) : s[i] \in Range(s)
  BY SeqIs, InjectiveIs, EmptySeq
<1>3. /\ \A x \in Range(u) : \E i \in 1 .. Len(u) : x = u[i]
      /\ \A i \in 1 .. Len(u) : u[i] \in Range(u)
      /\ IsInjective(u) <=> \A i, j \in 1 .. Len(u) : u[i] = u[j] => i = j
  <2>1. u \in Seq(S)
    BY <1>1
  <2> QED
    BY <2>1, SeqIs, InjectiveIs
<1>4. \A x \in Range(u) : x \in Range(s) \ {s[1]}
  BY <1>1, <1>2, <1>3
<1>5. ASSUME NEW x \in Range(s) \ {s[1]}
      PROVE  x \in Range(u)
  <2>1. PICK i \in 1 .. Len(s) : x = s[i]
    BY <1>2
  <2>2. i - 1 \in 1 .. Len(u) /\ (i - 1) + 1 = i
    BY <1>1, <1>2, <2>1
  <2> QED
    BY <1>1, <1>3, <2>1, <2>2
<1>6. IsInjective(u)
  BY <1>1, <1>2, <1>3, SMTT(30)
<1>7. s[1] \in Range(s)
  BY <1>2
<1> QED
  BY <1>1, <1>4, <1>5, <1>6, <1>7 DEF u

-----------------------------------------------------------------------------
(* Types *)

\* The types of the variables, one by one.
LEMMA Types ==
  ASSUME TypeOK, Shapes
  PROVE  /\ use \in [Blocks -> {"used", "held", "free"}] /\ freed \in [Blocks -> 0 .. MaxTid]
         /\ freeing \in Blocks \cup {"none"} /\ atOnce \subseteq Blocks
         /\ inside \in BOOLEAN /\ aborted \in BOOLEAN /\ should_stop \in BOOLEAN /\ stale \in BOOLEAN
         /\ running \in 1 .. MaxTid /\ running \in Tids /\ phase \in {"none", "record", "callback"}
         /\ priv \in [running : Seq(Entry), committing : Seq(Entry)]
         /\ priv.running \in Seq(Entry) /\ priv.committing \in Seq(Entry) /\ list \in Seq(Entry)
         /\ written \subseteq Tids /\ durable \subseteq written
         /\ d_ftime \in [Blocks -> SUBSET Tids] /\ aged \subseteq Blocks
         /\ pc \in [Walkers -> WalkPlaces]
         /\ pc["thread"] \in {"check", "item", "delete", "done", "sleepy", "asleep", "exited"}
         /\ pc["umount"] \in {"mounted", "item", "delete", "stop", "join", "gone"}
         /\ cur \in [Walkers -> Entry \cup {End}] /\ next \in [Walkers -> Entry \cup {End}]
         /\ dr_count \in [Walkers -> Nat] /\ dr_count["thread"] \in 0 .. Batch
         /\ MaxTid \in Nat /\ Batch \in Nat \ {0}
BY ConstantsAssumption DEF TypeOK, Shapes, Tids

\* The head of the list is not an entry.
LEMMA EndIs == End \notin Entry
BY ConstantsAssumption DEF End, Entry, Tids

\* An entry has a block and a transaction, and is made of them.
LEMMA EntryIs ==
  /\ \A e \in Entry : e.b \in Blocks /\ e.t \in Tids
  /\ \A e, f \in Entry : e.b = f.b /\ e.t = f.t => e = f
  /\ \A b \in Blocks, t \in Tids : [b |-> b, t |-> t] \in Entry
BY DEF Entry

\* The initial state.
LEMMA InitInv == Init => TypeOK /\ ReuseInv
<1> SUFFICES ASSUME Init
             PROVE  TypeOK /\ ReuseInv
  OBVIOUS
<1>1. TypeOK /\ Shapes
  <2>1. priv \in [running : Seq(Entry), committing : Seq(Entry)] /\ list \in Seq(Entry)
    BY EmptySeq DEF Init
  <2>2. /\ pc \in [Walkers -> WalkPlaces] /\ pc["thread"] = "check" /\ pc["umount"] = "mounted"
    BY DEF Init, Walkers, WalkPlaces
  <2>3. /\ dr_count \in [Walkers -> Nat] /\ dr_count["thread"] = 0 /\ dr_count["umount"] = 0
        /\ cur \in [Walkers -> Entry \cup {End}] /\ next \in [Walkers -> Entry \cup {End}]
    BY DEF Init, Walkers
  <2>4. /\ use \in [Blocks -> {"used", "held", "free"}] /\ freed \in [Blocks -> 0 .. MaxTid]
        /\ d_ftime \in [Blocks -> SUBSET Tids] /\ running \in Tids
    BY ConstantsAssumption DEF Init, Tids
  <2>5. /\ should_stop \in BOOLEAN /\ stale \in BOOLEAN /\ inside \in BOOLEAN /\ aborted \in BOOLEAN
        /\ atOnce \subseteq Blocks
    BY DEF Init
  <2>6. Batch \in Nat
    BY ConstantsAssumption
  <2> QED
    BY <2>1, <2>2, <2>3, <2>4, <2>5, <2>6 DEF Init, TypeOK, Shapes
<1>2. CommitInv
  BY DEF Init, CommitInv
<1>3. priv.running = <<>> /\ priv.committing = <<>> /\ list = <<>> /\ DOMAIN <<>> = {}
  BY DEF Init
<1>4. Range(priv.running) = {} /\ Range(priv.committing) = {} /\ Range(list) = {}
  BY <1>3 DEF Range
<1>5. StageInv
  BY <1>3, <1>4 DEF StageInv, IsInjective
<1>6. HeldInv
  BY <1>4 DEF Init, HeldInv, Entries, Held
<1>7. WalkInv
  BY DEF Init, WalkInv, AtFirst
<1>8. DelayInv
  BY <1>4 DEF Init, DelayInv, ReleasedIsDurable, Lost
<1> QED
  BY <1>1, <1>2, <1>5, <1>6, <1>7, <1>8 DEF ReuseInv

-----------------------------------------------------------------------------
(* The file system *)

\* A block is about to be freed.
LEMMA FreeBlocksKeeps ==
  ASSUME TypeOK, ReuseInv, NEW b \in Blocks, FreeBlocks(b)
  PROVE  TypeOK' /\ ReuseInv'
<1> USE DEF FreeBlocks, commitVars, timeVars, walkVars, freeVars
<1>1. TypeOK' /\ Shapes'
  BY Types DEF TypeOK, Shapes, ReuseInv
<1>2. CommitInv'
  BY DEF ReuseInv, CommitInv, Working
<1>3. StageInv' /\ HeldInv' /\ WalkInv' /\ DelayInv'
  BY DEF ReuseInv, StageInv, HeldInv, Entries, Held, Dropping, WalkInv, AtFirst, DelayInv, Delayed,
         ReleasedIsDurable, Lost
<1> QED
  BY <1>1, <1>2, <1>3 DEF ReuseInv

\* A block of a file in writeback mode is free at once.
LEMMA FreeAtOnceKeeps ==
  ASSUME TypeOK, ReuseInv, NEW b \in Blocks, FreeAtOnce(b)
  PROVE  TypeOK' /\ ReuseInv'
<1>1. /\ use[b] = "used" /\ use' = [use EXCEPT ![b] = "free"] /\ freed' = [freed EXCEPT ![b] = running]
      /\ atOnce' = atOnce \cup {b} /\ pc["umount"] = "mounted" /\ b # freeing
      /\ UNCHANGED <<freeing, inside, running, phase, aborted, written, durable, priv, list, d_ftime, aged, pc,
                     cur, next, dr_count, should_stop, stale>>
  BY DEF FreeAtOnce, Working, freeVars, commitVars, timeVars, walkVars
<1>2. /\ use \in [Blocks -> {"used", "held", "free"}] /\ freed \in [Blocks -> 0 .. MaxTid]
      /\ running \in 0 .. MaxTid /\ running \in Nat /\ list \in Seq(Entry) /\ atOnce \subseteq Blocks
      /\ priv.running \in Seq(Entry) /\ priv.committing \in Seq(Entry)
      /\ freeing \in Blocks \cup {"none"}
  BY Types DEF ReuseInv
<1>3. TypeOK' /\ Shapes'
  <2>1. use' \in [Blocks -> {"used", "held", "free"}] /\ freed' \in [Blocks -> 0 .. MaxTid]
    BY <1>1, <1>2
  <2>2. atOnce' \subseteq Blocks
    BY <1>1, <1>2
  <2> QED
    BY <1>1, <2>1, <2>2 DEF TypeOK, Shapes, ReuseInv
<1>4. CommitInv'
  <2>1. freeing # "none" => use'[freeing] = use[freeing]
    BY <1>1, <1>2
  <2> QED
    BY <1>1, <2>1 DEF ReuseInv, CommitInv
<1>5. StageInv' /\ WalkInv'
  BY <1>1 DEF ReuseInv, StageInv, WalkInv, AtFirst
<1>6. Entries' = Entries /\ Entries \subseteq Entry
  BY <1>1, <1>2, SeqIs DEF Entries
<1>7. \A e \in Entry : e.b # b => (Held(e)' <=> Held(e)) /\ (Delayed(e)' <=> Delayed(e))
  BY <1>1, <1>2, EntryIs DEF Held, Delayed, Lost
<1>8. \A e \in Entry : e.b = b => ~Held(e) /\ ~Held(e)'
  BY <1>1, <1>2 DEF Held
<1>9. \A e \in Entries : e.b = b => Dropping(e)
  BY <1>1, <1>6, <1>8 DEF ReuseInv, HeldInv
<1>10. /\ Range(list) \subseteq Entries
       /\ pc["thread"] \in {"item", "delete"} =>
            /\ cur["thread"] \in Range(list)
            /\ next["thread"] # End => next["thread"] \in Range(list)
  BY <1>1, <1>2, SeqIs DEF Entries, ReuseInv, WalkInv, AtFirst
<1>11. HeldInv'
  <2>1. ASSUME NEW c \in Blocks, use'[c] = "held"
        PROVE  [b |-> c, t |-> freed'[c]] \in Entries'
    <3>1. c # b
      BY <1>1, <1>2, <2>1
    <3> QED
      BY <1>1, <1>2, <1>6, <2>1, <3>1 DEF ReuseInv, HeldInv
  <2>2. ASSUME NEW e \in Entries', ~Held(e)'
        PROVE  Dropping(e)'
    <3>1. Dropping(e)
      BY <1>1, <1>6, <1>7, <1>9, <2>2 DEF ReuseInv, HeldInv
    <3> QED
      BY <1>1, <3>1 DEF Dropping
  <2>3. ASSUME pc["thread"] = "delete"
        PROVE  ~Held(cur["thread"])'
    <3>1. PICK e : e = cur["thread"]
      OBVIOUS
    <3>2. e \in Entry /\ ~Held(e)
      BY <1>1, <1>6, <1>10, <2>3, <3>1 DEF ReuseInv, HeldInv
    <3>3. ~Held(e)'
      BY <1>7, <1>8, <3>2
    <3> QED
      BY <1>1, <3>1, <3>3 DEF Held
  <2> QED
    BY <1>1, <2>1, <2>2, <2>3 DEF HeldInv
<1>12. DelayInv'
  <2>1. \A e \in Range(list) : Delayed(e)' \/ Dropping(e)'
    BY <1>1, <1>6, <1>7, <1>9, <1>10 DEF ReuseInv, DelayInv, Dropping
  <2>2. ASSUME pc["thread"] = "item"
        PROVE  Delayed(cur["thread"])'
    <3>1. PICK e : e = cur["thread"]
      OBVIOUS
    <3>2. e \in Entry /\ e.b # b /\ Delayed(e)
      BY <1>6, <1>9, <1>10, <2>2, <3>1 DEF Dropping, ReuseInv, DelayInv
    <3>3. Delayed(e)'
      BY <1>7, <3>2
    <3> QED
      BY <1>1, <3>1, <3>3 DEF Delayed, Lost
  <2>3. ASSUME pc["thread"] \in {"item", "delete"}, next["thread"] # End
        PROVE  Delayed(next["thread"])'
    <3>1. PICK e : e = next["thread"]
      OBVIOUS
    <3>2. e \in Entry /\ e.b # b /\ Delayed(e)
      BY <1>6, <1>9, <1>10, <2>3, <3>1 DEF Dropping, ReuseInv, DelayInv
    <3>3. Delayed(e)'
      BY <1>7, <3>2
    <3> QED
      BY <1>1, <3>1, <3>3 DEF Delayed, Lost
  <2>4. ReleasedIsDurable'
    BY <1>1, <1>2 DEF ReuseInv, DelayInv, ReleasedIsDurable, Lost
  <2> QED
    BY <1>1, <2>1, <2>2, <2>3, <2>4 DEF ReuseInv, DelayInv
<1> QED
  BY <1>3, <1>4, <1>5, <1>11, <1>12 DEF ReuseInv

\* A free block is allocated.
LEMMA AllocateKeeps ==
  ASSUME TypeOK, ReuseInv, NEW b \in Blocks, Allocate(b)
  PROVE  TypeOK' /\ ReuseInv'
<1>1. /\ use[b] = "free" /\ use' = [use EXCEPT ![b] = "used"] /\ pc["umount"] = "mounted"
      /\ UNCHANGED <<freed, atOnce, freeing, inside, running, phase, aborted, written, durable, priv, list, d_ftime, aged, pc, cur,
                     next, dr_count, should_stop, stale>>
  BY DEF Allocate, Working, commitVars, timeVars, walkVars, freeVars
<1>2. use \in [Blocks -> {"used", "held", "free"}]
  BY Types DEF ReuseInv
<1>3. TypeOK' /\ Shapes'
  BY <1>1, <1>2, Types DEF TypeOK, Shapes, ReuseInv
<1>4. CommitInv'
  BY <1>1, <1>2, Types DEF ReuseInv, CommitInv
<1>5. StageInv' /\ WalkInv'
  BY <1>1 DEF ReuseInv, StageInv, WalkInv, AtFirst
<1>6. \A c \in Blocks : use'[c] = "held" <=> use[c] = "held"
  BY <1>1, <1>2
<1>7. Entries' = Entries /\ Entries \subseteq Entry
  BY <1>1, Types, SeqIs DEF Entries, ReuseInv
<1>8. HeldInv'
  <2>1. \A e \in Entry \cup {cur["thread"]} : Held(e)' <=> Held(e)
    <3>1. \A e : e.b # b => use'[e.b] = use[e.b]
      BY <1>1, <1>2
    <3> QED
      BY <1>1, <1>2, <3>1 DEF Held
  <2> QED
    BY <1>1, <1>6, <1>7, <2>1 DEF ReuseInv, HeldInv, Dropping
<1>9. DelayInv'
  BY <1>1, <1>2 DEF ReuseInv, DelayInv, Delayed, Dropping, ReleasedIsDurable, Lost
<1> QED
  BY <1>3, <1>4, <1>5, <1>8, <1>9 DEF ReuseInv

\* The delay of a block has passed.
LEMMA AgeKeeps ==
  ASSUME TypeOK, ReuseInv, NEW b \in Blocks, Age(b)
  PROVE  TypeOK' /\ ReuseInv'
<1> USE DEF Age, blockVars, commitVars, walkVars, freeVars
<1>1. TypeOK' /\ Shapes'
  BY Types DEF TypeOK, Shapes, ReuseInv
<1>2. CommitInv' /\ StageInv' /\ HeldInv' /\ WalkInv'
  BY DEF ReuseInv, CommitInv, StageInv, HeldInv, Entries, Held, Dropping, WalkInv, AtFirst
<1>3. DelayInv'
  BY DEF ReuseInv, DelayInv, Delayed, Dropping, ReleasedIsDurable, Lost
<1> QED
  BY <1>1, <1>2, <1>3 DEF ReuseInv

\* The disk destages a commit record.
LEMMA SettleKeeps ==
  ASSUME TypeOK, ReuseInv, NEW t \in Tids, Settle(t)
  PROVE  TypeOK' /\ ReuseInv'
<1> USE DEF Settle, blockVars, timeVars, walkVars, freeVars
<1>1. TypeOK' /\ Shapes'
  BY Types DEF TypeOK, Shapes, ReuseInv
<1>2. CommitInv' /\ StageInv' /\ HeldInv' /\ WalkInv'
  BY DEF ReuseInv, CommitInv, StageInv, HeldInv, Entries, Held, Dropping, WalkInv, AtFirst
<1>3. DelayInv'
  BY DEF ReuseInv, DelayInv, Delayed, Dropping, ReleasedIsDurable, Lost
<1> QED
  BY <1>1, <1>2, <1>3 DEF ReuseInv

\* A block that is on a list already is not put on another.
LEMMA FreeTwiceKeeps ==
  ASSUME TypeOK, ReuseInv, FreeMetadata, use[freeing] = "held"
  PROVE  TypeOK' /\ ReuseInv'
<1>1. /\ freeing' = "none"
      /\ UNCHANGED <<use, freed, atOnce, inside, running, phase, aborted, written, durable, priv, list, d_ftime,
                     aged, pc, cur, next, dr_count, should_stop, stale>>
  BY DEF FreeMetadata, commitVars, timeVars, walkVars
<1>2. TypeOK' /\ Shapes'
  BY <1>1, Types DEF TypeOK, Shapes, ReuseInv
<1>3. CommitInv' /\ StageInv' /\ HeldInv' /\ WalkInv'
  BY <1>1 DEF ReuseInv, CommitInv, StageInv, HeldInv, Entries, Held, Dropping, WalkInv, AtFirst
<1>4. DelayInv'
  BY <1>1 DEF ReuseInv, DelayInv, Delayed, Dropping, ReleasedIsDurable, Lost
<1> QED
  BY <1>2, <1>3, <1>4 DEF ReuseInv

\* A block is freed: it is held, with an entry on the list of the transaction.
LEMMA FreeMetadataKeeps ==
  ASSUME TypeOK, ReuseInv, FreeMetadata, use[freeing] = "used"
  PROVE  TypeOK' /\ ReuseInv'
<1>0. PICK b, x : b = freeing /\ x = [b |-> b, t |-> running]
  OBVIOUS
<1>1. /\ freeing # "none" /\ freeing' = "none"
      /\ use' = [use EXCEPT ![b] = "held"] /\ freed' = [freed EXCEPT ![b] = running]
      /\ priv' = [priv EXCEPT !.running = <<x>> \o @]
      /\ d_ftime' = [d_ftime EXCEPT ![b] = written] /\ aged' = aged \ {b}
      /\ atOnce' = atOnce \ {b} /\ inside' = FALSE
      /\ UNCHANGED <<running, phase, aborted, written, durable, list, pc, cur, next, dr_count, should_stop, stale>>
  BY <1>0 DEF FreeMetadata, Hold, commitVars, walkVars
<1>2. /\ use \in [Blocks -> {"used", "held", "free"}] /\ freed \in [Blocks -> 0 .. MaxTid]
      /\ d_ftime \in [Blocks -> SUBSET Tids] /\ aged \subseteq Blocks
      /\ b \in Blocks /\ running \in Tids /\ running \in 0 .. MaxTid /\ running \in Nat
      /\ priv.running \in Seq(Entry) /\ priv.committing \in Seq(Entry) /\ list \in Seq(Entry)
      /\ priv \in [running : Seq(Entry), committing : Seq(Entry)]
      /\ written \subseteq Tids /\ durable \subseteq written /\ atOnce \subseteq Blocks
  BY <1>0, <1>1, Types DEF ReuseInv
<1>3. x \in Entry /\ x.b = b /\ x.t = running
  BY <1>0, <1>2, EntryIs
<1>4. use[b] = "used" /\ pc["umount"] = "mounted"
  BY <1>0, <1>1 DEF ReuseInv, CommitInv
<1>5. /\ <<x>> \in Seq(Entry) /\ Range(<<x>>) = {x} /\ IsInjective(<<x>>)
  BY <1>3 DEF Range, IsInjective
<1>6. /\ priv'.running \in Seq(Entry) /\ Range(priv'.running) = {x} \cup Range(priv.running)
      /\ x \notin Range(priv.running) => IsInjective(priv'.running)
      /\ priv'.committing = priv.committing
      /\ priv' \in [running : Seq(Entry), committing : Seq(Entry)]
  <2>1. priv'.running = <<x>> \o priv.running /\ priv'.committing = priv.committing
    BY <1>1, <1>2
  <2>2. /\ <<x>> \o priv.running \in Seq(Entry)
        /\ Range(<<x>> \o priv.running) = {x} \cup Range(priv.running)
        /\ x \notin Range(priv.running) => IsInjective(<<x>> \o priv.running)
    <3>1. IsInjective(priv.running)
      BY DEF ReuseInv, StageInv
    <3>2. x \notin Range(priv.running) => Range(<<x>>) \cap Range(priv.running) = {}
      BY <1>5
    <3>3. /\ <<x>> \o priv.running \in Seq(Entry)
          /\ Range(<<x>> \o priv.running) = Range(<<x>>) \cup Range(priv.running)
          /\ IsInjective(<<x>>) /\ IsInjective(priv.running) /\ Range(<<x>>) \cap Range(priv.running) = {}
               => IsInjective(<<x>> \o priv.running)
      BY <1>2, <1>5, ConcatIs
    <3> QED
      BY <1>5, <3>1, <3>2, <3>3
  <2>3. priv' = [running |-> <<x>> \o priv.running, committing |-> priv.committing]
    BY <1>1, <1>2
  <2> QED
    BY <1>2, <2>1, <2>2, <2>3
<1>7. TypeOK' /\ Shapes'
  <2>1. /\ use' \in [Blocks -> {"used", "held", "free"}] /\ freed' \in [Blocks -> 0 .. MaxTid]
        /\ d_ftime' \in [Blocks -> SUBSET Tids] /\ aged' \subseteq Blocks /\ atOnce' \subseteq Blocks
    BY <1>1, <1>2
  <2> QED
    BY <1>1, <1>6, <2>1 DEF TypeOK, Shapes, ReuseInv
<1>8. /\ Range(priv.running) \subseteq Entry /\ Range(priv.committing) \subseteq Entry
      /\ Range(list) \subseteq Entry
  BY <1>2, SeqIs
<1>9. \A e \in Entry : Held(e) => e.b # b
  BY <1>4 DEF Held
<1>10. \A e \in Entries : e.b = b => Dropping(e) /\ e \in Range(list)
  <2>1. \A e \in Entries : e.b = b => Dropping(e)
    BY <1>4, <1>8, <1>9 DEF ReuseInv, HeldInv, Entries
  <2>2. pc["thread"] = "delete" => cur["thread"] \in Range(list)
    BY <1>2, <1>4, SeqIs DEF ReuseInv, WalkInv, AtFirst
  <2> QED
    BY <2>1, <2>2 DEF Dropping
<1>11. x \notin Entries
  BY <1>2, <1>3, <1>10 DEF ReuseInv, StageInv
<1>12. CommitInv'
  BY <1>1, <1>4, <1>6 DEF ReuseInv, CommitInv
<1>13. StageInv'
  BY <1>1, <1>3, <1>6, <1>11 DEF ReuseInv, StageInv, Entries
<1>14. Entries' = Entries \cup {x}
  BY <1>1, <1>6 DEF Entries
<1>15. /\ Held(x)' /\ \A e \in Entry : e.b # b => (Held(e)' <=> Held(e))
  BY <1>1, <1>2, <1>3, EntryIs DEF Held
<1>16. HeldInv'
  <2>1. ASSUME NEW c \in Blocks, use'[c] = "held"
        PROVE  [b |-> c, t |-> freed'[c]] \in Entries'
    <3>1. CASE c = b
      BY <1>0, <1>1, <1>2, <1>14, <3>1
    <3>2. CASE c # b
      BY <1>1, <1>2, <1>4, <1>14, <2>1, <3>2 DEF ReuseInv, HeldInv
    <3> QED
      BY <3>1, <3>2
  <2>2. ASSUME NEW e \in Entries', ~Held(e)'
        PROVE  Dropping(e)'
    <3>1. e \in Entries
      BY <1>14, <1>15, <2>2
    <3>2. Dropping(e)
      BY <1>4, <1>8, <1>10, <1>15, <2>2, <3>1 DEF ReuseInv, HeldInv, Entries
    <3> QED
      BY <1>1, <3>2 DEF Dropping
  <2>3. ASSUME pc["thread"] = "delete"
        PROVE  ~Held(cur["thread"])'
    <3>1. cur["thread"] \in Range(list)
      BY <1>2, <1>4, <2>3, SeqIs DEF ReuseInv, WalkInv, AtFirst
    <3>2. cur["thread"].t < running /\ cur["thread"] \in Entry /\ ~Held(cur["thread"])
      BY <1>4, <1>8, <2>3, <3>1 DEF ReuseInv, StageInv, HeldInv
    <3>3. CASE cur["thread"].b = b
      BY <1>1, <1>2, <3>2, <3>3 DEF Held
    <3>4. CASE cur["thread"].b # b
      BY <1>1, <1>15, <3>2, <3>4
    <3> QED
      BY <3>3, <3>4
  <2> QED
    BY <1>1, <2>1, <2>2, <2>3 DEF HeldInv
<1>17. WalkInv'
  BY <1>1 DEF ReuseInv, WalkInv, AtFirst
<1>18. DelayInv'
  <2>1. \A e \in Entry : e.b # b /\ Delayed(e) => Delayed(e)'
    BY <1>1, <1>2, EntryIs DEF Delayed, Lost
  <2>2. \A e \in Range(list) : e.b = b => Dropping(e)
    BY <1>10 DEF Entries
  <2>3. ASSUME pc["thread"] = "item"
        PROVE  cur["thread"] \in Entry /\ cur["thread"].b # b
    <3>1. cur["thread"] \in Range(list)
      BY <1>2, <1>4, <2>3, SeqIs DEF ReuseInv, WalkInv, AtFirst
    <3> QED
      BY <1>8, <2>2, <2>3, <3>1 DEF Dropping
  <2>4. ASSUME pc["thread"] \in {"item", "delete"}, next["thread"] # End
        PROVE  next["thread"] \in Entry /\ next["thread"].b # b
    <3>1. next["thread"] \in Range(list)
      BY <1>2, <1>4, <2>4, SeqIs DEF ReuseInv, WalkInv, AtFirst
    <3> QED
      BY <1>8, <2>2, <2>4, <3>1 DEF Dropping, ReuseInv, DelayInv
  <2>5. \A c \in aged' : d_ftime'[c] \subseteq durable'
    BY <1>1, <1>2 DEF ReuseInv, DelayInv
  <2>6. ReleasedIsDurable'
    BY <1>1, <1>2 DEF ReuseInv, DelayInv, ReleasedIsDurable, Lost
  <2>7. \A e \in Range(list) : Delayed(e)' \/ Dropping(e)'
    BY <1>1, <1>8, <2>1, <2>2 DEF ReuseInv, DelayInv, Dropping
  <2> QED
    BY <1>1, <2>1, <2>3, <2>4, <2>5, <2>6, <2>7 DEF ReuseInv, DelayInv
<1> QED
  BY <1>7, <1>12, <1>13, <1>16, <1>17, <1>18 DEF ReuseInv

-----------------------------------------------------------------------------
(* The commit *)

\* The entries of the running transaction become those of the committing one.
LEMMA CommitSwitchKeeps ==
  ASSUME TypeOK, ReuseInv, CommitSwitch
  PROVE  TypeOK' /\ ReuseInv'
<1>1. /\ phase = "none" /\ phase' = "record" /\ running' = running + 1 /\ running < MaxTid
      /\ freeing = "none" /\ priv.running # <<>>
      /\ priv' = [running |-> <<>>, committing |-> priv.running]
      /\ UNCHANGED <<use, freed, atOnce, freeing, inside, aborted, written, durable, list, d_ftime, aged, pc, cur,
                     next, dr_count, should_stop, stale>>
  BY DEF CommitSwitch, blockVars, timeVars, walkVars, freeVars
<1>2. /\ priv.running \in Seq(Entry) /\ priv.committing \in Seq(Entry) /\ list \in Seq(Entry)
      /\ running \in 1 .. MaxTid /\ MaxTid \in Nat /\ <<>> \in Seq(Entry)
  BY Types, EmptySeq DEF ReuseInv
<1>3. /\ priv'.running = <<>> /\ priv'.committing = priv.running /\ priv.committing = <<>>
      /\ pc["umount"] = "mounted"
  BY <1>1 DEF ReuseInv, CommitInv
<1>4. priv' \in [running : Seq(Entry), committing : Seq(Entry)] /\ running' \in Tids
  BY <1>1, <1>2 DEF Tids
<1>5. TypeOK' /\ Shapes'
  BY <1>1, <1>2, <1>3, <1>4 DEF TypeOK, Shapes, ReuseInv
<1>6. CommitInv'
  <2>1. ~aborted => written = 1 .. running - 1
    BY <1>1 DEF ReuseInv, CommitInv
  <2>2. running' - 2 = running - 1 /\ running' > 1
    BY <1>1, <1>2
  <2>3. \A t \in written : t < running' /\ 1 .. t \subseteq written
    <3>1. \A t \in written : t < running /\ 1 .. t \subseteq written
      BY DEF ReuseInv, CommitInv
    <3>2. \A t \in written : t \in Int
      BY Types DEF ReuseInv, Tids
    <3> QED
      BY <1>1, <1>2, <3>1, <3>2
  <2> QED
    BY <1>1, <1>3, <2>1, <2>2, <2>3 DEF CommitInv
<1>7. Range(<<>>) = {} /\ IsInjective(<<>>)
  BY DEF Range, IsInjective
<1>8. \A e \in Range(list) : e \in Entry /\ e.t \in Int
  BY <1>2, SeqIs, EntryIs DEF Tids
<1>9. StageInv'
  BY <1>1, <1>2, <1>3, <1>7, <1>8 DEF ReuseInv, StageInv
<1>10. Entries' = Entries
  BY <1>1, <1>3, <1>7 DEF Entries
<1>11. HeldInv' /\ WalkInv' /\ DelayInv'
  BY <1>1, <1>10 DEF ReuseInv, HeldInv, Held, Dropping, WalkInv, AtFirst, DelayInv, Delayed,
                     ReleasedIsDurable, Lost
<1> QED
  BY <1>5, <1>6, <1>9, <1>11 DEF ReuseInv

\* The commit record is written.
LEMMA CommitRecordKeeps ==
  ASSUME TypeOK, ReuseInv, CommitRecord, ~aborted, aborted' = aborted
  PROVE  TypeOK' /\ ReuseInv'
<1>1. /\ phase = "record" /\ phase' = "callback" /\ written' = written \cup {running - 1}
      /\ UNCHANGED <<use, freed, atOnce, freeing, inside, running, durable, priv, list, d_ftime, aged, pc, cur,
                     next, dr_count, should_stop, stale>>
  BY DEF CommitRecord, blockVars, freeVars, timeVars, walkVars
<1>2. /\ running \in 1 .. MaxTid /\ MaxTid \in Nat /\ running > 1
      /\ written \subseteq Tids /\ durable \subseteq written /\ written = 1 .. running - 2
  BY <1>1, Types DEF ReuseInv, CommitInv
<1>3. /\ written' \subseteq Tids /\ durable' \subseteq written' /\ written' = 1 .. running - 1
      /\ \A t \in written' : t < running /\ 1 .. t \subseteq written'
  BY <1>1, <1>2 DEF Tids
<1>4. TypeOK' /\ Shapes'
  BY <1>1, <1>3 DEF TypeOK, Shapes, ReuseInv
<1>5. CommitInv'
  BY <1>1, <1>2, <1>3 DEF ReuseInv, CommitInv
<1>6. StageInv' /\ HeldInv' /\ WalkInv' /\ DelayInv'
  BY <1>1 DEF ReuseInv, StageInv, HeldInv, Entries, Held, Dropping, WalkInv, AtFirst, DelayInv, Delayed,
              ReleasedIsDurable, Lost
<1> QED
  BY <1>4, <1>5, <1>6 DEF ReuseInv

\* The commit fails, or finds the journal aborted.
LEMMA CommitFailsKeeps ==
  ASSUME TypeOK, ReuseInv, CommitRecord, aborted', UNCHANGED written
  PROVE  TypeOK' /\ ReuseInv'
<1>1. /\ phase = "record" /\ phase' = "callback"
      /\ UNCHANGED <<use, freed, atOnce, freeing, inside, running, durable, priv, list, d_ftime, aged, pc, cur,
                     next, dr_count, should_stop, stale>>
  BY DEF CommitRecord, blockVars, freeVars, timeVars, walkVars
<1>2. aborted' \in BOOLEAN
  BY DEF CommitRecord, TypeOK
<1>3. TypeOK' /\ Shapes'
  BY <1>1, <1>2 DEF TypeOK, Shapes, ReuseInv
<1>4. CommitInv'
  BY <1>1 DEF ReuseInv, CommitInv
<1>5. StageInv' /\ HeldInv' /\ WalkInv'
  BY <1>1 DEF ReuseInv, StageInv, HeldInv, Entries, Held, Dropping, WalkInv, AtFirst
<1>6. \A t : Lost(t) => Lost(t)'
  BY DEF Lost
<1>7. DelayInv'
  <2>1. \A e : Delayed(e) => Delayed(e)'
    BY <1>1, <1>6 DEF Delayed, Lost
  <2>2. (Delayed(cur["thread"]) => Delayed(cur["thread"])') /\ (Delayed(next["thread"]) => Delayed(next["thread"])')
    BY <1>1, <1>6 DEF Delayed, Lost
  <2>3. ReleasedIsDurable'
    BY <1>1, <1>6 DEF ReuseInv, DelayInv, ReleasedIsDurable, Lost
  <2> QED
    BY <1>1, <2>1, <2>2, <2>3 DEF ReuseInv, DelayInv, Dropping
<1> QED
  BY <1>3, <1>4, <1>5, <1>7 DEF ReuseInv

\* Waking the thread does not move it in a walk.
LEMMA WokenIs ==
  ASSUME TypeOK, ReuseInv, pc' \in {pc, Woken}
  PROVE  /\ pc' \in [Walkers -> WalkPlaces] /\ pc'["umount"] = pc["umount"]
         /\ pc'["thread"] \in {"check", "item", "delete", "done", "sleepy", "asleep", "exited"}
         /\ pc'["thread"] \in {"item", "delete"} => pc'["thread"] = pc["thread"]
         /\ pc["thread"] \in {"item", "delete"} => pc'["thread"] = pc["thread"]
<1>1. /\ pc \in [Walkers -> WalkPlaces]
      /\ pc["thread"] \in {"check", "item", "delete", "done", "sleepy", "asleep", "exited"}
  BY Types DEF ReuseInv
<1> QED
  BY <1>1 DEF Woken, Walkers, WalkPlaces

\* The commit callback moves an entry to the list, and the delay starts.
LEMMA ReleaseOnCommitKeeps ==
  ASSUME TypeOK, ReuseInv, ReleaseOnCommit
  PROVE  TypeOK' /\ ReuseInv'
<1>1. /\ phase = "callback"
      /\ UNCHANGED <<use, freed, atOnce, freeing, inside, running, aborted, written, durable, cur, next, dr_count, should_stop, stale>>
  BY DEF ReleaseOnCommit, blockVars, walkVars, freeVars
<1>2. /\ priv \in [running : Seq(Entry), committing : Seq(Entry)]
      /\ priv.running \in Seq(Entry) /\ priv.committing \in Seq(Entry) /\ list \in Seq(Entry)
      /\ running \in 1 .. MaxTid /\ MaxTid \in Nat
      /\ d_ftime \in [Blocks -> SUBSET Tids] /\ aged \subseteq Blocks
      /\ written \subseteq Tids /\ durable \subseteq written
  BY Types DEF ReuseInv
<1>3. /\ pc["umount"] = "mounted"
      /\ \A t \in 1 .. running - 1 : Lost(t) \/ 1 .. t \subseteq written
  <2>1. \A t \in written : 1 .. t \subseteq written
    BY DEF ReuseInv, CommitInv
  <2>2. \A t \in 1 .. running - 1 : aborted \/ t \in written
    BY <1>1 DEF ReuseInv, CommitInv
  <2> QED
    BY <1>1, <2>1, <2>2 DEF ReuseInv, CommitInv, Lost
<1>4. CASE priv.committing = <<>>
  <2>1. phase' = "none" /\ UNCHANGED <<priv, list, d_ftime, aged, pc>>
    BY <1>4 DEF ReleaseOnCommit, timeVars
  <2> QED
    BY <1>1, <1>3, <1>4, <2>1, SMTT(30) DEF TypeOK, ReuseInv, Shapes, CommitInv, StageInv, HeldInv, Entries, Held,
       Dropping, WalkInv, AtFirst, DelayInv, Delayed, ReleasedIsDurable, Lost
<1>5. CASE priv.committing # <<>>
  <2>1. PICK x, b : x = Head(priv.committing) /\ b = x.b
    OBVIOUS
  <2>2. /\ list' = Append(list, x) /\ d_ftime' = [d_ftime EXCEPT ![b] = written] /\ aged' = aged \ {b}
        /\ priv' = [priv EXCEPT !.committing = Tail(@)] /\ pc' \in {pc, Woken} /\ phase' = phase
    BY <1>5, <2>1 DEF ReleaseOnCommit, Stamp
  <2>3. /\ x \in Range(priv.committing) /\ Tail(priv.committing) \in Seq(Entry)
        /\ IsInjective(Tail(priv.committing))
        /\ Range(Tail(priv.committing)) = Range(priv.committing) \ {x}
    <3>1. IsInjective(priv.committing)
      BY DEF ReuseInv, StageInv
    <3> QED
      BY <1>2, <1>5, <2>1, <3>1, TailIs
  <2>4. /\ x \in Entry /\ b \in Blocks /\ x.t = running - 1 /\ x \notin Range(list) /\ x \in Entries
    BY <1>2, <2>1, <2>3, SeqIs, EntryIs DEF ReuseInv, StageInv, Entries
  <2>5. priv' = [running |-> priv.running, committing |-> Tail(priv.committing)]
    BY <1>2, <2>2
  <2>6. /\ priv' \in [running : Seq(Entry), committing : Seq(Entry)]
        /\ priv'.running = priv.running /\ priv'.committing = Tail(priv.committing)
    BY <1>2, <2>3, <2>5
  <2>7. /\ list' \in Seq(Entry) /\ Len(list') = Len(list) + 1
        /\ \A i \in 1 .. Len(list) : list'[i] = list[i]
        /\ Range(list') = Range(list) \cup {x} /\ IsInjective(list')
    <3>1. IsInjective(list)
      BY DEF ReuseInv, StageInv
    <3> QED
      BY <1>2, <2>2, <2>4, <3>1, AppendIs
  <2>8. /\ pc' \in [Walkers -> WalkPlaces] /\ pc'["umount"] = pc["umount"]
        /\ pc'["thread"] \in {"check", "item", "delete", "done", "sleepy", "asleep", "exited"}
        /\ pc'["thread"] \in {"item", "delete"} => pc'["thread"] = pc["thread"]
        /\ pc["thread"] \in {"item", "delete"} => pc'["thread"] = pc["thread"]
    BY <2>2, WokenIs
  <2>9. TypeOK' /\ Shapes'
    <3>1. d_ftime' \in [Blocks -> SUBSET Tids] /\ aged' \subseteq Blocks
      BY <1>2, <2>2
    <3> QED
      BY <1>1, <2>2, <2>6, <2>7, <2>8, <3>1 DEF TypeOK, Shapes, ReuseInv
  <2>10. CommitInv'
    BY <1>1, <1>3, <2>2, <2>6, <2>8 DEF ReuseInv, CommitInv
  <2>11. StageInv'
    <3>1. \A e \in Range(list') : e.t < running
      BY <1>2, <2>4, <2>7 DEF ReuseInv, StageInv
    <3>2. \A e \in Range(priv'.committing) : e.t = running - 1 /\ e \notin Range(list')
      BY <2>3, <2>6, <2>7 DEF ReuseInv, StageInv
    <3> QED
      BY <1>1, <2>3, <2>6, <2>7, <3>1, <3>2 DEF ReuseInv, StageInv
  <2>12. Entries' = Entries
    BY <2>3, <2>6, <2>7 DEF Entries
  <2>13. /\ \A e : Dropping(e)' <=> Dropping(e)
         /\ \A e : Held(e)' <=> Held(e)
    BY <1>1, <2>8 DEF Dropping, Held
  <2>14. HeldInv'
    BY <1>1, <2>8, <2>12, <2>13 DEF ReuseInv, HeldInv, Held
  <2>15. WalkInv'
    <3>1. AtFirst("thread") /\ Len(list) \in Nat
      BY <1>2, <1>3, SeqIs DEF ReuseInv, WalkInv
    <3>2. AtFirst("thread")'
      BY <1>1, <2>7, <2>8, <3>1 DEF AtFirst
    <3> QED
      BY <3>2 DEF WalkInv
  <2>16. \A e \in Entry : e.t < running /\ Delayed(e) => Delayed(e)'
    <3>1. \A e \in Entry : e.t < running => e.t \in 1 .. running - 1
      BY <1>2, EntryIs DEF Tids
    <3>2. \A t : Lost(t)' <=> Lost(t)
      BY <1>1 DEF Lost
    <3> QED
      BY <1>1, <1>2, <1>3, <2>2, <3>1, <3>2, EntryIs DEF Delayed, Lost
  <2>17. Delayed(x)'
    <3>1. Held(x)
      <4>1. ~Dropping(x)
        BY <1>2, <1>3, <2>4, SeqIs DEF ReuseInv, WalkInv, AtFirst, Dropping
      <4> QED
        BY <1>3, <2>4, <4>1 DEF ReuseInv, HeldInv
    <3>2. d_ftime'[x.b] = written
      BY <1>2, <2>1, <2>2, <2>4
    <3>3. x.t \in 1 .. running - 1
      BY <1>2, <2>4, EntryIs DEF Tids
    <3> QED
      BY <1>1, <1>3, <2>4, <3>1, <3>2, <3>3 DEF Delayed, Held, Lost
  <2>18. \A e \in Range(list) : e \in Entry /\ e.t < running
    BY <1>2, SeqIs DEF ReuseInv, StageInv
  <2>19. DelayInv'
    <3>1. \A c \in aged' : d_ftime'[c] \subseteq durable'
      BY <1>1, <1>2, <2>2 DEF ReuseInv, DelayInv
    <3>2. \A e \in Range(list') : Delayed(e)' \/ Dropping(e)'
      BY <2>7, <2>13, <2>16, <2>17, <2>18 DEF ReuseInv, DelayInv
    <3>3. pc["thread"] = "item" => cur["thread"] \in Range(list)
      BY <1>2, <1>3, SeqIs DEF ReuseInv, WalkInv, AtFirst
    <3>4. pc["thread"] \in {"item", "delete"} /\ next["thread"] # End => next["thread"] \in Range(list)
      BY <1>2, <1>3, SeqIs DEF ReuseInv, WalkInv, AtFirst
    <3>5. pc'["thread"] = "item" => Delayed(cur["thread"])'
      <4>1. PICK e : e = cur["thread"]
        OBVIOUS
      <4> QED
        BY <1>1, <2>8, <2>16, <2>18, <3>3, <4>1 DEF ReuseInv, DelayInv, Delayed, Lost
    <3>6. pc'["thread"] \in {"item", "delete"} /\ next["thread"] # End => Delayed(next["thread"])'
      <4>1. PICK e : e = next["thread"]
        OBVIOUS
      <4> QED
        BY <1>1, <2>8, <2>16, <2>18, <3>4, <4>1 DEF ReuseInv, DelayInv, Delayed, Lost
    <3>7. ReleasedIsDurable'
      BY <1>1 DEF ReuseInv, DelayInv, ReleasedIsDurable, Lost
    <3> QED
      BY <1>1, <2>8, <3>1, <3>2, <3>5, <3>6, <3>7 DEF ReuseInv, DelayInv
  <2> QED
    BY <2>9, <2>10, <2>11, <2>14, <2>15, <2>19 DEF ReuseInv
<1> QED
  BY <1>4, <1>5

-----------------------------------------------------------------------------
(* The thread, the timer and unmount, between walks *)

\* Sleeping, waking and stopping do not touch the lists.
LEMMA IdleKeeps ==
  ASSUME TypeOK, ReuseInv, ThreadExit \/ ThreadSleep \/ PeriodicWakeup \/ StopThread
  PROVE  TypeOK' /\ ReuseInv'
<1>1. UNCHANGED <<use, freed, atOnce, freeing, inside, running, phase, aborted, written, durable, priv, list, d_ftime, aged, cur,
                  next, dr_count, stale>>
  BY DEF ThreadExit, ThreadSleep, PeriodicWakeup, StopThread, blockVars, commitVars, timeVars, walkVars, freeVars
<1>2. /\ pc \in [Walkers -> WalkPlaces]
      /\ pc["thread"] \in {"check", "item", "delete", "done", "sleepy", "asleep", "exited"}
      /\ pc["umount"] \in {"mounted", "item", "delete", "stop", "join", "gone"}
  BY Types DEF ReuseInv
<1>3. /\ pc' \in [Walkers -> WalkPlaces]
      /\ pc'["thread"] \in {"check", "item", "delete", "done", "sleepy", "asleep", "exited"}
      /\ pc'["umount"] \in {"mounted", "item", "delete", "stop", "join", "gone"}
      /\ pc["thread"] \in {"item", "delete"} => pc'["thread"] = pc["thread"]
      /\ pc'["thread"] \in {"item", "delete"} => pc'["thread"] = pc["thread"]
      /\ pc'["umount"] = "mounted" <=> pc["umount"] = "mounted"
      /\ pc'["umount"] \in {"item", "delete"} => pc'["umount"] = pc["umount"]
  BY <1>2 DEF ThreadExit, ThreadSleep, PeriodicWakeup, StopThread, Goto, Woken, Walkers, WalkPlaces
<1>4. should_stop' \in BOOLEAN /\ stale' \in BOOLEAN
  <2>1. should_stop \in BOOLEAN /\ stale \in BOOLEAN
    BY DEF TypeOK
  <2> QED
    BY <1>1, <2>1 DEF ThreadExit, ThreadSleep, PeriodicWakeup, StopThread, walkVars
<1>5. TypeOK' /\ Shapes'
  BY <1>1, <1>3, <1>4 DEF TypeOK, Shapes, ReuseInv
<1>6. CommitInv' /\ StageInv'
  BY <1>1, <1>3 DEF ReuseInv, CommitInv, StageInv
<1>7. /\ \A e : Dropping(e)' <=> Dropping(e)
      /\ \A e : (Held(e)' <=> Held(e)) /\ (Delayed(e)' <=> Delayed(e))
      /\ Entries' = Entries
  BY <1>1, <1>3 DEF Dropping, Held, Delayed, Entries, Lost
<1>8. HeldInv'
  <2>1. Held(cur["thread"])' <=> Held(cur["thread"])
    BY <1>1 DEF Held
  <2> QED
    BY <1>1, <1>3, <1>7, <2>1 DEF ReuseInv, HeldInv
<1>9. WalkInv'
  BY <1>1, <1>3 DEF ReuseInv, WalkInv, AtFirst
<1>10. DelayInv'
  <2>1. (Delayed(cur["thread"])' <=> Delayed(cur["thread"])) /\ (Delayed(next["thread"])' <=> Delayed(next["thread"]))
    BY <1>1 DEF Delayed, Lost
  <2> QED
    BY <1>1, <1>3, <1>7, <2>1 DEF ReuseInv, DelayInv, ReleasedIsDurable, Lost
<1> QED
  BY <1>5, <1>6, <1>8, <1>9, <1>10 DEF ReuseInv

-----------------------------------------------------------------------------
(* The walks *)

\* What looking at an entry sets.
LEMMA LookIs ==
  ASSUME TypeOK, ReuseInv, NEW w \in Walkers, NEW s \in Seq(Entry), IsInjective(s),
         NEW e \in Entry \cup {End}, Look(w, s, e)
  PROVE  /\ cur' \in [Walkers -> Entry \cup {End}] /\ next' \in [Walkers -> Entry \cup {End}]
         /\ cur'[w] = e /\ \A v \in Walkers \ {w} : cur'[v] = cur[v] /\ next'[v] = next[v] /\ pc'[v] = pc[v]
         /\ pc' \in [Walkers -> WalkPlaces] /\ pc'[w] \in {"item", Return(w)}
         /\ pc'[w] = "item" => e # End
         /\ next'[w] # End => next'[w] \in Range(s) /\ next'[w] # e
         /\ e # End /\ s # <<>> /\ e = s[1] => next'[w] = End \/ (Len(s) >= 2 /\ next'[w] = s[2])
<1>1. /\ cur \in [Walkers -> Entry \cup {End}] /\ next \in [Walkers -> Entry \cup {End}]
      /\ pc \in [Walkers -> WalkPlaces]
  BY Types DEF ReuseInv
<1>2. Return(w) \in WalkPlaces /\ "item" \in WalkPlaces /\ Return(w) # "item"
  BY DEF Return, WalkPlaces
<1>3. /\ Following(s, e) # End => Following(s, e) \in Range(s) /\ Following(s, e) # e
      /\ s # <<>> /\ e = s[1] =>
           Following(s, e) = End \/ (Len(s) >= 2 /\ Following(s, e) = s[2])
  BY EndIs, FollowingIs
<1>4. Range(s) \subseteq Entry
  BY SeqIs
<1>5. Following(s, e) \in Entry \cup {End}
  BY <1>3, <1>4
<1>6. /\ cur'[w] = e /\ \A v \in Walkers \ {w} : cur'[v] = cur[v] /\ next'[v] = next[v] /\ pc'[v] = pc[v]
      /\ pc'[w] = (IF e = End THEN Return(w) ELSE "item")
      /\ next'[w] = (IF e = End THEN End ELSE Following(s, e))
  BY <1>1 DEF Look, Goto
<1>7. /\ cur' \in [Walkers -> Entry \cup {End}] /\ next' \in [Walkers -> Entry \cup {End}]
      /\ pc' \in [Walkers -> WalkPlaces]
  BY <1>1, <1>2, <1>5 DEF Look, Goto
<1> QED
  BY <1>2, <1>3, <1>6, <1>7

\* The first entry of the list, if it has one.
LEMMA FirstIs ==
  ASSUME NEW s \in Seq(Entry)
  PROVE  /\ First(s) \in Entry \cup {End}
         /\ First(s) # End => Len(s) >= 1 /\ First(s) = s[1] /\ s # <<>>
         /\ First(s) # End => First(s) \in Range(s)
<1>1. s # <<>> => Len(s) >= 1
  BY SeqIs, EmptySeq
<1> QED
  BY <1>1, SeqIs DEF First

\* A walk begins.
LEMMA EnterIs ==
  ASSUME TypeOK, ReuseInv, NEW w \in Walkers, Enter(w)
  PROVE  /\ UNCHANGED <<use, freed, atOnce, freeing, inside, running, phase, aborted, written, durable, priv, list, d_ftime, aged, stale>>
         /\ dr_count' \in [Walkers -> Nat] /\ dr_count'["thread"] \in 0 .. Batch
         /\ dr_count'["thread"] \in {0, dr_count["thread"]} /\ (w = "thread" => dr_count'["thread"] = 0)
         /\ cur' \in [Walkers -> Entry \cup {End}] /\ next' \in [Walkers -> Entry \cup {End}]
         /\ \A v \in Walkers \ {w} : cur'[v] = cur[v] /\ next'[v] = next[v] /\ pc'[v] = pc[v]
         /\ pc' \in [Walkers -> WalkPlaces] /\ pc'[w] \in {"item", Return(w)}
         /\ pc'[w] = "item" =>
              /\ cur'[w] # End /\ Len(list) >= 1 /\ cur'[w] = list[1] /\ cur'[w] \in Range(list)
              /\ next'[w] # End => next'[w] \in Range(list) /\ next'[w] # cur'[w]
              /\ next'[w] = End \/ (Len(list) >= 2 /\ next'[w] = list[2])
<1>1. /\ UNCHANGED <<use, freed, atOnce, freeing, inside, running, phase, aborted, written, durable, priv, list, d_ftime, aged, stale>>
      /\ dr_count' = [dr_count EXCEPT ![w] = 0]
  BY DEF Enter, blockVars, commitVars, timeVars, freeVars
<1>2. /\ dr_count \in [Walkers -> Nat] /\ dr_count["thread"] \in 0 .. Batch /\ Batch \in Nat
      /\ list \in Seq(Entry) /\ pc \in [Walkers -> WalkPlaces]
      /\ cur \in [Walkers -> Entry \cup {End}] /\ next \in [Walkers -> Entry \cup {End}]
  BY Types DEF ReuseInv
<1>3. /\ dr_count' \in [Walkers -> Nat] /\ dr_count'["thread"] \in 0 .. Batch
      /\ dr_count'["thread"] \in {0, dr_count["thread"]} /\ (w = "thread" => dr_count'["thread"] = 0)
  BY <1>1, <1>2 DEF Walkers
<1>4. IsInjective(list)
  BY DEF ReuseInv, StageInv
<1>5. CASE inside
  <2>1. pc' = [pc EXCEPT ![w] = Return(w)] /\ cur' = cur /\ next' = next
    BY <1>5 DEF Enter, Goto
  <2>2. Return(w) \in WalkPlaces /\ Return(w) # "item"
    BY DEF Return, WalkPlaces
  <2> QED
    BY <1>1, <1>2, <1>3, <2>1, <2>2
<1>6. CASE ~inside
  <2>1. Look(w, list, First(list))
    BY <1>6 DEF Enter
  <2>2. /\ First(list) \in Entry \cup {End}
        /\ First(list) # End => Len(list) >= 1 /\ First(list) = list[1] /\ list # <<>>
        /\ First(list) # End => First(list) \in Range(list)
    BY <1>2, FirstIs
  <2>3. PICK e \in Entry \cup {End} : e = First(list)
    BY <2>2
  <2>4. Look(w, list, e)
    BY <2>1, <2>3
  <2>5. /\ cur' \in [Walkers -> Entry \cup {End}] /\ next' \in [Walkers -> Entry \cup {End}]
        /\ cur'[w] = e /\ \A v \in Walkers \ {w} : cur'[v] = cur[v] /\ next'[v] = next[v] /\ pc'[v] = pc[v]
        /\ pc' \in [Walkers -> WalkPlaces] /\ pc'[w] \in {"item", Return(w)}
        /\ pc'[w] = "item" => e # End
        /\ next'[w] # End => next'[w] \in Range(list) /\ next'[w] # e
        /\ e # End /\ list # <<>> /\ e = list[1] => next'[w] = End \/ (Len(list) >= 2 /\ next'[w] = list[2])
    BY <1>2, <1>4, <2>4, LookIs
  <2> QED
    BY <1>1, <1>3, <2>2, <2>3, <2>5
<1> QED
  BY <1>5, <1>6

\* The thread begins a walk, or unmount does.
LEMMA EnterKeeps ==
  ASSUME TypeOK, ReuseInv, ThreadLoop \/ PutSuper
  PROVE  TypeOK' /\ ReuseInv'
<1>1. PICK w \in Walkers :
        /\ Enter(w) /\ should_stop' = should_stop
        /\ w = "thread" => pc["thread"] = "check" /\ ~should_stop
        /\ w = "umount" => PutSuper /\ pc["umount"] = "mounted"
  BY DEF ThreadLoop, PutSuper, Walkers
<1>2. /\ UNCHANGED <<use, freed, atOnce, freeing, inside, running, phase, aborted, written, durable, priv, list, d_ftime, aged, stale>>
      /\ dr_count' \in [Walkers -> Nat] /\ dr_count'["thread"] \in 0 .. Batch
      /\ cur' \in [Walkers -> Entry \cup {End}] /\ next' \in [Walkers -> Entry \cup {End}]
      /\ \A v \in Walkers \ {w} : cur'[v] = cur[v] /\ next'[v] = next[v] /\ pc'[v] = pc[v]
      /\ pc' \in [Walkers -> WalkPlaces] /\ pc'[w] \in {"item", Return(w)}
  BY <1>1, EnterIs
<1>3. pc'[w] = "item" =>
        /\ cur'[w] # End /\ Len(list) >= 1 /\ cur'[w] = list[1] /\ cur'[w] \in Range(list)
        /\ next'[w] # End => next'[w] \in Range(list) /\ next'[w] # cur'[w]
        /\ next'[w] = End \/ (Len(list) >= 2 /\ next'[w] = list[2])
  BY <1>1, EnterIs
<1>4. /\ pc["thread"] \in {"check", "item", "delete", "done", "sleepy", "asleep", "exited"}
      /\ pc["umount"] \in {"mounted", "item", "delete", "stop", "join", "gone"}
      /\ list \in Seq(Entry)
  BY Types DEF ReuseInv
<1>5. TypeOK' /\ Shapes'
  <2>1. /\ pc'["thread"] \in {"check", "item", "delete", "done", "sleepy", "asleep", "exited"}
        /\ pc'["umount"] \in {"mounted", "item", "delete", "stop", "join", "gone"}
    BY <1>2, <1>4 DEF Walkers, Return
  <2>2. dr_count'["umount"] \in Nat /\ Batch \in Nat \ {0}
    BY <1>2, ConstantsAssumption DEF Walkers
  <2>3. pc'["thread"] \in {"item", "delete"} => dr_count'["thread"] < Batch
    <3>1. CASE w = "thread"
      BY <1>1, <2>2, <3>1, EnterIs
    <3>2. CASE w = "umount"
      <4>1. pc'["thread"] = pc["thread"] /\ dr_count'["thread"] \in {0, dr_count["thread"]}
        BY <1>1, <1>2, <3>2, EnterIs DEF Walkers
      <4> QED
        BY <2>2, <4>1 DEF ReuseInv, Shapes
    <3> QED
      BY <3>1, <3>2 DEF Walkers
  <2> QED
    BY <1>1, <1>2, <2>1, <2>2, <2>3 DEF TypeOK, Shapes, ReuseInv
<1>6. StageInv' /\ \A e : (Held(e)' <=> Held(e)) /\ (Delayed(e)' <=> Delayed(e))
  BY <1>2 DEF ReuseInv, StageInv, Held, Delayed, Lost
<1>7. Entries' = Entries
  BY <1>2 DEF Entries
<1>8. CASE w = "thread"
  <2>1. /\ pc["thread"] = "check" /\ ~should_stop /\ pc'["thread"] \in {"item", "done"}
        /\ pc'["umount"] = pc["umount"] /\ cur'["umount"] = cur["umount"] /\ next'["umount"] = next["umount"]
    BY <1>1, <1>2, <1>8 DEF Walkers, Return
  <2>2. CommitInv'
    BY <1>2, <2>1 DEF ReuseInv, CommitInv
  <2>3. HeldInv'
    BY <1>2, <1>6, <1>7, <2>1 DEF ReuseInv, HeldInv, Dropping
  <2>4. WalkInv'
    <3>1. AtFirst("thread")'
      BY <1>2, <1>3, <1>8, <2>1 DEF AtFirst
    <3> QED
      BY <3>1 DEF WalkInv
  <2>5. \A e \in Range(list) : Delayed(e)'
    BY <1>6, <2>1 DEF ReuseInv, DelayInv, Dropping
  <2>6. DelayInv'
    <3>1. pc'["thread"] = "item" => Delayed(cur["thread"])'
      BY <1>3, <1>8, <2>5 DEF Delayed, Lost
    <3>2. pc'["thread"] = "item" /\ next'["thread"] # End => Delayed(next["thread"])'
      BY <1>3, <1>8, <2>5 DEF Delayed, Lost
    <3>3. ReleasedIsDurable' /\ \A b \in aged' : d_ftime'[b] \subseteq durable'
      BY <1>2 DEF ReuseInv, DelayInv, ReleasedIsDurable, Lost
    <3> QED
      BY <1>2, <1>3, <1>8, <2>1, <2>5, <3>1, <3>2, <3>3 DEF DelayInv
  <2> QED
    BY <1>5, <1>6, <2>2, <2>3, <2>4, <2>6 DEF ReuseInv
<1>9. CASE w = "umount"
  <2>1. /\ pc'["umount"] \in {"item", "stop"} /\ pc'["thread"] = pc["thread"]
        /\ cur'["thread"] = cur["thread"] /\ next'["thread"] = next["thread"]
        /\ freeing = "none" /\ phase = "none" /\ priv.running = <<>> /\ pc["umount"] = "mounted"
    BY <1>1, <1>2, <1>9 DEF Walkers, Return, PutSuper
  <2>2. CommitInv'
    BY <1>2, <2>1 DEF ReuseInv, CommitInv
  <2>3. HeldInv'
    BY <2>1 DEF HeldInv
  <2>4. WalkInv'
    BY <2>1 DEF WalkInv
  <2>5. DelayInv'
    <3>1. /\ Delayed(cur["thread"])' <=> Delayed(cur["thread"])
          /\ Delayed(next["thread"])' <=> Delayed(next["thread"])
          /\ \A e : Dropping(e)' <=> Dropping(e)
      BY <1>2, <2>1 DEF Delayed, Dropping, Lost
    <3> QED
      BY <1>2, <1>6, <2>1, <3>1 DEF ReuseInv, DelayInv, ReleasedIsDurable, Lost
  <2> QED
    BY <1>5, <1>6, <2>2, <2>3, <2>4, <2>5 DEF ReuseInv
<1> QED
  BY <1>8, <1>9 DEF Walkers

\* While mounted the thread, if it walks, is at an entry of the list.
LEMMA AtEntry ==
  ASSUME TypeOK, ReuseInv, pc["thread"] \in {"item", "delete"}, pc["umount"] = "mounted"
  PROVE  AtFirst("thread") /\ cur["thread"] \in Range(list)
<1>1. list \in Seq(Entry)
  BY Types DEF ReuseInv
<1>2. AtFirst("thread")
  BY DEF ReuseInv, WalkInv
<1>3. Len(list) >= 1 /\ cur["thread"] = list[1]
  BY <1>2 DEF AtFirst
<1> QED
  BY <1>1, <1>2, <1>3, SeqIs

\* Unmount drops the lock at an entry.
LEMMA ItemUmountKeeps ==
  ASSUME TypeOK, ReuseInv, Item("umount")
  PROVE  TypeOK' /\ ReuseInv'
<1>1. /\ pc["umount"] = "item" /\ pc' = [pc EXCEPT !["umount"] = "delete"] /\ use' = use
      /\ dr_count' = [dr_count EXCEPT !["umount"] = @ + 1]
      /\ UNCHANGED <<freed, atOnce, freeing, inside, running, phase, aborted, written, durable, priv, list, d_ftime, aged, cur,
                     next, should_stop>>
      /\ stale' = (stale \/ ~Contains(list, cur["umount"]) \/ (use' # use /\ pc["umount"] # "mounted"))
  BY DEF Item, Goto, freeVars, commitVars, timeVars
<1>2. /\ pc \in [Walkers -> WalkPlaces] /\ dr_count \in [Walkers -> Nat] /\ list \in Seq(Entry)
      /\ pc["thread"] \in {"check", "item", "delete", "done", "sleepy", "asleep", "exited"}
  BY Types DEF ReuseInv
<1>3. /\ pc' \in [Walkers -> WalkPlaces] /\ dr_count' \in [Walkers -> Nat]
      /\ pc'["umount"] = "delete" /\ pc'["thread"] = pc["thread"]
      /\ dr_count'["thread"] = dr_count["thread"] /\ dr_count'["umount"] \in Nat
  BY <1>1, <1>2 DEF Walkers, WalkPlaces
<1>4. stale' \in BOOLEAN /\ should_stop' \in BOOLEAN
  <2>1. (stale \/ ~Contains(list, cur["umount"]) \/ (use' # use /\ pc["umount"] # "mounted")) \in BOOLEAN
    OBVIOUS
  <2>2. should_stop \in BOOLEAN
    BY DEF TypeOK
  <2> QED
    BY <1>1, <2>1, <2>2
<1>5. TypeOK' /\ Shapes'
  BY <1>1, <1>3, <1>4 DEF TypeOK, Shapes, ReuseInv
<1>6. CommitInv' /\ StageInv' /\ HeldInv'
  BY <1>1, <1>3 DEF ReuseInv, CommitInv, StageInv, HeldInv
<1>7. WalkInv'
  BY <1>3 DEF WalkInv
<1>8. DelayInv'
  <2>1. /\ Delayed(cur["thread"])' <=> Delayed(cur["thread"])
        /\ Delayed(next["thread"])' <=> Delayed(next["thread"])
        /\ \A e : (Dropping(e)' <=> Dropping(e)) /\ (Delayed(e)' <=> Delayed(e))
    BY <1>1, <1>3 DEF Delayed, Dropping, Lost
  <2> QED
    BY <1>1, <1>3, <2>1 DEF ReuseInv, DelayInv, ReleasedIsDurable, Lost
<1> QED
  BY <1>5, <1>6, <1>7, <1>8 DEF ReuseInv

\* The thread drops the lock at an entry, and gives its block back or stops.
LEMMA ItemThreadKeeps ==
  ASSUME TypeOK, ReuseInv, Item("thread")
  PROVE  TypeOK' /\ ReuseInv'
<1>1. PICK x, b : x = cur["thread"] /\ b = x.b
  OBVIOUS
<1>2. /\ pc["thread"] = "item" /\ dr_count' = [dr_count EXCEPT !["thread"] = @ + 1]
      /\ \/ pc' = [pc EXCEPT !["thread"] = "done"] /\ use' = use
         \/ /\ dr_count'["thread"] < Batch /\ b \in aged /\ b # freeing
            /\ use' = [use EXCEPT ![b] = "free"] /\ pc' = [pc EXCEPT !["thread"] = "delete"]
      /\ UNCHANGED <<freed, atOnce, freeing, inside, running, phase, aborted, written, durable, priv, list, d_ftime, aged, cur,
                     next, should_stop>>
      /\ stale' = (stale \/ ~Contains(list, x) \/ (use' # use /\ pc["umount"] # "mounted"))
  BY <1>1 DEF Item, Goto, Return, freeVars, commitVars, timeVars
<1>3. /\ pc \in [Walkers -> WalkPlaces] /\ dr_count \in [Walkers -> Nat] /\ list \in Seq(Entry)
      /\ pc["umount"] \in {"mounted", "item", "delete", "stop", "join", "gone"}
      /\ use \in [Blocks -> {"used", "held", "free"}] /\ cur \in [Walkers -> Entry \cup {End}]
      /\ Batch \in Nat /\ dr_count["thread"] < Batch /\ aged \subseteq Blocks
      /\ priv.running \in Seq(Entry) /\ priv.committing \in Seq(Entry)
  BY <1>2, Types DEF ReuseInv, Shapes
<1>4. x \in Entry /\ b \in Blocks /\ Delayed(x)
  <2>1. x # End /\ Delayed(x)
    BY <1>1, <1>2 DEF ReuseInv, DelayInv
  <2> QED
    BY <1>1, <1>3, <2>1, EntryIs DEF Walkers
<1>5. /\ pc' \in [Walkers -> WalkPlaces] /\ dr_count' \in [Walkers -> Nat]
      /\ pc'["umount"] = pc["umount"] /\ pc'["thread"] \in {"done", "delete"}
      /\ dr_count'["thread"] \in 0 .. Batch /\ dr_count'["umount"] = dr_count["umount"]
      /\ pc'["thread"] = "delete" => dr_count'["thread"] < Batch
      /\ use' \in [Blocks -> {"used", "held", "free"}]
  <2>1. dr_count' \in [Walkers -> Nat] /\ dr_count'["umount"] = dr_count["umount"]
    BY <1>2, <1>3 DEF Walkers
  <2>2. dr_count'["thread"] \in 0 .. Batch
    BY <1>2, <1>3 DEF Walkers
  <2>3. CASE pc' = [pc EXCEPT !["thread"] = "done"] /\ use' = use
    <3>1. pc' \in [Walkers -> WalkPlaces] /\ pc'["umount"] = pc["umount"] /\ pc'["thread"] = "done"
      BY <1>3, <2>3 DEF Walkers, WalkPlaces
    <3> QED
      BY <1>3, <2>1, <2>2, <2>3, <3>1
  <2>4. CASE /\ dr_count'["thread"] < Batch /\ b \in aged
             /\ use' = [use EXCEPT ![b] = "free"] /\ pc' = [pc EXCEPT !["thread"] = "delete"]
    <3>1. pc' \in [Walkers -> WalkPlaces] /\ pc'["umount"] = pc["umount"] /\ pc'["thread"] = "delete"
      BY <1>3, <2>4 DEF Walkers, WalkPlaces
    <3>2. use' \in [Blocks -> {"used", "held", "free"}]
      BY <1>3, <2>4
    <3> QED
      BY <2>1, <2>2, <2>4, <3>1, <3>2
  <2> QED
    BY <1>2, <2>3, <2>4
<1>6. stale' \in BOOLEAN /\ should_stop' \in BOOLEAN
  <2>1. (stale \/ ~Contains(list, x) \/ (use' # use /\ pc["umount"] # "mounted")) \in BOOLEAN
    OBVIOUS
  <2>2. should_stop \in BOOLEAN
    BY DEF TypeOK
  <2> QED
    BY <1>2, <2>1, <2>2
<1>7. TypeOK' /\ Shapes'
  BY <1>2, <1>5, <1>6 DEF TypeOK, Shapes, ReuseInv
<1>8. pc["umount"] = "mounted" => x \in Range(list) /\ AtFirst("thread")
  BY <1>1, <1>2, AtEntry
<1>9. CommitInv'
  <2>1. freeing # "none" => use'[freeing] = use[freeing]
    BY <1>2, <1>3 DEF TypeOK
  <2> QED
    BY <1>2, <1>5, <2>1 DEF ReuseInv, CommitInv
<1>10. StageInv'
  BY <1>2 DEF ReuseInv, StageInv
<1>11. Entries' = Entries /\ Entries \subseteq Entry
  BY <1>2, <1>3, SeqIs DEF Entries
<1>12. HeldInv'
  <2> SUFFICES ASSUME pc["umount"] = "mounted"
               PROVE  HeldInv'
    BY <1>5 DEF HeldInv
  <2>1. /\ \A c \in Blocks : use[c] = "held" => [b |-> c, t |-> freed[c]] \in Entries
        /\ \A e \in Entries : Held(e)
        /\ x \in Entries
    BY <1>2, <1>8 DEF ReuseInv, HeldInv, Dropping, Entries
  <2>2. CASE use' = use /\ pc' = [pc EXCEPT !["thread"] = "done"]
    <3>1. pc'["thread"] = "done"
      BY <1>3, <2>2 DEF Walkers
    <3>2. \A e : Held(e)' <=> Held(e)
      BY <1>2, <2>2 DEF Held
    <3> QED
      BY <1>2, <1>11, <2>1, <2>2, <3>1, <3>2 DEF HeldInv
  <2>3. CASE use' = [use EXCEPT ![b] = "free"] /\ pc' = [pc EXCEPT !["thread"] = "delete"]
    <3>1. pc'["thread"] = "delete" /\ cur'["thread"] = x
      BY <1>1, <1>2, <1>3, <2>3 DEF Walkers
    <3>2. \A c \in Blocks : use'[c] = "held" => use[c] = "held"
      BY <1>3, <1>4, <2>3
    <3>3. \A e \in Entries : e # x => Held(e)'
      <4> SUFFICES ASSUME NEW e \in Entries, e # x
                   PROVE  Held(e)'
        OBVIOUS
      <4>1. Held(e) /\ Held(x) /\ e \in Entry
        BY <1>11, <2>1
      <4>2. e.b # b
        BY <1>1, <1>4, <4>1, EntryIs DEF Held
      <4> QED
        BY <1>2, <1>3, <2>3, <4>1, <4>2 DEF Held
    <3>4. ~Held(cur["thread"])'
      BY <1>1, <1>3, <1>4, <2>3, <3>1 DEF Held
    <3> QED
      BY <1>2, <1>11, <2>1, <3>1, <3>2, <3>3, <3>4 DEF HeldInv, Dropping
  <2> QED
    BY <1>2, <2>2, <2>3
<1>13. WalkInv'
  BY <1>2, <1>5, <1>8 DEF WalkInv, AtFirst
<1>14. DelayInv'
  <2>1. /\ \A e : Delayed(e)' <=> Delayed(e)
        /\ Delayed(next["thread"])' <=> Delayed(next["thread"])
    BY <1>2 DEF Delayed, Lost
  <2>2. \A e \in Range(list) : Delayed(e)
    BY <1>2 DEF ReuseInv, DelayInv, Dropping
  <2>3. ReleasedIsDurable'
    <3>1. b \in aged => 1 .. freed[b] \subseteq durable \/ Lost(freed[b])
      BY <1>1, <1>4 DEF ReuseInv, DelayInv, Delayed, Lost
    <3> QED
      BY <1>2, <1>3, <3>1 DEF ReuseInv, DelayInv, ReleasedIsDurable, Lost
  <2> QED
    BY <1>2, <1>5, <2>1, <2>2, <2>3 DEF ReuseInv, DelayInv
<1> QED
  BY <1>7, <1>9, <1>10, <1>12, <1>13, <1>14 DEF ReuseInv

\* An entry leaves the list, and the walk goes on to what it remembered.
LEMMA DeleteIs ==
  ASSUME TypeOK, ReuseInv, NEW w \in Walkers, Delete(w)
  PROVE  /\ UNCHANGED <<use, freed, atOnce, freeing, inside, running, phase, aborted, written, durable, priv, d_ftime, aged, dr_count,
                        should_stop>>
         /\ list' \in Seq(Entry) /\ IsInjective(list') /\ Range(list') = Range(list) \ {cur[w]}
         /\ list # <<>> /\ cur[w] = list[1] =>
              Len(list') = Len(list) - 1 /\ \A i \in 1 .. Len(list) - 1 : list'[i] = list[i + 1]
         /\ cur' \in [Walkers -> Entry \cup {End}] /\ next' \in [Walkers -> Entry \cup {End}]
         /\ cur'[w] = next[w]
         /\ \A v \in Walkers \ {w} : cur'[v] = cur[v] /\ next'[v] = next[v] /\ pc'[v] = pc[v]
         /\ pc' \in [Walkers -> WalkPlaces] /\ pc'[w] \in {"item", Return(w)}
         /\ pc'[w] = "item" => next[w] # End
         /\ next'[w] # End => next'[w] \in Range(list') /\ next'[w] # next[w]
         /\ next[w] # End /\ list' # <<>> /\ next[w] = list'[1] =>
              next'[w] = End \/ (Len(list') >= 2 /\ next'[w] = list'[2])
<1>1. /\ UNCHANGED <<use, freed, atOnce, freeing, inside, running, phase, aborted, written, durable, priv, d_ftime, aged, dr_count,
                     should_stop>>
      /\ list' = Unlink(list, cur[w]) /\ Look(w, list', next[w])
  BY DEF Delete, blockVars, commitVars, timeVars, freeVars
<1>2. list \in Seq(Entry) /\ IsInjective(list) /\ next \in [Walkers -> Entry \cup {End}]
  BY Types DEF ReuseInv, StageInv
<1>3. /\ Unlink(list, cur[w]) \in Seq(Entry) /\ IsInjective(Unlink(list, cur[w]))
      /\ Range(Unlink(list, cur[w])) = Range(list) \ {cur[w]}
      /\ list # <<>> /\ cur[w] = list[1] =>
           /\ Len(Unlink(list, cur[w])) = Len(list) - 1
           /\ \A i \in 1 .. Len(list) - 1 : Unlink(list, cur[w])[i] = list[i + 1]
  BY <1>2, UnlinkIs
<1>4. PICK e \in Entry \cup {End} : e = next[w]
  BY <1>2
<1>5. PICK s \in Seq(Entry) : s = list' /\ IsInjective(s)
  BY <1>1, <1>3
<1>6. Look(w, s, e)
  BY <1>1, <1>4, <1>5
<1>7. /\ cur' \in [Walkers -> Entry \cup {End}] /\ next' \in [Walkers -> Entry \cup {End}]
      /\ cur'[w] = e /\ \A v \in Walkers \ {w} : cur'[v] = cur[v] /\ next'[v] = next[v] /\ pc'[v] = pc[v]
      /\ pc' \in [Walkers -> WalkPlaces] /\ pc'[w] \in {"item", Return(w)}
      /\ pc'[w] = "item" => e # End
      /\ next'[w] # End => next'[w] \in Range(s) /\ next'[w] # e
      /\ e # End /\ s # <<>> /\ e = s[1] => next'[w] = End \/ (Len(s) >= 2 /\ next'[w] = s[2])
  BY <1>5, <1>6, LookIs
<1> QED
  BY <1>1, <1>3, <1>4, <1>5, <1>7

\* A walk that was at the first of the entries still is.
LEMMA DeleteAtFirst ==
  ASSUME TypeOK, ReuseInv, NEW w \in Walkers, Delete(w), AtFirst(w)
  PROVE  AtFirst(w)'
<1>1. pc[w] = "delete"
  BY DEF Delete
<1>2. list \in Seq(Entry) /\ pc' \in [Walkers -> WalkPlaces] /\ pc'[w] \in {"item", Return(w)}
  BY DeleteIs, Types DEF ReuseInv
<1>3. /\ Len(list) \in Nat /\ Len(list) >= 1 /\ cur[w] = list[1] /\ list # <<>>
      /\ next[w] = End \/ (Len(list) >= 2 /\ next[w] = list[2])
  BY <1>1, <1>2, SeqIs, EmptySeq DEF AtFirst
<1>4. Len(list') = Len(list) - 1 /\ \A i \in 1 .. Len(list) - 1 : list'[i] = list[i + 1]
  BY <1>3, DeleteIs
<1>5. CASE pc'[w] = "item"
  <2>1. next[w] # End /\ cur'[w] = next[w]
    BY <1>5, DeleteIs
  <2>2. Len(list') >= 1 /\ list'[1] = list[2] /\ list' # <<>>
    <3>1. 1 \in 1 .. Len(list) - 1 /\ 1 + 1 = 2 /\ Len(list') >= 1
      BY <1>3, <1>4, <2>1
    <3>2. list'[1] = list[1 + 1]
      BY <1>4, <3>1
    <3> QED
      BY <3>1, <3>2, EmptySeq
  <2>3. next'[w] = End \/ (Len(list') >= 2 /\ next'[w] = list'[2])
    BY <1>3, <2>1, <2>2, DeleteIs
  <2> QED
    BY <1>3, <2>1, <2>2, <2>3 DEF AtFirst
<1>6. CASE pc'[w] = Return(w)
  BY <1>6 DEF AtFirst, Return
<1> QED
  BY <1>2, <1>5, <1>6


\* Types, the commit and the stages are kept by either walk.
LEMMA DeleteCommon ==
  ASSUME TypeOK, ReuseInv, NEW w \in Walkers, Delete(w)
  PROVE  TypeOK' /\ Shapes' /\ CommitInv' /\ StageInv'
<1>1. /\ UNCHANGED <<use, freed, atOnce, freeing, inside, running, phase, aborted, written, durable, priv, d_ftime, aged, dr_count,
                     should_stop>>
      /\ list' \in Seq(Entry) /\ IsInjective(list') /\ Range(list') \subseteq Range(list)
      /\ cur' \in [Walkers -> Entry \cup {End}] /\ next' \in [Walkers -> Entry \cup {End}]
      /\ pc' \in [Walkers -> WalkPlaces]
  BY DeleteIs
<1>2. /\ pc["thread"] \in {"check", "item", "delete", "done", "sleepy", "asleep", "exited"}
      /\ pc["umount"] \in {"mounted", "item", "delete", "stop", "join", "gone"}
  BY Types DEF ReuseInv
<1>3. /\ pc[w] = "delete" /\ pc'[w] \in {"item", Return(w)} /\ \A v \in Walkers \ {w} : pc'[v] = pc[v]
  BY DeleteIs DEF Delete
<1>4. /\ pc'["thread"] \in {"check", "item", "delete", "done", "sleepy", "asleep", "exited"}
      /\ pc'["umount"] \in {"mounted", "item", "delete", "stop", "join", "gone"}
      /\ pc'["umount"] = "mounted" <=> pc["umount"] = "mounted"
      /\ pc'["thread"] \in {"item", "delete"} => pc["thread"] \in {"item", "delete"}
  BY <1>2, <1>3 DEF Walkers, Return
<1>5. stale' \in BOOLEAN
  <2>1. stale' = (stale \/ ~Contains(list, cur[w]) \/ (next[w] # End /\ ~Contains(list, next[w])))
    BY DEF Delete
  <2>2. (stale \/ ~Contains(list, cur[w]) \/ (next[w] # End /\ ~Contains(list, next[w]))) \in BOOLEAN
    OBVIOUS
  <2> QED
    BY <2>1, <2>2
<1>6. should_stop' \in BOOLEAN
  BY <1>1 DEF TypeOK
<1>7. TypeOK' /\ Shapes'
  BY <1>1, <1>4, <1>5, <1>6 DEF TypeOK, Shapes, ReuseInv
<1>8. CommitInv'
  BY <1>1, <1>4 DEF ReuseInv, CommitInv
<1>9. StageInv'
  BY <1>1 DEF ReuseInv, StageInv
<1> QED
  BY <1>7, <1>8, <1>9

\* The thread drops the entry whose block it gave back.
LEMMA DeleteThreadKeeps ==
  ASSUME TypeOK, ReuseInv, Delete("thread")
  PROVE  TypeOK' /\ ReuseInv'
<1>1. PICK x, y : x = cur["thread"] /\ y = next["thread"]
  OBVIOUS
<1>2. /\ UNCHANGED <<use, freed, atOnce, freeing, inside, running, phase, aborted, written, durable, priv, d_ftime, aged, dr_count,
                     should_stop>>
      /\ Range(list') = Range(list) \ {x} /\ cur'["thread"] = y
      /\ pc'["thread"] \in {"item", "done"}
      /\ pc'["thread"] = "item" => y # End
      /\ next'["thread"] # End => next'["thread"] \in Range(list') /\ next'["thread"] # y
      /\ cur'["umount"] = cur["umount"] /\ next'["umount"] = next["umount"] /\ pc'["umount"] = pc["umount"]
  BY <1>1, DeleteIs DEF Walkers, Return
<1>3. pc["thread"] = "delete"
  BY DEF Delete
<1>4. TypeOK' /\ Shapes' /\ CommitInv' /\ StageInv'
  BY DeleteCommon DEF Walkers
<1>5. \A e : (Held(e)' <=> Held(e)) /\ (Delayed(e)' <=> Delayed(e))
  BY <1>2 DEF Held, Delayed, Lost
<1>6. HeldInv'
  <2> SUFFICES ASSUME pc["umount"] = "mounted"
               PROVE  HeldInv'
    BY <1>2 DEF HeldInv
  <2>1. /\ \A b \in Blocks : use[b] = "held" => [b |-> b, t |-> freed[b]] \in Entries
        /\ \A e \in Entries : e # x => Held(e)
        /\ ~Held(x)
    BY <1>1, <1>3 DEF ReuseInv, HeldInv, Dropping
  <2>2. x \in Range(list)
    BY <1>1, <1>3, AtEntry
  <2>3. x \notin Range(priv.running) /\ x \notin Range(priv.committing)
    <3>1. running \in Nat /\ x.t < running
      BY <2>2, Types DEF ReuseInv, StageInv
    <3>2. x \in Range(priv.running) => x.t = running
      BY DEF ReuseInv, StageInv
    <3> QED
      BY <2>2, <3>1, <3>2 DEF ReuseInv, StageInv
  <2>4. Entries' = Entries \ {x}
    BY <1>2, <2>2, <2>3 DEF Entries
  <2>5. \A b \in Blocks : use[b] = "held" => [b |-> b, t |-> freed[b]] # x
    BY <2>1 DEF Held
  <2> QED
    BY <1>2, <1>5, <2>1, <2>4, <2>5 DEF HeldInv
<1>7. WalkInv'
  <2>1. pc["umount"] = "mounted" => AtFirst("thread")'
    BY DeleteAtFirst DEF ReuseInv, WalkInv, Walkers
  <2> QED
    BY <1>2, <2>1 DEF WalkInv
<1>8. DelayInv'
  <2>1. \A e \in Range(list') : Delayed(e)'
    BY <1>1, <1>2, <1>5 DEF ReuseInv, DelayInv, Dropping
  <2>2. pc'["thread"] = "item" => Delayed(cur["thread"])'
    <3>1. y # End => Delayed(y)
      BY <1>1, <1>3 DEF ReuseInv, DelayInv
    <3> QED
      BY <1>2, <1>5, <3>1 DEF Delayed, Lost
  <2>3. next'["thread"] # End => Delayed(next["thread"])' /\ next'["thread"] # cur'["thread"]
    BY <1>2, <2>1 DEF Delayed, Lost
  <2>4. ReleasedIsDurable' /\ \A b \in aged' : d_ftime'[b] \subseteq durable'
    BY <1>2 DEF ReuseInv, DelayInv, ReleasedIsDurable, Lost
  <2> QED
    BY <1>2, <2>1, <2>2, <2>3, <2>4 DEF DelayInv
<1> QED
  BY <1>4, <1>6, <1>7, <1>8 DEF ReuseInv

\* Unmount drops an entry.
LEMMA DeleteUmountKeeps ==
  ASSUME TypeOK, ReuseInv, Delete("umount")
  PROVE  TypeOK' /\ ReuseInv'
<1>1. /\ UNCHANGED <<use, freed, atOnce, freeing, inside, running, phase, aborted, written, durable, priv, d_ftime, aged, dr_count,
                     should_stop>>
      /\ Range(list') \subseteq Range(list)
      /\ pc'["umount"] \in {"item", "stop"}
      /\ cur'["thread"] = cur["thread"] /\ next'["thread"] = next["thread"] /\ pc'["thread"] = pc["thread"]
  BY DeleteIs DEF Walkers, Return
<1>2. pc["umount"] = "delete"
  BY DEF Delete
<1>3. TypeOK' /\ Shapes' /\ CommitInv' /\ StageInv'
  BY DeleteCommon DEF Walkers
<1>4. HeldInv'
  BY <1>1 DEF HeldInv
<1>5. WalkInv'
  BY <1>1 DEF WalkInv
<1>6. DelayInv'
  <2>1. /\ Delayed(cur["thread"])' <=> Delayed(cur["thread"])
        /\ Delayed(next["thread"])' <=> Delayed(next["thread"])
        /\ \A e : (Dropping(e)' <=> Dropping(e)) /\ (Delayed(e)' <=> Delayed(e))
    BY <1>1 DEF Delayed, Dropping, Lost
  <2> QED
    BY <1>1, <2>1 DEF ReuseInv, DelayInv, ReleasedIsDurable, Lost
<1> QED
  BY <1>3, <1>4, <1>5, <1>6 DEF ReuseInv

-----------------------------------------------------------------------------
(* The theorems *)

\* Every step keeps the invariant.
LEMMA ReuseNext ==
  ASSUME TypeOK, ReuseInv, [Next]_vars
  PROVE  TypeOK' /\ ReuseInv'
<1>1. CASE UNCHANGED vars
  <2>1. UNCHANGED <<use, freed, atOnce, freeing, inside, running, phase, aborted, written, durable, priv, list, d_ftime, aged, pc, cur,
                    next, dr_count, should_stop, stale>>
    BY <1>1 DEF vars, blockVars, commitVars, timeVars, walkVars, freeVars
  <2>2. TypeOK' /\ Shapes' /\ CommitInv' /\ StageInv'
    BY <2>1 DEF TypeOK, ReuseInv, Shapes, CommitInv, StageInv
  <2>3. HeldInv'
    BY <2>1 DEF ReuseInv, HeldInv, Entries, Held, Dropping
  <2>4. WalkInv'
    BY <2>1 DEF ReuseInv, WalkInv, AtFirst
  <2>5. DelayInv'
    BY <2>1 DEF ReuseInv, DelayInv, Delayed, Dropping, ReleasedIsDurable, Lost
  <2> QED
    BY <2>2, <2>3, <2>4, <2>5 DEF ReuseInv
<1>2. CASE \E b \in Blocks : FreeBlocks(b) \/ FreeAtOnce(b) \/ Allocate(b) \/ Age(b)
  BY <1>2, FreeBlocksKeeps, FreeAtOnceKeeps, AllocateKeeps, AgeKeeps
<1>3. CASE FreeMetadata
  <2>1. use[freeing] \in {"used", "held"}
    BY <1>3 DEF FreeMetadata
  <2> QED
    BY <1>3, <2>1, FreeMetadataKeeps, FreeTwiceKeeps
<1>4. CASE CommitStep
  <2>1. CommitRecord => (~aborted /\ aborted' = aborted) \/ (aborted' /\ UNCHANGED written)
    BY DEF CommitRecord
  <2> QED
    BY <1>4, <2>1, CommitSwitchKeeps, CommitRecordKeeps, CommitFailsKeeps, ReleaseOnCommitKeeps DEF CommitStep
<1>5. CASE ThreadStep
  BY <1>5, EnterKeeps, IdleKeeps, ItemThreadKeeps, DeleteThreadKeeps DEF ThreadStep
<1>6. CASE PeriodicWakeup
  BY <1>6, IdleKeeps
<1>7. CASE PutSuper
  BY <1>7, EnterKeeps
<1>8. CASE UnmountStep
  BY <1>8, IdleKeeps, ItemUmountKeeps, DeleteUmountKeeps DEF UnmountStep
<1>9. CASE \E t \in Tids : Settle(t)
  BY <1>9, SettleKeeps
<1> QED
  BY <1>1, <1>2, <1>3, <1>4, <1>5, <1>6, <1>7, <1>8, <1>9 DEF Next

\* The inductive invariant holds of every state.
LEMMA Inductive == Spec => [](TypeOK /\ ReuseInv)
<1>1. Init => TypeOK /\ ReuseInv
  BY InitInv
<1>2. TypeOK /\ ReuseInv /\ [Next]_vars => TypeOK' /\ ReuseInv'
  BY ReuseNext
<1> QED
  BY <1>1, <1>2, PTL DEF Spec

\* Every variable keeps its type; a batch of the thread stays within its bound.
THEOREM TypeCorrect == Spec => []TypeOK
BY Inductive, PTL

\* A block goes back to the buddy (release_blocks_after_delay) only when the
\* transaction that freed it, and every one before, is on the platter, except a block
\* freed in writeback mode and one whose freeing was lost with a failed commit.
THEOREM ReturnsAreDurable == Spec => []ReleasedIsDurable
<1>1. TypeOK /\ ReuseInv => ReleasedIsDurable
  BY DEF ReuseInv, DelayInv
<1> QED
  BY <1>1, Inductive, PTL

\* While mounted, no freed block is lost between the lists of the running and of the
\* committing transaction and the delayed list, and none is on them twice.
THEOREM EveryHeldBlockListed == Spec => []HeldOnce
<1>1. ASSUME TypeOK, ReuseInv
      PROVE  HeldOnce
  <2> SUFFICES ASSUME pc["umount"] = "mounted"
               PROVE  HeldOnce
    BY DEF HeldOnce
  <2> DEFINE a   == priv.running
             c   == priv.committing
             all == a \o c \o list
  <2>1. a \in Seq(Entry) /\ c \in Seq(Entry) /\ list \in Seq(Entry) /\ running \in Nat
    BY <1>1, Types DEF ReuseInv
  <2>2. IsInjective(a) /\ IsInjective(c) /\ IsInjective(list)
    BY <1>1 DEF ReuseInv, StageInv
  <2>3. /\ \A e \in Range(a) : e.t = running
        /\ \A e \in Range(c) : e.t = running - 1 /\ e \notin Range(list)
        /\ \A e \in Range(list) : e.t < running
    BY <1>1 DEF ReuseInv, StageInv
  <2> HIDE DEF a, c
  <2>4. Range(a) \cap Range(c) = {} /\ (Range(a) \cup Range(c)) \cap Range(list) = {}
    <3>1. \A e \in Range(a) : e \notin Range(c)
      BY <2>1, <2>3
    <3>2. ~(running < running)
      BY <2>1
    <3>3. \A e \in Range(a) : e \notin Range(list)
      BY <2>3, <3>2, Zenon
    <3>4. \A e \in Range(c) : e \notin Range(list)
      BY <2>3
    <3> QED
      BY <3>1, <3>3, <3>4, Zenon
  <2>5. a \o c \in Seq(Entry) /\ Range(a \o c) = Range(a) \cup Range(c) /\ IsInjective(a \o c)
    BY <2>1, <2>2, <2>4, ConcatIs
  <2> DEFINE ac == a \o c
  <2>6. ac \in Seq(Entry) /\ IsInjective(ac) /\ Range(ac) \cap Range(list) = {}
    BY <2>4, <2>5
  <2> HIDE DEF ac
  <2>7. ac \o list \in Seq(Entry) /\ Range(ac \o list) = Range(ac) \cup Range(list) /\ IsInjective(ac \o list)
    BY <2>1, <2>2, <2>6, ConcatIs
  <2>8. all \in Seq(Entry) /\ Range(all) = Range(a \o c) \cup Range(list) /\ IsInjective(all)
    BY <2>7 DEF ac
  <2> HIDE DEF all
  <2>9. Range(all) = Entries
    BY <2>5, <2>8 DEF Entries, a, c
  <2>10. /\ \A b \in Blocks : use[b] = "held" => [b |-> b, t |-> freed[b]] \in Range(all)
         /\ \A e \in Range(all) : Held(e) \/ Dropping(e)
    BY <1>1, <2>9 DEF ReuseInv, HeldInv
  <2>11. /\ \A e \in Range(all) : \E i \in DOMAIN all : e = all[i]
         /\ \A i \in DOMAIN all : all[i] \in Range(all)
    BY <2>8, SeqIs
  <2>12. \A b \in Blocks : use[b] = "held" => \E i \in DOMAIN all : all[i] = [b |-> b, t |-> freed[b]]
    BY <2>10, <2>11
  <2>13. \A i \in DOMAIN all : \/ use[all[i].b] = "held" /\ freed[all[i].b] = all[i].t
                               \/ pc["thread"] = "delete" /\ cur["thread"] = all[i]
    <3> SUFFICES ASSUME NEW i \in DOMAIN all
                 PROVE  \/ use[all[i].b] = "held" /\ freed[all[i].b] = all[i].t
                        \/ pc["thread"] = "delete" /\ cur["thread"] = all[i]
      OBVIOUS
    <3>1. PICK e \in Range(all) : e = all[i]
      BY <2>11
    <3>2. Held(e) \/ Dropping(e)
      BY <2>10
    <3> QED
      BY <3>1, <3>2 DEF Held, Dropping
  <2> QED
    BY <2>8, <2>12, <2>13 DEF HeldOnce, all, a, c
<1> QED
  BY <1>1, Inductive, PTL

=============================================================================
