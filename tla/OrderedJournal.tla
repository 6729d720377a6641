--------------------------- MODULE OrderedJournal ---------------------------
(***************************************************************************)
(* What the journal promises its callers: commits are written one after    *)
(* the other in the order of their transactions, a crash keeps a prefix of *)
(* them that never shrinks, a caller of osync is told of success only when *)
(* its commit and all earlier ones are written, a caller of dsync, on a    *)
(* journal with barriers, only when a crash would keep them, and from the  *)
(* first error on nothing more is written and nobody is told of success.   *)
(***************************************************************************)
EXTENDS Integers

CONSTANTS
  Tid,        \* transaction ids
  Barriers    \* whether the journal writes with barriers

VARIABLES
  written,    \* commits that are written
  kept,       \* commits that a crash would keep
  ordered,    \* commits that a caller knows to be ordered
  durable,    \* commits that a caller of dsync knows to be durable
  stopped     \* the journal has met an error

vars == <<written, kept, ordered, durable, stopped>>

Prefix(S) == S \subseteq Tid /\ \A t \in S : \A u \in Tid : u < t => u \in S

Init ==
  /\ written = {} /\ kept = {} /\ ordered = {} /\ durable = {}
  /\ stopped = FALSE

\* A crash keeps more, of what is written.
Keep == kept \subseteq kept' /\ kept' \subseteq written' /\ Prefix(kept')

\* The next commit is written.
Write ==
  /\ ~stopped
  /\ \E t \in Tid \ written : written' = written \cup {t} /\ Prefix(written')
  /\ Keep
  /\ UNCHANGED <<ordered, durable, stopped>>

\* Written commits become durable, by themselves or because of a flush, which
\* the journal may send just before it stops.
Settle ==
  /\ Keep
  /\ stopped' \in {stopped, TRUE}
  /\ UNCHANGED <<written, ordered, durable>>

\* osync or dsync returns success.
Acknowledge ==
  /\ ~stopped
  /\ ordered \subseteq ordered' /\ ordered' \subseteq written /\ Prefix(ordered')
  /\ durable \subseteq durable' /\ durable' \subseteq ordered' /\ Prefix(durable')
  /\ Barriers => durable' \subseteq kept
  /\ UNCHANGED <<written, kept, stopped>>

Stop == stopped' = TRUE /\ UNCHANGED <<written, kept, ordered, durable>>

Next == Write \/ Settle \/ Acknowledge \/ Stop

Spec == Init /\ [][Next]_vars
=============================================================================
