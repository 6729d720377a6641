--------------------------- MODULE MCDelayedReuse ---------------------------
(* Instances of DelayedReuse for TLC. *)
EXTENDS DelayedReuse
=============================================================================
