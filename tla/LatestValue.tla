---------------------------- MODULE LatestValue -----------------------------
(***************************************************************************)
(* What a coalescing crossing promises: the reader sees the values in the  *)
(* order they were written, perhaps not all of them, and what was written  *)
(* last gets through.  Values are numbered.                                *)
(***************************************************************************)
EXTENDS Integers

VARIABLES
    written,    \* the last value written
    arrived     \* the last value the reader has

Init == written = 0 /\ arrived = 0

Next ==
    /\ written' \in {written, written + 1}
    /\ arrived' \in arrived .. written

Spec == Init /\ [][Next]_<<written, arrived>>

\* The reader catches up, or it goes on getting newer values.
Progress == []<>(arrived = written) \/ []<><<arrived' > arrived>>_arrived
=============================================================================
