------------------------- MODULE MCRecurrenceJobs -------------------------
(* Instances of RecurrenceJobs for TLC. *)
EXTENDS RecurrenceJobs

CONSTANTS j1, j2, o1

\* Two analyses of one session: they report the same occurrence.
MCOccurrence == [j \in Jobs |-> o1]
MCMatches == {<<j1, 1>>, <<j1, 2>>, <<j2, 2>>}
=============================================================================
