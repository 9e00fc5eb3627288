-------------------------- MODULE MCAnalysisQueue --------------------------
(* Instances of AnalysisQueue for TLC. *)
EXTENDS AnalysisQueue

CONSTANTS s1, s2, e1, e2, e3, f1, p1, p2

MCEventSession == [e \in Events |-> IF e = e3 THEN s2 ELSE s1]
MCEventProject == [e \in Events |-> IF e = e2 THEN p2 ELSE p1]
MCFindingEvent == [f \in Findings |-> e1]

\* Local has recovered an empty store, the other process waits for work, and nobody
\* is stopped: instead there is more to import.
Waiting(w) == [Stopped EXCEPT !.pc = "drain", !.phase = IF w \in Runtimes THEN "steady" ELSE "start"]

RaceInit ==
    /\ events = {} /\ enriched = {} /\ findings = {}
    /\ scope = [s \in Sessions |-> NoScope]
    /\ dirty = [s \in Sessions |-> NoRow]
    /\ cooling = {} /\ older = {} /\ stale = {} /\ unmarked = {}
    /\ importer = [i \in Importers |-> IdleImporter]
    /\ worker = [w \in Workers |-> Waiting(w)]
    /\ budget = [append |-> 2, prune |-> 1, stop |-> 0, fault |-> 0, loss |-> 1]
    /\ epoch = [s \in Sessions |-> 0]
    /\ basis = [s \in Sessions |-> EmptyView]

RaceSpec == (Init \/ RaceInit) /\ [][Next]_vars
=============================================================================
