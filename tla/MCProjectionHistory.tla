------------------------ MODULE MCProjectionHistory ------------------------
(* Instances of ProjectionHistory and of MonitoringView for TLC: part chooses one. *)
EXTENDS ProjectionHistory, Sequences

CONSTANTS s1, e1, e2, f1, p1, p2

MCEventSession == [e \in Events |-> s1]
MCEventProject == [e \in Events |-> IF e = e2 THEN p2 ELSE p1]
MCFindingEvent == [f \in Findings |-> e1]

\* The same system, in which an analysis may fail and nothing is pruned.
Failing == INSTANCE ProjectionHistory WITH MaxPrunes <- 0, MaxFaults <- 1

\* A prune or an analysis that fails, not both.
OneMishapInit == (Init \/ Failing!Init) /\ HistoryInit

-----------------------------------------------------------------------------
VARIABLES part, store, reader

Both == [s \in {1, 2} |-> p1]
Alone == [s \in {1, 2} |-> IF s = 1 THEN p1 ELSE NoScope]

\* An attempt recorded before the first event, and one of before the baselines.
Recorded == <<[issue |-> 1, from |-> 1, scope |-> p1, snapshot |-> 0, anchor |-> 1,
               cites |-> {0}]>>
Earlier == <<[Recorded[1] EXCEPT !.from = 0]>>
Legacy == <<[Recorded[1] EXCEPT !.scope = NoScope]>>

Filter(rank, retracted) == [rank |-> rank, retracted |-> retracted]
All == Filter(0, FALSE)

MCStart(placed, attempts, most, reports, may, filters) ==
    [scope |-> placed, attempts |-> attempts, most |-> most, reports |-> reports,
     may |-> may, filters |-> filters]

MCStarts ==
    {MCStart(Both, <<>>, 2, {1, 2}, {}, {All}),
     MCStart(Both, <<>>, 2, {1}, {"retracted"}, {Filter(0, TRUE)}),
     MCStart(Both, Earlier, 1, {1}, {"pruned"}, {All}),
     MCStart(Both, Earlier, 1, {1}, {"retracted"}, {All}),
     MCStart(Both, Recorded, 1, {0, 1}, {"failed"}, {Filter(2, FALSE)}),
     MCStart(Both, Recorded, 1, {1}, {"truncated"}, {Filter(2, FALSE)}),
     MCStart(Alone, Recorded, 1, {0, 1}, {"placed"}, {}),
     MCStart(Alone, Legacy, 2, {1}, {}, {Filter(3, FALSE)})}

View == INSTANCE MonitoringView
    WITH Sessions <- {1, 2}, Issues <- {1, 2}, Severity <- <<3, 3>>, Supported <- {1},
         Projects <- {p1, p2}, Starts <- MCStarts, Limit <- 1, Lifetime <- 1,
         MaxTime <- 2, MaxEvents <- 2

MCInit ==
    \/ part = "history" /\ OneMishapInit /\ store = <<>> /\ reader = <<>>
    \/ part = "view" /\ View!ViewInit /\ Init /\ HistoryInit

MCNext ==
    \/ part = "history" /\ HistoryNext /\ UNCHANGED <<part, store, reader>>
    \/ part = "view" /\ View!ViewNext /\ UNCHANGED <<part, allVars>>

MCSpec == MCInit /\ [][MCNext]_<<part, allVars, store, reader>>

\* The histories alone.
PlainInit == part = "history" /\ Init /\ HistoryInit /\ store = <<>> /\ reader = <<>>
PlainSpec == PlainInit /\ [][MCNext]_<<part, allVars, store, reader>>

MonitoringHolds == part = "view" => View!MonitoringHolds
=============================================================================
