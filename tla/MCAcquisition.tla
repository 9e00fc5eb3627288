---------------------------- MODULE MCAcquisition ----------------------------
(***************************************************************************)
(* The modules that bring data in, for TLC.  They share no state: a         *)
(* behaviour is one of the module, or the instance, that "scope" names.     *)
(***************************************************************************)
EXTENDS IntelligenceLease, IssueAnalysis, LiveTail

VARIABLES scope,
    file1, saved1, importer1, faults1, session1, turns1, project1, analysis1,
    file2, saved2, importer2, faults2, session2, turns2, project2, analysis2,
    session3, arrived, turns3, recorded, config, edges, outcomes, derived, deriver,
    candidates, compiler, conflicted

\* The lines of the spool: one a record may have, one that is too large.
TailSizes == <<2, 3>>

NoProject == "no project"
R(kind, id) == [kind |-> kind, id |-> id, project |-> NoProject]
In(project_, turn) == [kind |-> "context", id |-> turn, project |-> project_]

\* One file, replaced once, that the poll and a scan read at the same time.
Shared == INSTANCE TranscriptImport WITH
    Groups <- {"g1"}, Projects <- {"p1", "p2"}, MaxGeneration <- 1,
    Sources <- {1}, GroupOf <- <<"g1">>, Present <- <<4>>,
    Script <- << << <<In("p1", "t"), R("event", "m"), R("count", 0), R("output", "c"),
                      R("response", "m")>>,
                    <<In("p2", "t")>> >> >>,
    Importers <- {"poll", "scan"},
    OwnerOf <- [i \in {"poll", "scan"} |-> IF i = "poll" THEN "tail" ELSE "backfill"],
    ChunkBytes <- [o \in {"tail", "backfill"} |-> IF o = "tail" THEN 1 ELSE 4],
    MaxFaults <- 1,
    file <- file1, saved <- saved1, importer <- importer1, faults <- faults1,
    session <- session1, turns <- turns1, project <- project1, analysis <- analysis1

\* A session of two files and another session, for the poll alone.
Many == INSTANCE TranscriptImport WITH
    Groups <- {"g1", "g2"}, Projects <- {"p1"}, MaxGeneration <- 1,
    Sources <- {1, 2, 3}, GroupOf <- <<"g1", "g1", "g2">>, Present <- <<1, 2, 3>>,
    Script <- << << <<In("p1", "t"), R("usage", "t")>> >>,
                 << <<In("p1", "u"), R("count", 0)>> >>,
                 << <<In("p1", "v"), R("output", "c"), R("completed", "c")>> >> >>,
    Importers <- {"poll"}, OwnerOf <- [i \in {"poll"} |-> "tail"],
    ChunkBytes <- [o \in {"tail", "backfill"} |-> 1], MaxFaults <- 1,
    file <- file2, saved <- saved2, importer <- importer2, faults <- faults2,
    session <- session2, turns <- turns2, project <- project2, analysis <- analysis2

T(role, id, says) ==
    [role |-> role, id |-> id, says |-> says, edits |-> {}, runs |-> "no command",
     status |-> "unknown", parent |-> "no call"]
User(says) == T("user", "no call", says)
Agent(says) == T("assistant", "no call", says)
Edit(id) == [T("call", id, "nothing") EXCEPT !.edits = {"f"}]
Run(id, command) == [T("call", id, "nothing") EXCEPT !.runs = command]
Done(id, status) == [T("result", id, "nothing") EXCEPT !.status = status]

LintIs(kind) == [c \in {"no command", "test", "lint"} |->
                  CASE c = "lint" -> kind [] c = "test" -> c [] OTHER -> "no class"]

\* A procedure that goes on, and then the id of its first check comes again.
Continued ==
    [batches |-> << <<User("plain"), Edit("a"), Done("a", "unknown"), Run("b", "test"),
                      Done("b", "passed")>>,
                    <<Agent("claim"), User("again"), Edit("c"), Run("d", "lint"), Done("d", "passed")>>,
                    <<User("correction"), Run("b", "lint"), Agent("plain")>> >>,
     events |-> {}, configs |-> <<LintIs("lint")>>]

\* A repair that the late answer to a call between its two calls refutes.
Repaired ==
    [batches |-> << <<User("plain"), Edit("a"), Run("b", "lint"), Done("b", "failed"),
                      Run("d", "lint")>>,
                    <<Run("c", "test"), Done("c", "passed")>>,
                    <<Done("d", "failed"), User("correction")>> >>,
     events |-> {}, configs |-> <<LintIs("lint")>>]

\* A check that is answered after the one that comes after it.
Overtaken ==
    [batches |-> << <<Edit("a"), Run("b", "lint"), Done("b", "passed"), User("again")>>,
                    <<Edit("c"), Run("d", "lint"), Edit("e"), Run("g", "test"), Done("g", "passed")>>,
                    <<Done("d", "passed"), Done("b", "failed")>> >>,
     events |-> {}, configs |-> <<LintIs("lint")>>]

\* A project that changes the kind of its check, and an edit known by its event.
Reconfigured ==
    [batches |-> << <<User("plain"), Edit("a"), Run("b", "lint"), Done("b", "passed"),
                      Agent("claim")>> >>,
     events |-> {<<"event", "a", "write">>}, configs |-> <<LintIs("lint"), LintIs("build")>>]

Learning == INSTANCE ProcedureCandidates WITH
    Sessions <- {Continued, Repaired, Overtaken, Reconfigured},
    Family <- [c \in {"no command", "test", "lint"} |-> IF c = "no command" THEN "no class" ELSE "make"],
    ProjectFiles <- {"f"}, NoClass <- "no class", NoCall <- "no call",
    VerificationWindow <- 4, RepairWindow <- 3, Continuation <- 6, MaxRecords <- 100,
    Cuts <- {4, 9}, session <- session3, turns <- turns3

\* What the modules ask of their constants.
ASSUME LeaseAssumption /\ TailAssumption
ASSUME Shared!ImportAssumption /\ Many!ImportAssumption
ASSUME Learning!TrajectoryAssumption /\ Learning!CandidatesAssumption

sharedVars == <<file1, saved1, importer1, faults1, session1, turns1, project1, analysis1>>
manyVars == <<file2, saved2, importer2, faults2, session2, turns2, project2, analysis2>>
learningVars == <<session3, arrived, turns3, recorded, config, edges, outcomes, derived, deriver,
                  candidates, compiler, conflicted>>

Init ==
    /\ scope \in {"tail", "shared", "many", "analysis", "lease", "learning"}
    /\ TailInit /\ AnalysisInit /\ LeaseInit
    /\ Shared!ImportInit /\ Shared!StoreInit /\ Many!ImportInit /\ Many!StoreInit
    /\ Learning!LearningInit /\ (scope # "learning" => session3 = Continued)

Next ==
    /\ UNCHANGED scope
    /\ \/ /\ scope = "tail" /\ TailNext
          /\ UNCHANGED <<sharedVars, manyVars, analysisVars, leaseVars, learningVars>>
       \/ /\ scope = "shared" /\ Shared!ImportNext
          /\ UNCHANGED <<tailVars, manyVars, analysisVars, leaseVars, learningVars>>
       \/ /\ scope = "many" /\ Many!ImportNext
          /\ UNCHANGED <<tailVars, sharedVars, analysisVars, leaseVars, learningVars>>
       \/ /\ scope = "analysis" /\ AnalysisNext
          /\ UNCHANGED <<tailVars, sharedVars, manyVars, leaseVars, learningVars>>
       \/ /\ scope = "lease" /\ LeaseNext
          /\ UNCHANGED <<tailVars, sharedVars, manyVars, analysisVars, learningVars>>
       \/ /\ scope = "learning" /\ Learning!LearningNext
          /\ UNCHANGED <<tailVars, sharedVars, manyVars, analysisVars, leaseVars>>

vars == <<scope, tailVars, sharedVars, manyVars, analysisVars, leaseVars, learningVars>>

(* The fairness of each module, for the behaviours of its own scope. *)
Spec ==
    /\ Init /\ [][Next]_vars
    /\ \A t \in Tailers : WF_tailVars(scope = "tail" /\ Poll(t))
    /\ WF_manyVars(scope = "many" /\ Many!ImportStep("poll"))
    /\ \A s \in 1 .. 3 : WF_manyVars(scope = "many" /\ Many!GoesIdle(s))
    /\ \A a \in Analyzers : WF_analysisVars(scope = "analysis" /\ AnalysisStep(a))
    /\ \A p \in Processes : WF_leaseVars(scope = "lease" /\ LeaseStep(p))
    /\ WF_leaseVars(scope = "lease" /\ InspectReleases)

(* Only the poll of several sessions. *)
ManySpec ==
    /\ Init /\ scope = "many" /\ [][Next]_vars
    /\ WF_manyVars(Many!ImportStep("poll"))
    /\ \A s \in 1 .. 3 : WF_manyVars(Many!GoesIdle(s))

-----------------------------------------------------------------------------
(* TranscriptImport: what a saved cursor of a transcript has passed has been  *)
(* imported, and a group that counts as complete has all its turns.           *)
CursorsBehindStore ==
    /\ Shared!CursorBehindStore /\ Many!CursorBehindStore
    /\ Shared!CompleteMeansImported /\ Many!CompleteMeansImported

(* LiveTail, TranscriptImport: every complete line of the spool is imported in   *)
(* the end, and the poll finishes every group it has taken over.               *)
AllImported == EveryLineImported /\ Many!TailedIsCompleted

(* TranscriptImport: the poll rotates, whatever is in the other sessions.     *)
EveryGroupTakesItsTurn == Many!EveryGroupTakesItsTurn

(* IntelligenceLease: the work is taken up again after every trouble.         *)
WorkTakenUp == scope = "lease" => WorkResumes

(* Trajectory, ProcedureCandidates: a session that counts as derived has what   *)
(* follows from it, and compiling again never disagrees with what is stored.   *)
LearningSound == Learning!DerivationAgrees /\ Learning!RecompilationAgrees

(* ProcedureCandidates: the checks of one procedure stay together.            *)
EpisodesGrow == Learning!EpisodesGrow
=============================================================================
