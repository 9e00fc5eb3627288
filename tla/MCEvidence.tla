------------------------------ MODULE MCEvidence ------------------------------
(***************************************************************************)
(* The guards of the store, and the modules that make something of the      *)
(* evidence in it, for TLC: the analysis queue under the fairness of Local,  *)
(* what an agent is asked about a project, what its packs say, and what the  *)
(* detectors find.  They share no state: a behaviour is one of the module,   *)
(* or the instance, that "scope" names.                                      *)
(***************************************************************************)
EXTENDS MutationGuards, Sequences

CONSTANTS s1, s2, e1, e2, e3, f1, p1, p2,
    NoScope, Conflict, Nothing,
    NoIssue, NoInsight, NoTarget, NoClass, NoRef, NoProposal, NoCall, Never

VARIABLES scope,
    events, placed, enriched, findings, dirty, cooling, older, worker, importer,
    budget, epoch, basis, stale, unmarked,
    transcripts, analyzed, analyzedAt, today, insight, run, runs, pack,
    found, stored, proposals, decisions, analyser, started, hour,
    turns, coverage, arrived, derived, evaluation, reading,
    transcript, imported, report

\* Two sessions, one of which can never be analysed, and one process of Local.
Queue == INSTANCE AnalysisQueue WITH
    scope <- placed,
    Sessions <- {s1, s2}, Events <- {e1, e2, e3}, Findings <- {f1}, Projects <- {p1, p2},
    Workers <- {"local"}, Runtimes <- {"local"}, Importers <- {"imp"},
    EventSession <- [e \in {e1, e2, e3} |-> IF e = e3 THEN s2 ELSE s1],
    EventProject <- [e \in {e1, e2, e3} |-> IF e = e2 THEN p2 ELSE p1],
    FindingEvent <- [f \in {f1} |-> e1],
    Signals <- {e1}, Poisoned <- {s2}, MaxSessionEvents <- 1,
    MaxAppends <- 2, MaxPrunes <- 0, MaxStops <- 1, MaxFaults <- 1, MaxLosses <- 0

\* What two imports and two analyses have, what the agent may answer and what is
\* asked of a pack.
NoneKnown == 0 - 1
Issue(id, usd, count, family, words, excerpts) ==
    [id |-> id, usd |-> usd, count |-> count, last |-> id, family |-> family, words |-> words,
     excerpts |-> excerpts, size |-> IF id = 1 THEN 2 ELSE 9, sources |-> 2]
Correction(id, at, session, kind, words) ==
    [id |-> id, at |-> at, session |-> session, turn |-> at, kind |-> kind, marked |-> FALSE,
     words |-> words]
Call(session, id, command) ==
    [role |-> "call", session |-> session, call |-> id, command |-> command,
     exit |-> NoneKnown, error |-> "unknown", at |-> id]
Result(session, id, at, exit, error) ==
    [role |-> "result", session |-> session, call |-> id, command |-> 0, exit |-> exit,
     error |-> error, at |-> at]
Event(session, fact, rank, at) == [session |-> session, fact |-> fact, rank |-> rank, at |-> at]
Fix(issue, confidence, target, text, words) ==
    [issue |-> issue, confidence |-> confidence, target |-> target, text |-> text,
     words |-> words, size |-> 1, valid |-> TRUE]
Cluster(corrections, confidence, target, text, words) ==
    [corrections |-> corrections, confidence |-> confidence, target |-> target, text |-> text,
     words |-> words, size |-> 2, valid |-> TRUE]

Ask(harness, issue, hint, intent, sizes) ==
    [issue |-> issue, intent |-> intent, harness |-> harness, hint |-> hint, branch |-> TRUE,
     cwd |-> <<"r", "s", "t">>,
     experiences |-> [n \in 1 .. Cardinality(sizes) |-> [id |-> n, size |-> CHOOSE z \in sizes : TRUE]]]

Older == [sessions |-> <<[key |-> "a", coverage |-> "live"]>>,
          turns |-> <<Result("a", 1, 2, 0, "unknown"), Call("a", 1, 11)>>,
          events |-> <<Event("a", 1, 0, 1), Event("a", 2, 2, 1)>>]
Newer == [sessions |-> <<[key |-> "b", coverage |-> "complete"], [key |-> "a", coverage |-> "complete"]>>,
          turns |-> <<Result("b", 5, 9, 1, "no"), Result("b", 5, 8, NoneKnown, "no"), Call("b", 5, 12),
                      Result("b", 4, 6, NoneKnown, "no"), Call("b", 4, 13),
                      Result("a", 1, 2, 0, "unknown"), Call("a", 1, 11)>>,
          events |-> <<Event("b", 1, 0, 5), Event("b", 2, 2, 5), Event("a", 1, 0, 1), Event("a", 2, 2, 1)>>]
NoAnalysis == [issues |-> {}, corrections |-> {}]
FirstAnalysis == [issues |-> {Issue(1, 5, 2, "loop", {"db"}, {<<"a", 2>>}), Issue(2, NoneKnown, 3, "loop", {"db"}, {})},
          corrections |-> {Correction(1, 1, "a", "plain", {"db"}), Correction(2, 2, "a", "thanks", {})}]
SecondAnalysis == [issues |-> {Issue(1, 7, 3, "loop", {"db"}, {<<"a", 2>>}), Issue(2, 6, 2, "thrash", {"ui"}, {})},
          corrections |-> {Correction(1, 1, "a", "plain", {"db"}), Correction(3, 3, "b", "plain", {"ui"}),
                           Correction(4, 4, "b", "envelope", {"db"})}]


\* Two agents on one project of three that contain the directory.
Evidence == INSTANCE ProjectInsight WITH
    now <- today, Unknown <- NoneKnown, TextBudget <- 11, ExperienceBudget <- 4, MaxExperiences <- 3,
    MaxCandidateIssues <- 2, MaxKnownTraps <- 3, MaxOperatingRules <- 3, MaxVerification <- 3,
    MaxContextFacts <- 5, HighConfidence <- 8, ReleaseCommands <- {13},
    Analysers <- {"x", "y"}, HarnessOf <- [a \in {"x", "y"} |-> IF a = "x" THEN "claude" ELSE "codex"],
    Imported <- <<Older, Newer>>, Analysed <- [g \in 0 .. 2 |->
        CASE g = 0 -> NoAnalysis [] g = 1 -> FirstAnalysis [] OTHER -> SecondAnalysis],
    Answers <- {[fixes |-> <<Fix(1, 9, "CLAUDE.md", 1, {"db"}), Fix(2, 8, "settings", 2, {"ui"})>>,
                 clusters |-> <<Cluster(<<1, 3>>, 9, "AGENTS.md", 3, {})>>],
                [fixes |-> <<Fix(1, 9, "rules", 1, {}), Fix(2, 7, "CLAUDE.md", 2, {}), Fix(2, 7, "CLAUDE.md", 4, {})>>,
                 clusters |-> <<Cluster(<<1, 3>>, 9, "AGENTS.md", 3, {"db"}), Cluster(<<3>>, 9, "AGENTS.md", 5, {})>>]},
    Requests <- {Ask("codex", NoIssue, {"db", "ui"}, "release", {}), Ask("claude", NoIssue, {"db"}, "general", {}),
                 Ask("claude", NoIssue, {"ui", "db"}, "general", {}),
                 Ask("codex", 1, {}, "general", {}), Ask("claude", 2, {}, "general", {}), Ask("none", NoIssue, {"db"}, "general", {}),
                 Ask("claude", NoIssue, {"db"}, "general", {3})},
    ProjectFiles <- {[command |-> 11, class |-> "test"], [command |-> 14, class |-> "lint"]},
    CommandClass <- [c \in 11 .. 14 |-> CASE c \in {11, 12} -> "test" [] c = 13 -> "build" [] OTHER -> "lint"],
    Rows <- <<[identity |-> "o", path |-> <<"r">>], [identity |-> "q", path |-> <<"r">>],
              [identity |-> "p", path |-> <<"r", "s">>]>>,
    Project <- "p", MaxPromptIssues <- 2, MaxPromptCorrections <- 3, PromptBudget <- 4,
    SessionLimit <- 2, TurnLimit <- 8, EventLimit <- 8, MaxToolFacts <- 1, MaxIssues <- 2, MaxRuns <- 2

\* A procedure in words of the user, a correction, and one of another project.
Ref(id, turn, role, text) ==
    [id |-> id, session |-> 1, turn |-> turn, role |-> role, text |-> text,
     mutation |-> text = {"edit"}, command |-> IF "check" \in text THEN "check" ELSE "none",
     labels |-> IF "rule" \in text THEN {"rule"} ELSE {}]
Evident(project, created, family, refs) ==
    [project |-> project, created |-> created, family |-> family, refs |-> refs,
     command |-> "check", valid |-> TRUE]
Evidences ==
    << Evident(1, 1, "procedure",
               {Ref(1, 1, "user", {"rule", "keep"}), Ref(2, 2, "call", {"edit"}),
                Ref(3, 3, "call", {"check"}), Ref(4, 4, "result", {"ok"}),
                Ref(5, 5, "assistant", {"path", "keep"}), Ref(6, 6, "user", {"thanks"})}),
       Evident(1, 2, "correction", {Ref(1, 1, "unknown", {"no"}), Ref(2, 2, "unknown", {})}),
       Evident(2, 1, "procedure", {Ref(1, 1, "call", {"edit"}), Ref(2, 2, "assistant", {"path"})}) >>

Decide(disposition, guidance, refs) ==
    [candidate |-> NoRef, disposition |-> disposition, guidance |-> guidance, guidanceRefs |-> refs,
     verifierRefs |-> refs, exceptions |-> {}, paths |-> {"src"}, models |-> {},
     harnesses |-> {"claude"}, session |-> NoRef, wellFormed |-> TRUE, allowed |-> TRUE]
Decided ==
    << {Decide("propose", "keep", {1}), Decide("propose", "keep", {5}), Decide("reject", "none", {})},
       {Decide("propose", "any", {1}), [Decide("propose", "any", {1}) EXCEPT !.session = 2]},
       {Decide("propose", "file", {2}), [Decide("propose", "edit", {1}) EXCEPT !.exceptions =
                                            {[text |-> "path", refs |-> {2}]}]} >>

Alone == INSTANCE SemanticProposals WITH
    evidence <- found,
    Candidates <- 1 .. 3, Early <- 1 .. 3, CandidateOf <- Evidences, Analysers <- {"x", "y"},
    HarnessOf <- [a \in {"x", "y"} |-> "claude"], Decisions <- Decided,
    ProjectLimit <- 2, QueryLimit <- 3, BatchLimit <- 1, ExcerptLimit <- 5,
    MaxRuns <- 2, MaxTime <- 1

Batches == INSTANCE SemanticProposals WITH
    evidence <- found,
    Candidates <- 1 .. 2, Early <- {1}, CandidateOf <- Evidences, Analysers <- {"x", "y"},
    HarnessOf <- [a \in {"x", "y"} |-> "claude"], Decisions <- Decided,
    ProjectLimit <- 2, QueryLimit <- 3, BatchLimit <- 2, ExcerptLimit <- 5,
    MaxRuns <- 2, MaxTime <- 0

\* What may be delivered, and a session of edits, checks, answers and a correction.
Delivered(kind, needs) ==
    [kind |-> kind, needs |-> needs, expired |-> FALSE, excludes |-> FALSE, harnesses |-> {"claude"},
     models |-> {}, paths |-> {}, conditions |-> <<>>, normalized |-> TRUE, command |-> "check",
     class |-> "test", classes |-> {"test"}, success |-> TRUE, files |-> {"a"}, error |-> "E",
     window |-> 2, markers |-> {}]
Spoken(role, call) ==
    [role |-> role, call |-> call, parent |-> NoCall, tool |-> "Bash", command |-> NoCall,
     class |-> NoClass, verifies |-> FALSE, edits |-> {}, marker |-> NoClass,
     exit |-> "unknown", error |-> NoClass]
Edit(path) == [Spoken("call", path) EXCEPT !.edits = {path}, !.tool = "Edit"]
Check(id) == [Spoken("call", id) EXCEPT !.command = "check", !.class = "test", !.verifies = TRUE]
Passed(id) == [Spoken("result", id) EXCEPT !.exit = "succeeded"]
Failed(id) == [Spoken("result", id) EXCEPT !.exit = "failed", !.error = "E"]
Corrects == [Spoken("user", NoCall) EXCEPT !.marker = "wrong"]

Judge == INSTANCE Verdict WITH
    events <- arrived,
    Experiences <-
        {Delivered("command", {"transcript"}),
         [Delivered("command", {}) EXCEPT !.success = FALSE, !.conditions =
            <<[kind |-> "tool", values |-> {"Edit"}], [kind |-> "path", values |-> {"a"}]>>],
         [Delivered("modified", {"transcript", "canonical"}) EXCEPT !.paths = {"a", "b"}],
         Delivered("not_modified", {"canonical", "outcomes"}),
         Delivered("after_edit", {"transcript"}), Delivered("no_repeat", {"transcript"}),
         [Delivered("no_correction", {"transcript"}) EXCEPT !.models = {"m"}, !.conditions =
            <<[kind |-> "class", values |-> {"test"}]>>]},
    Turns <- << {Edit("a"), Check("1")}, {Check("1"), Failed("1"), Edit("a")},
                {Passed("1"), Check("2"), Corrects}, {Failed("2"), Edit("/abs")} >>,
    Relative <- {"a", "b"}, Harness <- "claude", Model <- "m",
    ResultLimit <- 3, FactLimit <- 12, MaxEvents <- 1

\* Three sessions in two repositories and a temporary directory: retries, errors
\* that come again, edits undone, claims, approvals, corrections and a compaction.
Turn(role, at) ==
    [role |-> role, at |-> at, cwd |-> 1, command |-> NoCall, tool |-> NoClass, call |-> NoCall,
     outcome |-> "unknown", output |-> "none", error |-> NoClass, edits |-> {}, hash |-> 0,
     marker |-> NoClass, words |-> "none", answer |-> "none", claims |-> FALSE, short |-> TRUE,
     quotable |-> TRUE, tokens |-> 0, usd |-> Nothing]
Said(at, words, marker) == [Turn("user", at) EXCEPT !.words = words, !.marker = marker]
Replied(at, answer) == [Turn("user", at) EXCEPT !.answer = answer, !.cwd = 2]
Told(at, claims) ==
    [Turn("assistant", at) EXCEPT !.claims = claims, !.tokens = 2, !.usd = 1]
Ran(at, command) == [Turn("call", at) EXCEPT !.command = command, !.tool = "Bash"]
Edited(at, file, hash) ==
    [Turn("call", at) EXCEPT !.edits = {file}, !.hash = hash, !.tool = "Edit"]
Gave(at, outcome, error) ==
    [Turn("result", at) EXCEPT !.outcome = outcome, !.error = error, !.tokens = 1, !.tool = "Bash"]
Compacted(at) == Turn("compaction", at)
Fails(at, command, error) == <<Ran(at, command), Gave(at + 1, "failed", error)>>

Detect == INSTANCE Detectors WITH
    Sessions <- 1 .. 3,
    Script <-
        << << {<<Edited(1, "f", 1), Told(2, FALSE), Edited(3, "f", 2), Edited(4, "f", 1), Told(5, TRUE)>>},
              {<<Said(7, "undo", "undo")>> \o Fails(8, "test", "E"),
               <<Compacted(7), Ran(8, "test"), Gave(9, "succeeded", NoClass)>>} >>,
           << {Fails(1, "x", "E") \o Fails(3, "x", "E"),
               <<Ran(1, "x"), Replied(2, "approval"), Ran(3, "x"), Replied(4, "approval")>>},
              {<<Ran(5, "x"), Replied(6, "denial")>>, Fails(5, "x", "F") \o Fails(20, "x", "F")} >>,
           << {<<Said(1, "no", "no"), Told(2, FALSE), Said(3, "undo", "undo")>>},
              {Fails(4, "test", "E") \o <<Compacted(6)>>,
               <<[Edited(4, "g", 1) EXCEPT !.cwd = 3], Told(5, TRUE), Compacted(6)>>} >> >>,
    ProjectPath <- 1, RootOf <- [p \in 1 .. 3 |-> p], Transient <- {3}, LocalPath <- TRUE,
    ClassOf <- [c \in {"test", "x"} |-> IF c = "test" THEN "test" ELSE "other"],
    NoPath <- 0, NoCommand <- NoCall, NoTool <- NoClass, NoError <- NoClass,
    NoMarker <- NoClass, NoUSD <- Nothing,
    RetryAttempts <- 2, RetrySpan <- 3, ResultReach <- 3, CallReach <- 2, MinSessions <- 2,
    MinApprovals <- 2, MinStarts <- 1, StartPercent <- 15, MinEdits <- 3, MinExcerpts <- 2, MaxGap <- 5

-----------------------------------------------------------------------------
queueVars == <<events, placed, enriched, findings, dirty, cooling, older, worker, importer,
               budget, epoch, basis, stale, unmarked>>
insightVars == <<transcripts, analyzed, analyzedAt, today, insight, run, runs, pack>>
proposalVars == <<found, stored, proposals, decisions, analyser, started, hour>>
verdictVars == <<turns, coverage, arrived, derived, evaluation, reading>>
detectorVars == <<transcript, imported, report>>
vars == <<scope, queueVars, insightVars, proposalVars, verdictVars, detectorVars, guardVars>>

Scopes == {"queue", "insight", "alone", "batches", "verdict", "detect", "guards"}

NoStore == subject = "none" /\ version = Latest /\ row = NoRow /\ conn = [o \in Openers |-> Closed]

Init ==
    /\ scope \in Scopes
    /\ Queue!Init
    /\ Evidence!InsightInit
    /\ IF scope = "alone" THEN Alone!ProposalsInit ELSE Batches!ProposalsInit
    /\ Judge!VerdictInit
    /\ Detect!DetectorsInit
    /\ IF scope = "guards" THEN GuardInit ELSE NoStore

Next ==
    /\ UNCHANGED scope
    /\ \/ /\ scope = "queue" /\ Queue!Next
          /\ UNCHANGED <<insightVars, proposalVars, verdictVars, detectorVars, guardVars>>
       \/ /\ scope = "insight" /\ Evidence!InsightNext
          /\ UNCHANGED <<queueVars, proposalVars, verdictVars, detectorVars, guardVars>>
       \/ /\ \/ scope = "alone" /\ Alone!ProposalsNext
             \/ scope = "batches" /\ Batches!ProposalsNext
          /\ UNCHANGED <<queueVars, insightVars, verdictVars, detectorVars, guardVars>>
       \/ /\ scope = "verdict" /\ Judge!VerdictNext
          /\ UNCHANGED <<queueVars, insightVars, proposalVars, detectorVars, guardVars>>
       \/ /\ scope = "detect" /\ Detect!DetectorsNext
          /\ UNCHANGED <<queueVars, insightVars, proposalVars, verdictVars, guardVars>>
       \/ /\ scope = "guards" /\ GuardNext
          /\ UNCHANGED <<queueVars, insightVars, proposalVars, verdictVars, detectorVars>>

(* The fairness of AnalysisQueue, for the behaviours of its scope.           *)
Spec ==
    /\ Init /\ [][Next]_vars
    /\ WF_queueVars(scope = "queue" /\ Queue!Start("local"))
    /\ SF_queueVars(scope = "queue" /\ Queue!Startup("local"))
    /\ WF_queueVars(scope = "queue" /\ \E s \in {s1, s2} : Queue!StartupMark("local", s))
    /\ WF_queueVars(scope = "queue" /\ Queue!StartupDone("local"))
    /\ WF_queueVars(scope = "queue" /\ Queue!Recovered("local"))
    /\ WF_queueVars(scope = "queue" /\ \E s \in {s1, s2} : Queue!Claim("local", s))
    /\ WF_queueVars(scope = "queue" /\ Queue!Read("local"))
    /\ WF_queueVars(scope = "queue" /\ Queue!Finish("local"))
    /\ \A s \in {s1, s2} : WF_queueVars(scope = "queue" /\ Queue!RetryDue(s))
    /\ WF_queueVars(scope = "queue" /\ (\/ Queue!UpsertSessionScope("imp")
                                       \/ Queue!UpsertEventEnrichment("imp")
                                       \/ Queue!MarkFindingSession("imp")))

-----------------------------------------------------------------------------
(* AnalysisQueue: what can be analysed is analysed in the end, as it is.     *)
EventuallyConverged == scope = "queue" => Queue!EventuallyConverged

(* ProjectInsight: what a pack says rests on the evidence it is made from.   *)
PacksHold == Evidence!PacksHold

(* SemanticProposals: what is stored is whole and grounded, and a run that     *)
(* reports success has decided everything.                                   *)
ProposalsSound == Alone!ProposalsSound

(* Verdict: a verdict is true of the turns it was drawn from.                *)
VerdictsHold == Judge!VerdictsHold

(* Detectors: an issue stays until it is refuted, and costs add up.          *)
ReportHolds == Detect!ReportHolds

(* ProjectInsight: an insight keeps to what was shown and is made anew.      *)
InsightSound == Evidence!InsightSound
=============================================================================
