---------------------------- MODULE ProjectInsight ----------------------------
(***************************************************************************)
(* The insight of a project and the packs made with it.  "belay analyze"     *)
(* (internal/localapp/semantic_analysis.go) loads the issues and then the    *)
(* corrections of the last transcript analysis, lets an agent write rules    *)
(* for them, which takes minutes, and replaces the project's insight.        *)
(* Meanwhile transcripts arrive, a poll publishes new analyses, and packs     *)
(* are made from what the store holds                                         *)
(* (internal/storage/local/mission_pack_repository.go).                       *)
(***************************************************************************)
EXTENDS PackBuild

CONSTANTS
    Analysers,        \* processes that run "belay analyze"
    HarnessOf,        \* the agent each of them uses
    Imported,         \* the transcripts at each generation: sessions, tool turns and
                      \* events, the newest first
    Analysed,         \* the issues and corrections an analysis of them finds
    Answers,          \* what an agent may answer
    Requests,         \* requests for a pack
    ProjectFiles,     \* verification commands of the project's files
    CommandClass,     \* ClassifyVerificationCommand
    Rows,             \* identities and paths of the sessions of all projects, newest first
    Project,
    MaxPromptIssues, MaxPromptCorrections, PromptBudget,
    SessionLimit, TurnLimit, EventLimit, MaxToolFacts, MaxIssues,
    MaxRuns           \* bound on the runs of "belay analyze"

VARIABLES
    transcripts, analyzed,  \* generations, in transcript_project_analysis_state
    analyzedAt,             \* when the last analysis was published, or 0
    now,
    insight,                \* the row of the project in insights, or NoInsight
    run,                    \* what each analyser is doing
    runs,
    pack                    \* the last pack, with its request and its evidence

insightVars == <<transcripts, analyzed, analyzedAt, now, insight, run, runs, pack>>

Idle == [at |-> "idle"]
NoPack == [project |-> "none"]

InsightInit ==
    /\ transcripts = 1 /\ analyzed = 0 /\ analyzedAt = 0 /\ now = 0
    /\ insight = NoInsight /\ run = [a \in Analysers |-> Idle] /\ runs = 0
    /\ pack = NoPack

-----------------------------------------------------------------------------
(* boundedSemanticInput: what an agent is shown.                             *)

PromptIssues(issues) ==
    First(FirstPer(RankedIssues(issues), LAMBDA i : i.id), MaxPromptIssues)

(* Corrections that an issue cites first, then the newest; notes of the       *)
(* machine are left out, and thanks that no marker makes a correction.       *)
PromptCorrections(corrections, issues) ==
    LET cited == UNION {i.excerpts : i \in ToSet(issues)}
        shown == {c \in corrections :
                    /\ c.kind # "envelope"
                    /\ c.kind = "thanks" => c.marked}
    IN  First(Ranked(shown, LAMBDA c : <<IF <<c.session, c.turn>> \in cited THEN 1 ELSE 0,
                                         c.at, -c.id>>),
              MaxPromptCorrections)

(* prepareSemanticPrompt: as long as it is too long, the last correction is   *)
(* dropped, then the last issue.  What issues cost is not part of it.         *)
Prompt(harness, issues, corrections) ==
    LET some == First(PromptIssues(issues), PromptBudget)
        ranked == PromptCorrections(corrections, PromptIssues(issues))
        others == First(ranked, PromptBudget - Len(some))
    IN  [harness |-> harness,
         issues |-> [n \in DOMAIN some |->
            [id |-> some[n].id, words |-> some[n].words, excerpts |-> some[n].excerpts]],
         corrections |-> [n \in DOMAIN others |->
            [id |-> others[n].id, words |-> others[n].words,
             session |-> others[n].session, turn |-> others[n].turn]]]

Shown(items) == {items[n].id : n \in DOMAIN items}

(* sanitizeSemanticResult: fixes of one issue each that was shown, clusters   *)
(* of corrections that were shown and are in no other usable cluster.        *)
\* Mutant: an issue may have two fixes.
SanitizedFixesAll(prompt, answer) ==
    SelectSeq(answer.fixes, LAMBDA f : f.issue \in Shown(prompt.issues) /\ f.valid)

SanitizedFixes(prompt, answer) ==
    SelectSeq(answer.fixes, LAMBDA f :
        /\ f.issue \in Shown(prompt.issues)
        /\ Cardinality({n \in DOMAIN answer.fixes : answer.fixes[n].issue = f.issue}) = 1
        /\ f.valid)

SanitizedClusters(prompt, answer) ==
    LET usable == SelectSeq(answer.clusters, LAMBDA c :
            /\ c.corrections # <<>> /\ c.valid
            /\ ToSet(c.corrections) \subseteq Shown(prompt.corrections)
            /\ IsInjective(c.corrections))
    IN  SelectSeq(usable, LAMBDA c :
            \A k \in ToSet(c.corrections) :
                Cardinality({n \in DOMAIN usable : k \in ToSet(usable[n].corrections)}) = 1)

-----------------------------------------------------------------------------
TranscriptsArrive ==
    /\ transcripts + 1 \in DOMAIN Imported
    /\ transcripts' = transcripts + 1
    /\ UNCHANGED <<analyzed, analyzedAt, now, insight, run, runs, pack>>

(* ReplaceProjectIssueAnalysis, by a poll or at the beginning of a run.       *)
PublishAnalysis ==
    /\ analyzed < transcripts
    /\ analyzed' = transcripts /\ now' = now + 1 /\ analyzedAt' = now + 1
    /\ UNCHANGED <<transcripts, insight, run, runs, pack>>

(* LoadSemanticInput: the issues, by a query of their own ...                *)
LoadIssues(a) ==
    /\ run[a] = Idle /\ runs < MaxRuns /\ analyzed > 0
    /\ runs' = runs + 1
    /\ run' = [run EXCEPT ![a] = [at |-> "issues", issues |-> Analysed[analyzed].issues,
                                  from |-> analyzed]]
    /\ UNCHANGED <<transcripts, analyzed, analyzedAt, now, insight, pack>>

(* ... and the corrections by another.                                       *)
LoadCorrections(a) ==
    /\ run[a].at = "issues"
    /\ run' = [run EXCEPT ![a] =
                [at |-> "input", from |-> @.from,
                 prompt |-> Prompt(HarnessOf[a], @.issues, Analysed[analyzed].corrections)]]
    /\ UNCHANGED <<transcripts, analyzed, analyzedAt, now, insight, runs, pack>>

(* A project whose prompt is that of its insight is skipped.                  *)
CompareInput(a) ==
    /\ run[a].at = "input"
    /\ run' = [run EXCEPT ![a] =
                IF insight # NoInsight /\ insight.prompt = @.prompt
                THEN Idle ELSE [@ EXCEPT !.at = "harness"]]
    /\ UNCHANGED <<transcripts, analyzed, analyzedAt, now, insight, runs, pack>>

(* The agent answers.  The insight is dated after its answer.                 *)
HarnessAnswers(a) ==
    /\ run[a].at = "harness"
    /\ \E answer \in Answers :
          run' = [run EXCEPT ![a] =
                    [at |-> "answered", from |-> @.from, prompt |-> @.prompt,
                     generatedAt |-> now + 1,
                     fixes |-> SanitizedFixes(@.prompt, answer),
                     clusters |-> SanitizedClusters(@.prompt, answer)]]
    /\ now' = now + 1
    /\ UNCHANGED <<transcripts, analyzed, analyzedAt, insight, runs, pack>>

(* ReplaceProjectInsight: the row is replaced, whatever it was made from.     *)
StoreInsight(a) ==
    /\ run[a].at = "answered"
    /\ insight' = [prompt |-> run[a].prompt, from |-> run[a].from,
                   generatedAt |-> run[a].generatedAt,
                   fixes |-> run[a].fixes, clusters |-> run[a].clusters]
    /\ run' = [run EXCEPT ![a] = Idle]
    /\ UNCHANGED <<transcripts, analyzed, analyzedAt, now, runs, pack>>

(* A query or the agent fails.                                                *)
RunFails(a) ==
    /\ run[a].at \in {"issues", "harness", "answered"}
    /\ run' = [run EXCEPT ![a] = Idle]
    /\ UNCHANGED <<transcripts, analyzed, analyzedAt, now, insight, runs, pack>>

-----------------------------------------------------------------------------
(* ReadMissionPackEvidence: what one snapshot of the store says.              *)

Sessions == First(Imported[transcripts].sessions, SessionLimit)

OfSessions(records, limit) ==
    First(SelectSeq(records, LAMBDA r : \E n \in DOMAIN Sessions : Sessions[n].key = r.session), limit)

(* readMissionPackSourceState: coverage is of all sessions of the project.    *)
Coverage ==
    LET all == {s.coverage : s \in ToSet(Imported[transcripts].sessions)}
    IN  CASE "partial" \in all -> "partial"
          [] "partial" \notin all /\ "live" \in all -> "live"
          [] all = {"complete"} -> "complete"
          [] OTHER -> "unknown"

(* readMissionPackIssues: the first ones, and the one that is asked for.      *)
Issues(request) ==
    ToSet(First(RankedIssues(Analysed[analyzed].issues), MaxIssues))
        \cup {i \in Analysed[analyzed].issues : i.id = request.issue}

(* readMissionPackCandidates: the corrections of the clusters that exist.     *)
Corrections ==
    LET named == UNION {ToSet(c.corrections) : c \in ToSet(insight.clusters)}
        kept == {c \in Analysed[analyzed].corrections : c.id \in named}
    IN  [id \in {c.id : c \in kept} |-> CHOOSE c \in kept : c.id = id]

(* A result with an exit code says more than one that is an error or not.     *)
ResultEvidenceRank(result) ==
    IF result.exit # Unknown THEN 2 ELSE IF result.error # "unknown" THEN 1 ELSE 0

CommandSucceeded(result) ==
    /\ result.error # "yes"
    /\ IF result.exit # Unknown THEN result.exit = 0 ELSE result.error = "no"

(* successfulMissionPackCommands: the last call of each id, by the best of    *)
(* the results of that id, the last of the best ones.                        *)
SuccessfulCommands(turns) ==
    LET results(id) == {n \in DOMAIN turns : turns[n].role = "result" /\ turns[n].call = id}
        outcome(id) ==
            turns[CHOOSE n \in results(id) : \A m \in results(id) \ {n} :
                    LET rank == ResultEvidenceRank(turns[n])
                        other == ResultEvidenceRank(turns[m])
                    IN  rank > other \/ (rank = other /\ n < m)]
        calls == FirstPer(SelectSeq(turns, LAMBDA t : t.role = "call" /\ t.command # 0),
                          LAMBDA t : t.call)
    IN  {[command |-> c.command, call |-> c.call, at |-> outcome(c.call).at] :
            c \in {c \in ToSet(calls) : results(c.call) # {} /\ CommandSucceeded(outcome(c.call))}}

(* observedMissionPackCommands: those that verify something, counted.         *)
ObservedCommands ==
    LET done == {s \in SuccessfulCommands(OfSessions(Imported[transcripts].turns, TurnLimit)) :
                    CommandClass[s.command] # NoClass}
        of(c) == {s \in done : s.command = c}
    IN  {[command |-> c, class |-> CommandClass[c], count |-> Cardinality(of(c)),
          last |-> Max({s.at : s \in of(c)})] : c \in {s.command : s \in done}}

(* readMissionPackFacts: what two sessions have, files and special tools      *)
(* first, and not more than a few that are no files.                         *)
Facts ==
    LET events == OfSessions(Imported[transcripts].events, EventLimit)
        of(f) == {e \in ToSet(events) : e.fact = f}
        shared == {[id |-> f, rank |-> (CHOOSE e \in of(f) : TRUE).rank,
                    count |-> Cardinality({e.session : e \in of(f)}),
                    last |-> Max({e.at : e \in of(f)})] :
                      f \in {f \in {e.fact : e \in ToSet(events)} :
                                Cardinality({e.session : e \in of(f)}) >= 2}}
        ranked == Ranked(shared, LAMBDA f : <<-f.rank, f.count, f.last, -f.id>>)
        tools(n) == {m \in 1 .. n : ranked[m].rank # 0}
        kept == {n \in DOMAIN ranked : ranked[n].rank = 0 \/ Cardinality(tools(n)) <= MaxToolFacts}
    IN  {ranked[n] : n \in {n \in kept : Cardinality({m \in kept : m < n}) < MaxContextFacts}}

InsightStale == insight # NoInsight /\ insight.generatedAt < analyzedAt

Evidence(request) ==
    [transcripts |-> transcripts, analyzed |-> analyzed, coverage |-> Coverage,
     issues |-> Issues(request), insight |-> insight, insightStale |-> InsightStale,
     corrections |-> IF insight = NoInsight THEN <<>> ELSE Corrections,
     commands |-> ObservedCommands, files |-> ProjectFiles, facts |-> Facts,
     experiences |-> request.experiences]

(* resolveMissionPackPathProject: of the projects that contain a directory    *)
(* the one with the longest path.  They are compared in an order that a map   *)
(* of Go chooses, and two that are as long as the longest so far end it.      *)
ResolvePathProject(cwd, order) ==
    LET inside == SelectSeq(Rows, LAMBDA r : IsPrefix(r.path, cwd))
        known == FirstPer(inside, LAMBDA r : r.identity)
        depth(n) == Len(known[order[n]].path)
        clash == {n \in DOMAIN known : \E m \in 1 .. n - 1 :
                    /\ depth(m) = depth(n) /\ \A k \in 1 .. n - 1 : depth(k) <= depth(n)}
    IN  IF known = <<>> THEN "not found"
        ELSE IF clash # {} THEN "ambiguous"
        ELSE known[CHOOSE n \in DOMAIN known :
                    \A m \in DOMAIN known : Len(known[m].path) <= Len(known[n].path)].identity

Orders(cwd) ==
    LET n == Cardinality({r.identity : r \in {r \in ToSet(Rows) : IsPrefix(r.path, cwd)}})
    IN  {f \in [1 .. n -> 1 .. n] : IsInjective(f)}

(* MissionPackService.Generate.  The issue that is asked for must exist.      *)
GeneratePack(request) ==
    /\ request.issue # NoIssue => \E i \in Analysed[analyzed].issues : i.id = request.issue
    /\ \E order \in Orders(request.cwd) : ResolvePathProject(request.cwd, order) = Project
    /\ pack' = [project |-> Project, request |-> request, content |-> Build(Evidence(request), request)]
    /\ UNCHANGED <<transcripts, analyzed, analyzedAt, now, insight, run, runs>>

AnalyserStep(a) ==
    \/ LoadIssues(a) \/ LoadCorrections(a) \/ CompareInput(a)
    \/ HarnessAnswers(a) \/ StoreInsight(a) \/ RunFails(a)

(* A pack changes nothing that is modelled here: a behaviour is followed up   *)
(* to its first one.                                                         *)
InsightNext ==
    /\ pack = NoPack
    /\ \/ TranscriptsArrive \/ PublishAnalysis
       \/ \E a \in Analysers : AnalyserStep(a)
       \/ \E r \in Requests : GeneratePack(r)

-----------------------------------------------------------------------------
(* A rule of a pack rests on what the store holds when the pack is made: its  *)
(* issue is the one asked for or a trap of the pack, or two corrections of    *)
(* two sessions; the insight is not dated before the analysis.               *)
RuleGrounded(rule, content) ==
    /\ insight.generatedAt >= analyzedAt
    /\ IF rule.issue # NoIssue
       THEN \E n \in DOMAIN content.traps : content.traps[n].issue = rule.issue
       ELSE \E c, d \in Analysed[analyzed].corrections :
                {c.id, d.id} \subseteq rule.corrections /\ c.session # d.session

(* A command is in the project's files, or a call of it was answered, and not *)
(* with an error.                                                            *)
CommandGrounded(command) ==
    \/ \E f \in ProjectFiles : f.command = command
    \/ \E t, r \in ToSet(Imported[transcripts].turns) :
          /\ t.role = "call" /\ t.command = command
          /\ r.role = "result" /\ r.call = t.call /\ r.exit \in {0, Unknown} /\ r.error # "yes"

(* A pack fits its budget or says that it was cut, keeps the issue that was   *)
(* asked for, has only rules and commands with grounds, is of the project     *)
(* that the directory is deepest in, and calls itself ready only if nothing   *)
(* was left out and everything imported is complete and analysed              *)
(* (missionpack.Build, MissionPackService.Generate).                          *)
PacksHold ==
    [][pack' # pack =>
        LET content == pack'.content  request == pack'.request
        IN  /\ \A r \in ToSet(Rows) : IsPrefix(r.path, request.cwd) =>
                  \E p \in ToSet(Rows) : p.identity = Project /\ IsPrefix(r.path, p.path)
            /\ content # Refused =>
                /\ TextSize(content) <= TextBudget \/ (content.cut /\ content.truncated)
                /\ request.issue # NoIssue => content.traps[1].issue = request.issue
                /\ \A n \in DOMAIN content.rules : RuleGrounded(content.rules[n], content)
                /\ \A n \in DOMAIN content.verification :
                      CommandGrounded(content.verification[n].command)
                /\ content.status = "ready" /\ content.experiences = <<>> =>
                      /\ analyzed = transcripts /\ ~content.truncated
                      /\ \A s \in ToSet(Imported[transcripts].sessions) : s.coverage = "complete"
                      /\ content.verification # <<>>]_insightVars

(* An insight has at most one fix of an issue and a correction in at most one *)
(* cluster, all of them shown to the agent; and a run that skips the project  *)
(* while no analysis comes in between leaves an insight made from the same    *)
(* (sanitizeSemanticResult, AnalyzeSemanticProjects).                         *)
InsightSound ==
    [][/\ insight' # insight =>
            /\ \A m, n \in DOMAIN insight'.fixes :
                  /\ insight'.fixes[n].issue \in Shown(insight'.prompt.issues)
                  /\ insight'.fixes[m].issue = insight'.fixes[n].issue => m = n
            /\ \A m, n \in DOMAIN insight'.clusters : \A k \in ToSet(insight'.clusters[n].corrections) :
                  /\ k \in Shown(insight'.prompt.corrections)
                  /\ k \in ToSet(insight'.clusters[m].corrections) => m = n
       /\ \A a \in Analysers :
            run[a].at = "input" /\ run'[a] = Idle /\ run[a].from = analyzed =>
                insight.prompt = Prompt(HarnessOf[a], Analysed[analyzed].issues,
                                        Analysed[analyzed].corrections)]_insightVars
=============================================================================
