------------------------------ MODULE PackBuild ------------------------------
(***************************************************************************)
(* What goes into a mission pack (internal/missionpack/build.go): the traps, *)
(* the rules, the commands and the facts that are selected from the evidence *)
(* on a project, the warnings and the status that say what they are worth,   *)
(* and what is left out when the text would be too long.                     *)
(*                                                                          *)
(* Identifiers, times and texts are numbers or model values; a text has the  *)
(* words by which it is compared with the hint of a task, and a size.         *)
(***************************************************************************)
EXTENDS Selection

CONSTANTS
    NoIssue, NoTarget, NoInsight, NoClass, Unknown,
    TextBudget,          \* MaxRenderedMarkdown, MaxEstimatedTokens
    ExperienceBudget,    \* maxExperienceTokens
    MaxExperiences, MaxCandidateIssues, MaxKnownTraps, MaxOperatingRules,
    MaxVerification, MaxContextFacts,
    HighConfidence,      \* highConfidence
    ReleaseCommands      \* the commands with a word like "release" or "deploy"

(* The most expensive issues first, then those of the most sessions.         *)
RankedIssues(issues) ==
    Ranked(issues, LAMBDA i : <<IF i.usd = Unknown THEN 0 ELSE 1,
                                IF i.usd = Unknown THEN 0 ELSE i.usd,
                                i.count, i.last, -i.id>>)

-----------------------------------------------------------------------------
(* selectIssues: the issue that was asked for, or of each detector family    *)
(* the first issue that more than one session has.                           *)
SelectIssues(evidence, request) ==
    IF request.issue # NoIssue
    THEN SelectSeq(RankedIssues(evidence.issues), LAMBDA i : i.id = request.issue)
    ELSE LET recurring == SelectSeq(RankedIssues(evidence.issues), LAMBDA i : i.count >= 2)
         IN  First(FirstPer(First(recurring, MaxCandidateIssues), LAMBDA i : i.family),
                   MaxKnownTraps)

KnownTraps(issues) ==
    [n \in DOMAIN issues |-> [issue |-> issues[n].id, size |-> issues[n].size,
                              sources |-> issues[n].sources]]

(* The file a rule goes to: rules for the other agent's files are adapted,   *)
(* but Codex cannot have Claude's settings.                                  *)
SemanticTargetForHarness(harness, target) ==
    CASE harness = "claude" /\ target \in {"CLAUDE.md", "settings"} -> target
      [] harness = "claude" /\ target \in {"AGENTS.md", "rules"} -> "CLAUDE.md"
      [] harness = "codex" /\ target \in {"AGENTS.md", "rules"} -> target
      [] harness = "codex" /\ target = "CLAUDE.md" -> "AGENTS.md"
      [] OTHER -> NoTarget

(* One common word for a hint of one word, two for a longer one.             *)
Relevant(words, hint) ==
    Cardinality(words \cap hint) >= (IF Cardinality(hint) >= 2 THEN 2 ELSE 1)

(* The best fix of each selected issue that is sure, fits the agent and, if  *)
(* no issue was asked for, the task.                                         *)
FixRules(evidence, request, issues) ==
    LET usable(issue) ==
            {f \in ToSet(evidence.insight.fixes) :
                /\ f.issue = issue.id
                /\ f.confidence >= HighConfidence
                /\ SemanticTargetForHarness(request.harness, f.target) # NoTarget
                /\ request.issue = NoIssue => Relevant(issue.words \cup f.words, request.hint)}
        best(issue) == Ranked(usable(issue), LAMBDA f : <<f.confidence, -f.text>>)[1]
        fixed == SelectSeq(issues, LAMBDA i : usable(i) # {})
    IN  [n \in DOMAIN fixed |->
            [text |-> best(fixed[n]).text, size |-> best(fixed[n]).size, sources |-> 1,
             issue |-> fixed[n].id, corrections |-> {},
             target |-> SemanticTargetForHarness(request.harness, best(fixed[n]).target)]]

(* clusterCandidateSupport: the corrections of a cluster that still exist.   *)
Support(evidence, cluster) == ToSet(cluster.corrections) \cap DOMAIN evidence.corrections

SupportSessions(evidence, cluster) ==
    {evidence.corrections[c].session : c \in Support(evidence, cluster)}

(* Clusters that two sessions support, the best supported ones first.        *)
ClusterRules(evidence, request) ==
    LET usable ==
            {c \in ToSet(evidence.insight.clusters) :
                /\ SemanticTargetForHarness(request.harness, c.target) # NoTarget
                /\ Cardinality(Support(evidence, c)) >= 2
                /\ Cardinality(SupportSessions(evidence, c)) >= 2
                /\ c.confidence >= HighConfidence
                /\ Relevant(c.words \cup UNION {evidence.corrections[k].words :
                                                  k \in Support(evidence, c)}, request.hint)}
        ranked == Ranked(usable, LAMBDA c : <<Cardinality(SupportSessions(evidence, c)),
                                              Cardinality(Support(evidence, c)),
                                              c.confidence, -c.text>>)
    IN  [n \in DOMAIN ranked |->
            [text |-> ranked[n].text, size |-> ranked[n].size,
             sources |-> Cardinality(Support(evidence, ranked[n])),
             issue |-> NoIssue, corrections |-> Support(evidence, ranked[n]),
             target |-> SemanticTargetForHarness(request.harness, ranked[n].target)]]

(* selectRules and appendRule: no rule without an agent, an insight that is  *)
(* not stale and something to relate it to, and no rule twice.               *)
SelectRules(evidence, request, issues) ==
    IF \/ request.harness = "none" \/ evidence.insight = NoInsight \/ evidence.insightStale
       \/ request.issue = NoIssue /\ request.hint = {}
    THEN <<>>
    ELSE First(FirstPer(FixRules(evidence, request, issues)
                           \o (IF request.issue = NoIssue THEN ClusterRules(evidence, request) ELSE <<>>),
                        LAMBDA r : r.text),
               MaxOperatingRules)

(* selectVerification: commands of the project's files and commands that     *)
(* succeeded, one per class, those that are both first.                      *)
SelectVerification(evidence, request) ==
    LET configured(c) == {d \in evidence.files : d.command = c}
        observed(c) == {o \in evidence.commands : o.command = c /\ o.count > 0}
        merged ==
            {[command |-> c, configured |-> configured(c) # {}, observed |-> observed(c) # {},
              class |-> (CHOOSE x \in IF configured(c) # {} THEN configured(c) ELSE observed(c) : TRUE).class,
              count |-> SumSet({o.count : o \in observed(c)}),
              last |-> SumSet({o.last : o \in observed(c)})] :
                c \in {d.command : d \in evidence.files}
                        \cup {o.command : o \in {o \in evidence.commands : o.count > 0}}}
        flag(b) == IF b THEN 1 ELSE 0
        ranked == Ranked(merged, LAMBDA m :
                    <<flag(m.configured /\ m.observed), flag(m.observed),
                      flag((m.command \in ReleaseCommands) = (request.intent = "release")),
                      m.count, m.last, -m.command>>)
    IN  First(FirstPer(ranked, LAMBDA m : <<m.class, IF m.class = NoClass THEN m.command ELSE 0>>),
              MaxVerification)

(* selectFacts                                                               *)
SelectFacts(evidence) ==
    First(Ranked(evidence.facts, LAMBDA f : <<f.count, f.last, -f.id>>), MaxContextFacts)

-----------------------------------------------------------------------------
(* buildWarnings                                                             *)
BuildWarnings(evidence, request, pack) ==
    {w \in {"analysis_pending", "transcript_partial", "no_recurring_traps", "insight_unavailable",
            "harness_unspecified", "insight_stale", "verification_unavailable",
            "branch_unavailable", "canonical_context_unavailable"} :
        CASE w = "analysis_pending" -> evidence.analyzed < evidence.transcripts
          [] w = "transcript_partial" -> evidence.coverage # "complete"
          [] w = "no_recurring_traps" -> pack.traps = <<>>
          [] w = "insight_unavailable" ->
                pack.traps # <<>> /\ pack.rules = <<>> /\ request.harness # "none"
          [] w = "harness_unspecified" -> request.harness = "none"
          [] w = "insight_stale" -> evidence.insightStale
          [] w = "verification_unavailable" -> pack.verification = <<>>
          [] w = "branch_unavailable" -> ~request.branch
          [] w = "canonical_context_unavailable" -> evidence.facts = {}}

(* packStatus                                                                *)
\* Mutant: a warning does not make a pack partial.
PackStatusUnwarned(pack) ==
    IF pack.traps \o pack.rules # <<>> /\ pack.verification # <<>> THEN "ready" ELSE "partial"

PackStatus(pack) ==
    IF pack.experiences # <<>> THEN "ready"
    ELSE IF pack.traps = <<>> /\ pack.rules = <<>> /\ pack.verification = <<>> THEN "empty"
    ELSE IF pack.traps \o pack.rules # <<>> /\ pack.verification # <<>> /\ pack.warnings = {}
    THEN "ready"
    ELSE "partial"

Sizes(items) == FoldSeq(LAMBDA item, sum : sum + item.size, 0, items)

(* renderMarkdown and buildChecklist: the heading, the traps, the rules, the *)
(* commands and a checklist that repeats the rules; facts, sources and       *)
(* warnings are not part of the text.                                        *)
TextSize(pack) ==
    IF pack.experiences # <<>> THEN 1 + Sizes(pack.experiences)
    ELSE IF PackStatus(pack) = "empty" THEN 1
    ELSE 3 + Sizes(pack.traps) + 2 * Sizes(pack.rules) + Len(pack.verification)

HasSecondary(items) == \E n \in DOMAIN items : items[n].sources > 1

Stripped(items) == [n \in DOMAIN items |-> [items[n] EXCEPT !.sources = 1]]

(* truncateToBudget: one item after the other goes until the text fits; the  *)
(* last resort is to cut the text.                                           *)
RECURSIVE TruncateToBudget(_)
TruncateToBudget(pack) ==
    LET marked == [pack EXCEPT !.truncated = TRUE, !.warnings = @ \cup {"pack_truncated"}]
    IN  IF TextSize(pack) <= TextBudget THEN pack
        ELSE IF pack.facts # <<>>
        THEN TruncateToBudget([marked EXCEPT !.facts = Front(@)])
        ELSE IF Len(pack.verification) > 1
        THEN TruncateToBudget([marked EXCEPT !.verification = Front(@)])
        ELSE IF pack.rules # <<>>
        THEN TruncateToBudget([marked EXCEPT !.rules = Front(@)])
        ELSE IF Len(pack.traps) > 2
        THEN TruncateToBudget([marked EXCEPT !.traps = First(@, 2)])
        ELSE IF HasSecondary(pack.traps)
        THEN TruncateToBudget([marked EXCEPT !.traps = Stripped(@)])
        ELSE IF Len(pack.traps) > 1
        THEN TruncateToBudget([marked EXCEPT !.traps = Front(@)])
        ELSE [marked EXCEPT !.cut = TRUE]

(* normalizeExperienceItems: too many or too long ones are refused.          *)
ExperiencesFit(experiences) ==
    Len(experiences) <= MaxExperiences /\ Sizes(experiences) <= ExperienceBudget

Refused == [status |-> "refused"]

(* Build: a pack with approved experiences shows only them and is refused if *)
(* they do not fit; any other pack is shortened.                             *)
Build(evidence, request) ==
    LET issues == SelectIssues(evidence, request)
        draft == [experiences |-> evidence.experiences, traps |-> KnownTraps(issues),
                  rules |-> SelectRules(evidence, request, issues),
                  verification |-> SelectVerification(evidence, request),
                  facts |-> SelectFacts(evidence),
                  warnings |-> {}, truncated |-> FALSE, cut |-> FALSE, status |-> "draft"]
        pack == [draft EXCEPT !.warnings = BuildWarnings(evidence, request, draft)]
        fitting == IF pack.experiences # <<>> THEN pack ELSE TruncateToBudget(pack)
    IN  IF \/ request.issue # NoIssue /\ issues = <<>>
           \/ ~ExperiencesFit(evidence.experiences)
           \/ evidence.experiences # <<>> /\ TextSize(pack) > TextBudget
        THEN Refused
        ELSE [fitting EXCEPT !.status = PackStatus(fitting)]
=============================================================================
