-------------------------- MODULE SemanticProposals --------------------------
(***************************************************************************)
(* What an agent makes of the candidates that were compiled from evidence     *)
(* (internal/localapp/experience_semantic_analysis.go, experience_analysis.go *)
(* and internal/storage/local/experience_semantic_repository.go).             *)
(* "belay analyze" goes through the projects; of each it compiles the         *)
(* candidates, takes those its agent has not decided yet, shows some of them   *)
(* with some of their evidence to the agent and stores its decisions, all of   *)
(* them or none.  There is no lease: two runs may be under way, and the agent  *)
(* takes minutes.                                                             *)
(*                                                                          *)
(* A text is the set of the phrases that can be quoted from it.  The prompt     *)
(* shows a phrase with a path in another form, so that what an agent quotes     *)
(* may not be in the text as it was recorded.  Candidates, references and       *)
(* projects are numbers, in the order of their identifiers.                    *)
(***************************************************************************)
EXTENDS Selection

CONSTANTS
    Candidates,
    Early,            \* those for which there is evidence from the beginning
    CandidateOf,      \* their project, time, family, evidence, and what is wrong with them
    Analysers,        \* processes that run "belay analyze"
    HarnessOf,        \* the agent each of them uses
    Decisions,        \* what an agent may decide about a candidate
    ProjectLimit,     \* maxExperienceAnalysisProjects
    QueryLimit,       \* maxExperienceSemanticCandidateQuery
    BatchLimit,       \* maxExperienceSemanticCandidates
    ExcerptLimit,     \* maxExperienceSemanticExcerpts
    NoRef, NoProposal,
    MaxRuns, MaxTime  \* bounds

VARIABLES
    evidence,    \* candidates for which there is evidence
    stored,      \* experience_candidates
    proposals,   \* experience_semantic_proposals
    decisions,   \* experience_semantic_decisions
    analyser,    \* what each process is doing
    started,     \* runs so far
    hour         \* the clock

proposalVars == <<evidence, stored, proposals, decisions, analyser, started, hour>>

Resting == [at |-> "idle"]

ProposalsInit ==
    /\ evidence = Early /\ stored = {}
    /\ proposals = {} /\ decisions = {}
    /\ analyser = [a \in Analysers |-> Resting] /\ started = 0 /\ hour = 0

-----------------------------------------------------------------------------
(* boundedExperienceSemanticExcerpts: the evidence that the agent is shown.   *)

(* excerptEvidenceRefsChronological: by session, the turns in their order.     *)
Chronological(refs) ==
    Sorted({r \in refs : r.text # {}},
           LAMBDA r, t : \/ r.session < t.session
                         \/ r.session = t.session /\ r.turn < t.turn
                         \/ r.session = t.session /\ r.turn = t.turn /\ r.id < t.id)

OfRole(refs, role) == SelectSeq(refs, LAMBDA r : r.role = role)

LastOf(refs, n) == SubSeq(refs, Len(refs) - n + 1, Len(refs))

(* anchorVerifierEvidenceRef, verifierResultEvidenceRef: the last call of the  *)
(* verifier's command, and the first result after it.                         *)
AnchorRefs(candidate, refs) ==
    LET calls == SelectSeq(refs, LAMBDA r : r.role = "call" /\ r.command = candidate.command)
        call == Last(calls)
        answers == SelectSeq(refs, LAMBDA r : /\ r.role = "result" /\ r.session = call.session
                                             /\ r.turn > call.turn)
    IN  IF calls = <<>> THEN <<>> ELSE <<call>> \o First(answers, 1)

(* assistantResponseToLatestUserEvidenceRef: the greatest turn number counts,  *)
(* whatever its session.                                                      *)
ResponseToLatestUser(refs) ==
    LET users == OfRole(refs, "user")
        latest == users[CHOOSE n \in DOMAIN users :
                        /\ \A m \in DOMAIN users : users[m].turn <= users[n].turn
                        /\ \A m \in 1 .. n - 1 : users[m].turn < users[n].turn]
    IN  IF users = <<>> THEN <<>>
        ELSE First(SelectSeq(refs, LAMBDA r : /\ r.role = "assistant" /\ r.session = latest.session
                                             /\ r.turn > latest.turn), 1)

ExcerptsOf(candidate) ==
    LET refs == Chronological(candidate.refs)
        users == OfRole(refs, "user")
        mutations == SelectSeq(refs, LAMBDA r : r.role = "call" /\ r.mutation)
        assistants == OfRole(refs, "assistant")
        picked == First(users, 1) \o First(mutations, 1) \o LastOf(mutations, IF mutations = <<>> THEN 0 ELSE 1)
                    \o (IF Len(users) > 1 THEN LastOf(users, 2) ELSE <<>>)
                    \o AnchorRefs(candidate, refs)
                    \o LastOf(assistants, IF assistants = <<>> THEN 0 ELSE 1)
                    \o ResponseToLatestUser(refs) \o refs
        lexical == Sorted({r \in candidate.refs : r.text # {}}, LAMBDA r, t : r.id < t.id)
    IN  IF \E r \in candidate.refs : r.role # "unknown"
        THEN First(FirstPer(picked, LAMBDA r : r.id), ExcerptLimit)
        ELSE First(lexical, ExcerptLimit)

Excerpts == [c \in Candidates |-> ExcerptsOf(CandidateOf[c])]

ShownRefs(excerpts) == {excerpts[n].id : n \in DOMAIN excerpts}

-----------------------------------------------------------------------------
(* What is done with a decision to propose.                                   *)

(* semanticTextQuotedByEvidence, which looks at the text as it was recorded.   *)
Quoted(excerpts, phrase, refs) ==
    \E n \in DOMAIN excerpts : excerpts[n].id \in refs /\ phrase \in excerpts[n].text

(* authoritativeSemanticBoundaryRefs: where the user names the rule, or the     *)
(* exception, only the user's words count.                                    *)
Authoritative(excerpts, label, refs) ==
    LET labelled == {excerpts[n].id : n \in {n \in DOMAIN excerpts :
                        excerpts[n].role = "user" /\ label \in excerpts[n].labels}}
    IN  IF labelled = {} THEN refs ELSE refs \cap labelled

\* Mutant: that evidence is cited is enough.
SupportedByAny(c, d, excerpts) ==
    \A refs \in {d.guidanceRefs, d.verifierRefs} \cup {x.refs : x \in d.exceptions} :
        refs # {} /\ refs \subseteq ShownRefs(excerpts)

(* semanticProposalEvidenceSupport and ...PreservesEvidenceBoundaries: every    *)
(* part cites evidence that was shown; procedures and exceptions quote it.     *)
Supported(c, d, excerpts) ==
    /\ \A refs \in {d.guidanceRefs, d.verifierRefs} \cup {x.refs : x \in d.exceptions} :
          refs # {} /\ refs \subseteq ShownRefs(excerpts)
    /\ CandidateOf[c].family = "procedure" =>
          Quoted(excerpts, d.guidance, Authoritative(excerpts, "rule", d.guidanceRefs))
    /\ \A x \in d.exceptions : Quoted(excerpts, x.text, Authoritative(excerpts, "exception", x.refs))

(* semanticProposalHarnesses: a procedure about files is for both agents,       *)
(* unless it is about the files of one of them.                               *)
HarnessesFor(c, d) ==
    IF /\ CandidateOf[c].family = "procedure" /\ d.paths # {} /\ d.models = {}
       /\ d.paths \cap {"CLAUDE.md", "AGENTS.md", "codex.md", ".claude/", ".codex/"} = {}
    THEN {"claude", "codex"} ELSE d.harnesses

(* semanticProposalContent: what is malformed, about another project or         *)
(* another session, fails, before its support is looked at; what the           *)
(* experience itself does not allow, after.                                   *)
ProposalContent(c, d, excerpts) ==
    IF \/ ~d.wellFormed
       \/ d.session # NoRef /\ \A r \in CandidateOf[c].refs : r.session # d.session
    THEN "invalid"
    ELSE IF ~Supported(c, d, excerpts) THEN "unsupported"
    ELSE IF ~d.allowed THEN "invalid"
    ELSE "proposed"

(* compileExperienceSemanticResults: exactly one decision for each candidate    *)
(* that was shown, and a proposal without support is deferred instead.         *)
Acceptable(batch, shown, output) ==
    /\ Len(output) = Cardinality(batch)
    /\ {output[n].candidate : n \in DOMAIN output} = batch
    /\ \A n \in DOMAIN output :
          LET d == output[n]
          IN  d.disposition = "propose" =>
                ProposalContent(d.candidate, d, shown[d.candidate]) # "invalid"

Proposal(d, provenance) ==
    [candidate |-> d.candidate, provenance |-> provenance, guidance |-> d.guidance,
     guidanceRefs |-> d.guidanceRefs, exceptions |-> d.exceptions, verifierRefs |-> d.verifierRefs,
     harnesses |-> HarnessesFor(d.candidate, d)]

Result(d, shown, provenance) ==
    LET kept == /\ d.disposition = "propose"
                /\ ProposalContent(d.candidate, d, shown[d.candidate]) = "proposed"
    IN  [candidate |-> d.candidate, provenance |-> provenance,
         disposition |-> IF d.disposition = "propose" /\ ~kept THEN "defer" ELSE d.disposition,
         proposal |-> IF kept THEN Proposal(d, provenance) ELSE NoProposal]

-----------------------------------------------------------------------------
(* StoreExperienceSemanticResults: one transaction.                           *)

SameSource(row, result) ==
    row.candidate = result.candidate /\ row.provenance.harness = result.provenance.harness

(* A row of the same candidate and agent must be the same row.                 *)
Conflicts(result) ==
    \/ \E row \in decisions : SameSource(row, result) /\ row # result
    \/ \E row \in proposals : SameSource(row, result) /\ row # result.proposal

StoreResults(results) ==
    IF \E r \in results : Conflicts(r)
    THEN UNCHANGED <<proposals, decisions>>
    ELSE /\ decisions' = decisions \cup results
         /\ proposals' = proposals \cup {r.proposal : r \in {r \in results : r.proposal # NoProposal}}

-----------------------------------------------------------------------------
(* HasExperienceSemanticResult                                                *)
Decided(c, harness) ==
    \E row \in decisions \cup proposals : row.candidate = c /\ row.provenance.harness = harness

(* QueryExperienceCandidates: those with the newest evidence.                  *)
Newest(project) ==
    First(Ranked({c \in stored : CandidateOf[c].project = project},
                 LAMBDA c : <<CandidateOf[c].created, -c>>), QueryLimit)

(* queryPendingExperienceCandidates                                           *)
Undecided(project, harness) == SelectSeq(Newest(project), LAMBDA c : ~Decided(c, harness))

Pending(project, harness) == ToSet(First(Undecided(project, harness), BatchLimit))

\* Mutant: only a full query is reported.
CappedByQuery(project, harness) == Len(Newest(project)) = QueryLimit

(* What makes a run report that it is incomplete: more than a batch, or as     *)
(* many candidates as a query returns.                                        *)
Capped(project, harness) ==
    \/ Len(Newest(project)) = QueryLimit
    \/ Len(Undecided(project, harness)) > BatchLimit

-----------------------------------------------------------------------------
(* Evidence for another candidate is imported and derived.                    *)
EvidenceArrives ==
    /\ \E c \in Candidates \ evidence : evidence' = evidence \cup {c}
    /\ UNCHANGED <<stored, proposals, decisions, analyser, started, hour>>

TimePasses ==
    /\ hour < MaxTime /\ hour' = hour + 1
    /\ UNCHANGED <<evidence, stored, proposals, decisions, analyser, started>>

(* ListTranscriptProjectIdentities, normalizedExperienceProjectIdentities and   *)
(* the passes over the trajectories, which may fail or leave some.             *)
StartRun(a) ==
    /\ analyser[a].at \in {"idle", "done"} /\ started < MaxRuns /\ started' = started + 1
    /\ LET projects == Sorted({CandidateOf[c].project : c \in evidence}, <)
       IN  \E short \in {Len(projects) > ProjectLimit, TRUE} :
              analyser' = [analyser EXCEPT ![a] =
                [at |-> "compile", left |-> First(projects, ProjectLimit), incomplete |-> short,
                 covered |-> {}]]
    /\ UNCHANGED <<evidence, stored, proposals, decisions, hour>>

(* The next project; a failure costs this one only.                           *)
Proceed(a, incomplete, covered) ==
    analyser' = [analyser EXCEPT ![a] =
        [at |-> "compile", left |-> Tail(@.left),
         incomplete |-> @.incomplete \/ incomplete, covered |-> @.covered \cup covered]]

Fail(a) == Proceed(a, TRUE, {})

(* CompileProjectExperienceCandidatesOnce                                     *)
CompileProject(a) ==
    /\ analyser[a].at = "compile" /\ analyser[a].left # <<>>
    /\ \/ /\ stored' = stored \cup {c \in evidence : CandidateOf[c].project = Head(analyser[a].left)}
          /\ analyser' = [analyser EXCEPT ![a] = [@ EXCEPT !.at = "pending"]]
       \/ UNCHANGED stored /\ Fail(a)
    /\ UNCHANGED <<evidence, proposals, decisions, started, hour>>

(* pendingProject: whether there is anything to ask the agent.                 *)
CheckPending(a) ==
    /\ analyser[a].at = "pending"
    /\ LET project == Head(analyser[a].left)
           capped == Capped(project, HarnessOf[a])
       IN  IF Pending(project, HarnessOf[a]) = {}
           THEN Proceed(a, capped, {c \in stored : CandidateOf[c].project = project})
           ELSE analyser' = [analyser EXCEPT ![a] =
                    [@ EXCEPT !.at = "query", !.incomplete = @ \/ capped]]
    /\ UNCHANGED <<evidence, stored, proposals, decisions, started, hour>>

(* AnalyzeExperienceCandidates queries again, and makes the prompt.            *)
QueryPending(a) ==
    /\ analyser[a].at = "query"
    /\ LET project == Head(analyser[a].left)
           batch == Pending(project, HarnessOf[a])
           asked == {c \in stored : CandidateOf[c].project = project}
           capped == Capped(project, HarnessOf[a])
       IN  IF \E c \in batch : ~CandidateOf[c].valid THEN Fail(a)
           ELSE IF batch = {} THEN Proceed(a, capped, asked)
           ELSE analyser' = [analyser EXCEPT ![a] =
                    [at |-> "agent", left |-> @.left, incomplete |-> @.incomplete \/ capped,
                     covered |-> @.covered, batch |-> batch, asked |-> asked,
                     shown |-> [c \in batch |-> Excerpts[c]]]]
    /\ UNCHANGED <<evidence, stored, proposals, decisions, started, hour>>

(* The agent answers, about what it was shown or about something else.          *)
AgentAnswers(a) ==
    /\ analyser[a].at = "agent"
    /\ LET batch == analyser[a].batch
           shown == analyser[a].shown
           may == UNION {{[d EXCEPT !.candidate = c] : d \in Decisions[c]} : c \in batch}
       IN  \E output \in [1 .. Cardinality(batch) -> may] \cup {<<>>} :
              IF Acceptable(batch, shown, output)
              THEN analyser' = [analyser EXCEPT ![a] =
                    [at |-> "answered", left |-> @.left, incomplete |-> @.incomplete,
                     covered |-> @.covered, asked |-> @.asked,
                     results |-> LET provenance == [harness |-> HarnessOf[a], batch |-> batch,
                                                    output |-> output, generatedAt |-> hour]
                                 IN  {Result(output[n], shown, provenance) : n \in DOMAIN output}]]
              ELSE Fail(a)
    /\ UNCHANGED <<evidence, stored, proposals, decisions, started, hour>>

StoreDecisions(a) ==
    /\ analyser[a].at = "answered"
    /\ StoreResults(analyser[a].results)
    /\ IF analyser[a].results \subseteq decisions'
       THEN Proceed(a, FALSE, analyser[a].asked) ELSE Fail(a)
    /\ UNCHANGED <<evidence, stored, started, hour>>

FinishRun(a) ==
    /\ analyser[a].at = "compile" /\ analyser[a].left = <<>>
    /\ analyser' = [analyser EXCEPT ![a] =
            [at |-> "done", complete |-> ~@.incomplete, covered |-> @.covered]]
    /\ UNCHANGED <<evidence, stored, proposals, decisions, started, hour>>

(* The process is stopped, or its context ends.                               *)
StopRun(a) ==
    /\ analyser[a].at \notin {"idle", "done"}
    /\ analyser' = [analyser EXCEPT ![a] = Resting]
    /\ UNCHANGED <<evidence, stored, proposals, decisions, started, hour>>

ProposalsNext ==
    \/ EvidenceArrives \/ TimePasses
    \/ \E a \in Analysers :
          \/ StartRun(a) \/ CompileProject(a) \/ CheckPending(a) \/ QueryPending(a)
          \/ AgentAnswers(a) \/ StoreDecisions(a) \/ FinishRun(a) \/ StopRun(a)

-----------------------------------------------------------------------------
(* What is stored is whole and grounded: an agent has one decision about a     *)
(* candidate, which proposes exactly if there is a proposal; the decisions of  *)
(* one answer were stored together; and a proposal cites only evidence of its  *)
(* own candidate that the agent was shown, a procedure in words of the user    *)
(* where the user named the rule                                              *)
(* (compileExperienceSemanticResults, StoreExperienceSemanticResults).         *)
DecisionsSound ==
    /\ \A d \in decisions :
          /\ \A other \in decisions : SameSource(other, d) => other = d
          /\ (d.disposition = "propose") = (d.proposal \in proposals)
          /\ \A c \in d.provenance.batch :
                \E other \in decisions : other.candidate = c /\ other.provenance = d.provenance
    /\ \A p \in proposals :
          /\ \E d \in decisions : d.proposal = p
          /\ p.guidanceRefs \cup p.verifierRefs
                \subseteq {r.id : r \in CandidateOf[p.candidate].refs}
          /\ CandidateOf[p.candidate].family = "procedure" =>
                \E r \in CandidateOf[p.candidate].refs :
                    /\ r.id \in p.guidanceRefs /\ p.guidance \in r.text
                    /\ (\E u \in CandidateOf[p.candidate].refs :
                            u.id \in ShownRefs(Excerpts[p.candidate]) /\ u.role = "user" /\ "rule" \in u.labels)
                          => r.role = "user" /\ "rule" \in r.labels

(* A run that does not report itself incomplete has a decision about every     *)
(* candidate its projects had when it asked for the pending ones, also when    *)
(* another run decides, or adds candidates, meanwhile                          *)
(* (analyzeExperienceProjectsOnce).                                            *)
CompleteMeansDecided ==
    \A a \in Analysers :
        analyser[a].at = "done" /\ analyser[a].complete =>
            \A c \in analyser[a].covered : Decided(c, HarnessOf[a])

(* Runs that overlap leave whole decisions, and report only what they have.    *)
ProposalsSound == DecisionsSound /\ CompleteMeansDecided
=============================================================================
