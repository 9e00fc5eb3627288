--------------------------- MODULE TranscriptStore ---------------------------
(***************************************************************************)
(* The transcripts of the store (internal/storage/local/                   *)
(* transcript_repository.go, cost_issue_repository.go): a session is what  *)
(* one group of transcript files says, a project is analysed as a whole    *)
(* and owes an analysis whenever its generation is ahead.                  *)
(***************************************************************************)
EXTENDS Naturals, FiniteSets

CONSTANTS
    Groups, Projects,
    Unknown,
    MaxGeneration   \* bound: where a generation stops counting

ASSUME ProjectsAssumption == IsFiniteSet(Projects)

VARIABLES
    session,    \* transcript_sessions: [project, coverage], or Unknown
    turns,      \* transcript_turns: the identities of the turns of a session
    project,    \* transcript_project_analysis_state: generation, analyzed
    analysis    \* the issues and candidates: what they were derived from

storeVars == <<session, turns, project, analysis>>

Coverages == {"live", "partial", "complete"}

StoreInit ==
    /\ session = [g \in Groups |-> Unknown]
    /\ turns = [g \in Groups |-> {}]
    /\ project = [p \in Projects |-> [generation |-> 0, analyzed |-> 0]]
    /\ analysis = [p \in Projects |-> {}]

(* The projects a changed session dirties: its own, and the one it left. *)
Dirtied(before, after) ==
    {after.project} \cup (IF before = Unknown THEN {} ELSE {before.project})

NextGeneration(generation) ==
    IF generation < MaxGeneration THEN generation + 1 ELSE generation

(* AppendTranscriptBatch: one transaction upserts the session, inserts the
   turns that are not there, and moves the generations on if that was news. *)
AppendTranscriptBatch(g, s, batch) ==
    /\ session' = [session EXCEPT ![g] = s]
    /\ turns' = [turns EXCEPT ![g] = @ \cup batch]
    /\ project' =
         IF s = session[g] /\ batch \subseteq turns[g] THEN project
         ELSE [p \in Projects |->
                IF p \in Dirtied(session[g], s)
                THEN [project[p] EXCEPT !.generation = NextGeneration(@)] ELSE project[p]]
    /\ UNCHANGED analysis

(* ListDirtyTranscriptProjects, but for its order and its limit. *)
DirtyProjects == {p \in Projects : project[p].generation > project[p].analyzed}

(* LoadTranscriptProjectData: first the sessions, then the turns of each. *)
LoadedSessions(p) == {g \in Groups : session[g] # Unknown /\ session[g].project = p}

ContentOf(groups, meta) == {<<g, meta[g], turns[g]>> : g \in groups}

ProjectContent(p) == ContentOf(LoadedSessions(p), session)

StillCurrent(p, expected) == project[p].generation = expected

(* ReplaceProjectIssueAnalysis: ErrTranscriptProjectGenerationChanged, or one
   transaction that replaces the issues and advances analyzed_generation. *)
ReplaceProjectIssueAnalysis(p, expected, content) ==
    IF StillCurrent(p, expected)
    THEN /\ analysis' = [analysis EXCEPT ![p] = content]
         /\ project' = [project EXCEPT ![p].analyzed = expected]
         /\ UNCHANGED <<session, turns>>
    ELSE UNCHANGED storeVars

(* What is on show for a project is what its transcripts say, unless a new    *)
(* analysis is owed: whoever loads, appends and publishes in between.         *)
AnalysisCurrent ==
    \A p \in Projects \ DirtyProjects : analysis[p] = ProjectContent(p)
=============================================================================
