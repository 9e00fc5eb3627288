---------------------------- MODULE IssueAnalysis ----------------------------
(***************************************************************************)
(* The analysis of transcripts for issues (internal/localapp/              *)
(* issue_analysis.go): the poll of the owner and one-shot commands list    *)
(* the projects that owe an analysis, load each, and publish what they     *)
(* found for the generation the list had.                                  *)
(***************************************************************************)
EXTENDS TranscriptStore, Sequences

CONSTANTS
    Analyzers,
    Limit,          \* defaultTranscriptIssueProjectLimit
    Batch,          \* the turns the importers have to append
    MaxStops,       \* bound: analysers that end
    Unreadable      \* projects whose data cannot be loaded or analysed

ASSUME LimitAssumption == Limit \in Nat \ {0}

VARIABLES
    analyzer,       \* the list, and the data loaded for its head
    dirtied,        \* the dirty projects, in the order of updated_at
    stops

analysisVars == <<analyzer, dirtied, stops, session, turns, project, analysis>>

NotLoaded == [step |-> "rest", list |-> <<>>, groups |-> {}, meta |-> <<>>, content |-> {}]

AnalysisInit ==
    /\ analyzer = [a \in Analyzers |-> NotLoaded]
    /\ dirtied = <<>>
    /\ stops = MaxStops
    /\ StoreInit

(* The dirty projects after a transaction: by updated_at, which               *)
(* markTranscriptProjectDirtyTx and the publication set for what they change.  *)
Dirties(next) ==
    LET dirty == {p \in Projects : next[p].generation > next[p].analyzed}
        Kept(p) == next[p] = project[p]
        Before(p, q) ==
            /\ Kept(p)
            /\ Kept(q) => \E m, n \in DOMAIN dirtied : m < n /\ dirtied[m] = p /\ dirtied[n] = q
    IN  {o \in [1 .. Cardinality(dirty) -> dirty] :
            \A m, n \in DOMAIN o : m < n => o[m] # o[n] /\ ~Before(o[n], o[m])}

\* Mutant: the list has one project, whatever the limit.
ListOne == SubSeq(dirtied, 1, 1)

ListHead == SubSeq(dirtied, 1, IF Len(dirtied) < Limit THEN Len(dirtied) ELSE Limit)

(* ListDirtyTranscriptProjects: by updated_at, at most Limit of them. *)
List(a) ==
    LET head == ListHead
    IN  /\ analyzer[a].step = "rest" /\ dirtied # <<>>
        /\ analyzer' = [analyzer EXCEPT ![a] =
             [NotLoaded EXCEPT !.step = "sessions",
                !.list = [k \in DOMAIN head |-> <<head[k], project[head[k]].generation>>]]]
        /\ UNCHANGED <<dirtied, stops, storeVars>>

Project(a) == analyzer[a].list[1][1]

Rest(a) ==
    IF Len(analyzer[a].list) = 1 THEN NotLoaded
    ELSE [NotLoaded EXCEPT !.step = "sessions", !.list = Tail(analyzer[a].list)]

(* The sessions and then their turns are read outside a transaction. *)
LoadSessions(a) ==
    /\ analyzer[a].step = "sessions"
    /\ analyzer' = [analyzer EXCEPT ![a] =
         IF Project(a) \in Unreadable THEN Rest(a)
         ELSE [@ EXCEPT !.step = "turns", !.groups = LoadedSessions(Project(a)),
                        !.meta = session]]
    /\ UNCHANGED <<dirtied, stops, storeVars>>

LoadTurns(a) ==
    /\ analyzer[a].step = "turns"
    /\ analyzer' = [analyzer EXCEPT ![a].step = "publish",
                      ![a].content = ContentOf(analyzer[a].groups, analyzer[a].meta),
                      ![a].groups = {}, ![a].meta = <<>>]
    /\ UNCHANGED <<dirtied, stops, storeVars>>

\* Mutant: the generation is read when the analysis is published.
GenerationByNow(a) == project[Project(a)].generation

GenerationListed(a) == analyzer[a].list[1][2]

Publish(a) ==
    /\ analyzer[a].step = "publish"
    /\ ReplaceProjectIssueAnalysis(Project(a), GenerationListed(a), analyzer[a].content)
    /\ dirtied' \in Dirties(project')
    /\ analyzer' = [analyzer EXCEPT ![a] = Rest(a)]
    /\ UNCHANGED stops

(* The command ends, or the poll is stopped with its owner. *)
Stop(a) ==
    /\ analyzer[a].step # "rest" /\ stops > 0
    /\ analyzer' = [analyzer EXCEPT ![a] = NotLoaded]
    /\ stops' = stops - 1
    /\ UNCHANGED <<dirtied, storeVars>>

(* An importer (TranscriptImport) appends what there is to append. *)
Ingest(g) ==
    /\ \A p \in Projects : project[p].generation < MaxGeneration
    /\ \E p \in Projects, batch \in SUBSET Batch :
         AppendTranscriptBatch(g, [project |-> p, coverage |-> "live"], batch)
    /\ dirtied' \in Dirties(project')
    /\ UNCHANGED <<analyzer, stops>>

AnalysisStep(a) == List(a) \/ LoadSessions(a) \/ LoadTurns(a) \/ Publish(a)

AnalysisNext ==
    \/ \E g \in Groups : Ingest(g)
    \/ \E a \in Analyzers :
        List(a) \/ LoadSessions(a) \/ LoadTurns(a) \/ Publish(a) \/ Stop(a)

(* The poll lists the projects again every two seconds. *)
AnalysisFairness ==
    \A a \in Analyzers : WF_analysisVars(AnalysisStep(a))

AnalysisSpec == AnalysisInit /\ [][AnalysisNext]_analysisVars /\ AnalysisFairness

-----------------------------------------------------------------------------
(* Every project is analysed in the end, once its transcripts are still: those *)
(* that cannot be read do not fill the list of the others.                     *)
EveryProjectAnalyzed ==
    \A p \in Projects \ Unreadable : p \in DirtyProjects ~> p \notin DirtyProjects
=============================================================================
