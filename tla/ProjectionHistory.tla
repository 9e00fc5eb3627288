------------------------- MODULE ProjectionHistory -------------------------
(***************************************************************************)
(* The generations of the issue projection: what a reader that holds a     *)
(* generation sees while sessions are marked, analysed, failed and pruned. *)
(*                                                                         *)
(* Composes AnalysisQueue with the tables session_analysis_revisions,      *)
(* issue_occurrences and issue_projection_metadata: each transaction of    *)
(* the queue is conjoined with what the same transaction does to them      *)
(* (internal/storage/local/projection.go, retention.go).                   *)
(***************************************************************************)
EXTENDS AnalysisQueue

CONSTANT Cutoffs    \* the generations a prune may find to be an hour old

ASSUME CutoffsAssumption == Cutoffs \subseteq Nat

\* A prune gives each session that it marks a generation of its own.
ASSUME SessionsAssumption == IsFiniteSet(Sessions)

VARIABLES
    generation,     \* issue_projection_metadata.current_generation
    oldest,         \* .oldest_retained_generation
    retention,      \* .retention_generation
    revisions,      \* session_analysis_revisions
    occurrences     \* issue_occurrences with their citations

historyVars == <<generation, oldest, retention, revisions, occurrences>>
allVars == <<vars, historyVars>>

Origins == {"belay", "numbat"}
RevisionStatuses == {"current", "pending", "failed", "truncated"}

(* visible_until_generation IS NULL is Open; the interval is [from, until). *)
Open == 0

Revisions == [session : Sessions, status : RevisionStatuses, target : Nat,
              analyzed : Nat, from : Nat, until : Nat]
Occurrences == [session : Sessions, origin : Origins, status : Settled,
                cites : SUBSET Events, from : Nat, until : Nat]

HistoryTypeOK ==
    /\ generation \in Nat /\ oldest \in Nat /\ retention \in Nat
    /\ revisions \subseteq Revisions
    /\ occurrences \subseteq Occurrences

HistoryInit ==
    /\ generation = 0 /\ oldest = 0 /\ retention = 1
    /\ revisions = {} /\ occurrences = {}

-----------------------------------------------------------------------------
\* Mutants: the interval includes its end; the old version is deleted.
CloseLate(rows, T, at) ==
    {IF r.session \in T /\ r.until = Open
     THEN [r EXCEPT !.until = at[r.session] + 1] ELSE r : r \in rows}

CloseByDelete(rows, T, at) == {r \in rows : r.session \notin T \/ r.until # Open}

(* closeActiveAnalysisRevisionTx, and the same UPDATE on occurrences: the open
   rows of the sessions in T end at at[s]. *)
Close(rows, T, at) ==
    {IF r.session \in T /\ r.until = Open
     THEN [r EXCEPT !.until = at[r.session]] ELSE r : r \in rows}

(* activeAnalyzedGenerationTx: what the revision closed at g had analysed. *)
AnalyzedAt(rows, s, g) ==
    LET closed == {r \in rows : r.session = s /\ r.until = g}
    IN  IF closed = {} THEN 0 ELSE (CHOOSE r \in closed : TRUE).analyzed

Revision(s, status, target, analyzed, g) ==
    [session |-> s, status |-> status, target |-> target,
     analyzed |-> analyzed, from |-> g, until |-> Open]

(* A generation for each session of T; Prune takes them in map order. *)
Numberings(T) ==
    {at \in [T -> generation + 1 .. generation + Cardinality(T)] :
        \A s, t \in T : at[s] = at[t] => s = t}

\* Mutant: the revision names the target that was in the queue before.
PendingRevisionBefore(s, g) ==
    Revision(s, "pending", IF HasRow(s) THEN dirty[s].target ELSE 1,
             AnalyzedAt(revisions, s, g), g)

(* markSessionDirtyTx reads the analysed generation before it closes. *)
PendingRevision(s, g) ==
    Revision(s, "pending", MarkedRow(dirty[s]).target, AnalyzedAt(revisions, s, g), g)

MarkedRevisions(T, at) ==
    Close(revisions, T, at) \cup {PendingRevision(s, at[s]) : s \in T}

MarkHistory(s) ==
    /\ generation' = generation + 1
    /\ revisions' = MarkedRevisions({s}, [t \in {s} |-> generation + 1])
    /\ UNCHANGED <<oldest, occurrences>>

-----------------------------------------------------------------------------
HAppendEvent(i, e) ==
    /\ AppendEvent(i, e)
    /\ UNCHANGED retention
    /\ IF e \in events THEN UNCHANGED historyVars ELSE MarkHistory(EventSession[e])

(* A changed scope also expires the monitoring snapshots. *)
HUpsertSessionScope(i) ==
    LET s == EventSession[importer[i].item]
    IN  /\ UpsertSessionScope(i)
        /\ IF scope' = scope THEN UNCHANGED historyVars
           ELSE MarkHistory(s) /\ retention' = retention + 1

HUpsertEventEnrichment(i) ==
    /\ UpsertEventEnrichment(i)
    /\ UNCHANGED retention
    /\ IF enriched' = enriched THEN UNCHANGED historyVars
       ELSE MarkHistory(EventSession[importer[i].item])

HMarkFindingSession(i) ==
    /\ MarkFindingSession(i)
    /\ MarkHistory(EventSession[FindingEvent[importer[i].item]])
    /\ UNCHANGED retention

HStartupMark(w, s) ==
    /\ StartupMark(w, s)
    /\ MarkHistory(s)
    /\ UNCHANGED retention

\* Mutant: occurrences are stored with the status of the session before.
ProjectedPending(s, view, g) ==
    {[session |-> s, origin |-> "belay", status |-> "pending",
      cites |-> BelayEvidence(view), from |-> g, until |-> Open]}

(* insertIssueOccurrenceTx, for each origin that has something to report. *)
Projected(s, view, g) ==
    {o \in [session : {s}, origin : Origins, status : {AnalysisStatus(view)},
            cites : {BelayEvidence(view), NumbatEvidence(view)},
            from : {g}, until : {Open}] :
        /\ o.cites # {}
        /\ o.cites = IF o.origin = "belay" THEN BelayEvidence(view)
                                           ELSE NumbatEvidence(view)}

HPublish(w) ==
    LET s == worker[w].session
        view == worker[w].view
        g == generation + 1
        at == [t \in {s} |-> g]
        target == dirty[s].target
    IN  /\ Publish(w)
        /\ generation' = g
        /\ revisions' = Close(revisions, {s}, at)
                          \cup {Revision(s, AnalysisStatus(view), target, target, g)}
        /\ occurrences' = Close(occurrences, {s}, at) \cup Projected(s, view, g)
        /\ UNCHANGED <<oldest, retention>>

\* Mutant: a failure adds a revision and leaves the pending one open.
HPublishAnalysisFailureOpen(w) ==
    LET s == worker[w].session
        g == generation + 1
    IN  /\ PublishAnalysisFailure(w)
        /\ generation' = g
        /\ revisions' = revisions \cup {Revision(s, "failed", dirty[s].target, 0, g)}
        /\ UNCHANGED <<oldest, retention, occurrences>>

(* The occurrences stay; the revision is closed before it is consulted. *)
HPublishAnalysisFailure(w) ==
    LET s == worker[w].session
        g == generation + 1
        closed == Close(revisions, {s}, [t \in {s} |-> g])
    IN  /\ PublishAnalysisFailure(w)
        /\ generation' = g
        /\ revisions' = closed \cup
             {Revision(s, "failed", dirty[s].target, AnalyzedAt(closed, s, g), g)}
        /\ UNCHANGED <<oldest, retention, occurrences>>

\* Mutant: only the visible occurrences go with their events.
LostVisible(D, I) == {o \in occurrences : o.until = Open /\ o.cites \cap D # {}} \cup I

(* Occurrences deleted with the events D, besides the expired ones I. *)
LostOccurrences(D, I) == {o \in occurrences : o.cites \cap D # {}} \cup I

(* updated_at: a row is written when it is inserted and when it is closed. *)
LastWritten(r) == IF r.until = Open THEN r.from ELSE r.until

(* Revisions of sessions without events that are an hour old: last written at
   generation c or before, and not by this prune. *)
ExpiredRevisions(D, marked, c) ==
    {r \in revisions : /\ r.session \in Emptied(D)
                       /\ LastWritten(r) <= c
                       /\ r.until = Open => r.session \notin marked}

(* Those a prune may delete: not the published ones whose recurrence job is
   unfinished, and which those are is left open here. *)
Forgettable(expired) ==
    {expired \ kept : kept \in SUBSET {r \in expired : r.status \in Settled}}

\* Mutants: the oldest readable generation, the retention generation stay.
RetainFromBefore(changed, g) == oldest
RetentionUnlessFindings(changed, F) == IF changed THEN retention + 1 ELSE retention

RetainFrom(changed, g) == IF changed THEN g ELSE oldest
RetentionAfter(changed, F) == IF changed \/ F # {} THEN retention + 1 ELSE retention

(* An occurrence is protected for an hour, and the events it cites with it. *)
HPrune(D, F, I, c) ==
    LET lost == LostOccurrences(D, I)
        T == {o.session : o \in lost}
        marked == Affected(D, F, T)
        next == generation + Cardinality(marked)
    IN  /\ \A o \in lost : LastWritten(o) <= c
        /\ Prune(D, F, T)
        /\ occurrences' = occurrences \ lost
        /\ \E forgotten \in Forgettable(ExpiredRevisions(D, marked, c)),
              at \in Numberings(marked) :
             LET changed == lost # {} \/ forgotten # {} \/ D # {}
             IN  /\ revisions' = MarkedRevisions(marked, at) \ forgotten
                 /\ generation' = IF changed THEN next + 1 ELSE next
                 /\ oldest' = RetainFrom(changed, next + 1)
                 /\ retention' = RetentionAfter(changed, F)

HRetentionPrune ==
    /\ budget.prune > 0
    /\ \E D \in SUBSET events, F \in SUBSET findings,
          I \in SUBSET occurrences, c \in Cutoffs : HPrune(D, F, I, c)

-----------------------------------------------------------------------------
(* Transactions and steps that write none of the history tables. *)
Unrecorded ==
    /\ \/ \E i \in Importers, f \in Findings : RecordFinding(i, f)
       \/ \E i \in Importers : ImporterStop(i)
       \/ \E w \in Workers :
            \/ Start(w) \/ Startup(w) \/ StartupDone(w) \/ Recovered(w)
            \/ \E s \in Sessions : Claim(w, s)
            \/ Read(w) \/ Discard(w) \/ Abandon(w) \/ Stop(w)
       \/ \E s \in Sessions : RetryDue(s)
    /\ UNCHANGED historyVars

HistoryNext ==
    \/ \E i \in Importers, e \in Events : HAppendEvent(i, e)
    \/ \E i \in Importers :
        HUpsertSessionScope(i) \/ HUpsertEventEnrichment(i) \/ HMarkFindingSession(i)
    \/ \E w \in Workers, s \in Sessions : HStartupMark(w, s)
    \/ \E w \in Workers : HPublish(w) \/ HPublishAnalysisFailure(w)
    \/ HRetentionPrune
    \/ Unrecorded

HistorySpec == Init /\ HistoryInit /\ [][HistoryNext]_allVars

-----------------------------------------------------------------------------
(* Properties. *)

OpenRevisions(s) == {r \in revisions : r.session = s /\ r.until = Open}

(* The work queue and the published status are two tables that the same       *)
(* transactions keep in step: a session in the queue has exactly one open     *)
(* revision, for the target in the queue and with the status of the row, so   *)
(* a reader is never told that a session is analysed while the queue owes it  *)
(* an analysis, or the reverse.                                               *)
QueueMatchesRevision ==
    \A s \in Sessions : HasRow(s) =>
        \E r \in revisions :
            /\ OpenRevisions(s) = {r}
            /\ r.target = dirty[s].target
            /\ r.status \in IF dirty[s].state = "claimed"
                            THEN {"pending", "failed"} ELSE {dirty[s].state}

VisibleAt(rows, g) == {r \in rows : r.from <= g /\ (r.until = Open \/ g < r.until)}

(* What a row shows a reader; when it ends is of no concern to the reader. *)
Shown(r) == [r EXCEPT !.until = Open]
Snapshot(g) ==
    <<{Shown(r) : r \in VisibleAt(revisions, g)},
      {Shown(o) : o \in VisibleAt(occurrences, g)}>>

(* A reader pages through one generation while others write: as long as its   *)
(* generation is retained, what that generation shows never changes, and it   *)
(* shows one status for a session and one occurrence of each origin.          *)
SnapshotStable ==
    [][\A g \in oldest' .. generation : Snapshot(g)' = Snapshot(g)]_allVars

OneVersionVisible ==
    \A g \in oldest .. generation :
        /\ \A q, r \in VisibleAt(revisions, g) : q.session = r.session => q = r
        /\ \A o, p \in VisibleAt(occurrences, g) :
            o.session = p.session /\ o.origin = p.origin => o = p

(* An issue never rests on evidence that is gone: a retained occurrence cites *)
(* events of its session that are still stored, and the revision it was       *)
(* published with, which retention and the recurrence worker join it to, is   *)
(* still there with the same status.                                          *)
OccurrencesGrounded ==
    \A o \in occurrences :
        /\ o.cites # {} /\ o.cites \subseteq OfSession(events, o.session)
        /\ \E r \in revisions :
            r.session = o.session /\ r.from = o.from /\ r.status = o.status

(* A page of a monitoring cursor is refused when the retention generation has *)
(* moved: every prune that deletes an event, a finding, an occurrence or a    *)
(* revision moves it, and so does a scope that changes under the reader.      *)
RetentionFence ==
    [][(\/ ~(events \subseteq events') \/ ~(findings \subseteq findings')
        \/ {<<r.session, r.from>> : r \in revisions}
             \ {<<r.session, r.from>> : r \in revisions'} # {}
        \/ \E o \in occurrences : \A p \in occurrences' :
             <<p.session, p.origin, p.from>> # <<o.session, o.origin, o.from>>
        \/ \E s \in Sessions : scope'[s] # scope[s] /\ scope'[s] # NoScope)
       => retention' > retention]_allVars

(* docs/design/p0-01 describes analyzed_generation as the event generation    *)
(* successfully analysed: a pending or failed session still tells up to which *)
(* target the issues it shows were analysed.                                  *)
AnalyzedRemembered ==
    \A s \in Sessions : \A r \in OpenRevisions(s) :
        \A q \in revisions :
            q.session = s /\ q.status \in Settled /\ ~(\E p \in revisions :
                p.session = s /\ p.status \in Settled /\ p.from > q.from)
            => r.analyzed = q.analyzed
=============================================================================
