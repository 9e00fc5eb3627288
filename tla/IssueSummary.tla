---------------------------- MODULE IssueSummary ----------------------------
(***************************************************************************)
(* The materialized summaries of issues: how each transaction that changes  *)
(* occurrences or analyses keeps them up to date, how a process that opens   *)
(* the store builds them (migrations 12 and 13) and repairs them, what a     *)
(* prune and the compaction take away, and what a reader sees who pages       *)
(* through a snapshot with a cursor.  (issue_summary_projection.go,          *)
(* issue_summary_migration.go, value_first_migration.go, issue_repository.go *)
(* and the read model's ListIssues and GetIssue.)  "db" is the database: a    *)
(* helper takes it before a statement and returns it after.  Who may publish  *)
(* which revision is in AnalysisQueue and ProjectionHistory.                  *)
(***************************************************************************)
EXTENDS Naturals, FiniteSets, FiniteSetsExt

CONSTANTS KnownSessions,
          Batch,              \* rows in a batch of a build (250)
          CursorLifetime,     \* 15 minutes
          Beginning,          \* "old": the store has just got the tables;
                              \* "opened": it was opened before; "open": it is
          MaxGeneration, MaxMinutes, MaxPrunes, MaxCrashes     \* bounds

IssueSummaryAssumption ==
    /\ KnownSessions # {} /\ IsFiniteSet(KnownSessions)
    /\ Batch \in Nat \ {0} /\ CursorLifetime \in Nat
    /\ Beginning \in {"old", "opened", "open"}
    /\ MaxGeneration \in Nat /\ MaxMinutes \in Nat /\ MaxPrunes \in Nat /\ MaxCrashes \in Nat

VARIABLES db, builder, page, minute, prunes, crashes

summaryVars == <<db, builder, page, minute, prunes, crashes>>

Issues == {"belay", "numbat"}       \* one of each origin
Numbat == "numbat"
Open == 0                           \* the end of what is still visible
NoPage == [snapshot |-> 0]

-----------------------------------------------------------------------------
(* What the tables hold at a generation. *)

VisibleAt(set, g) == {x \in set : x.from <= g /\ (x.until = Open \/ x.until > g)}
Active(set) == {x \in set : x.until = Open}
Ended(set, which, g) == {IF x \in which THEN [x EXCEPT !.until = g] ELSE x : x \in set}

Worst(statuses) ==
    CASE "failed" \in statuses -> "failed"
      [] "pending" \in statuses /\ "failed" \notin statuses -> "pending"
      [] OTHER -> "current"

(* aggregateCurrentIssueSummaryTx: the summary of an issue, or none.         *)
RowsOf(d, issue) == {r \in Active(d.rows) : r.issue = issue}
AnalysesOf(d, rows) == {a \in Active(d.analyses) : \E r \in rows : r.session = a.session}

SummaryOf(rows, analysed) ==
    LET visible == {r \in rows : \E a \in analysed : a.session = r.session}
        codes == {r.code : r \in visible}
    IN  IF analysed = {} THEN {}
        ELSE {[sessions |-> {r.session : r \in visible},
               code |-> IF codes = {"known"} THEN "known" ELSE "none",
               status |-> Worst({a.status : a \in analysed})]}

Aggregate(d, issue) == SummaryOf(RowsOf(d, issue), AnalysesOf(d, RowsOf(d, issue)))

Stored(d, issue) == {v.value : v \in {v \in Active(d.summaries) : v.issue = issue}}

(* aggregateCurrentIssueCoverageTx: sessions with events by their analysis.  *)
CoverageOf(events, analyses) ==
    LET with(status) == {s \in events : \E a \in analyses : a.session = s /\ a.status = status}
    IN  [current |-> Cardinality(with("current")),
         failed |-> Cardinality(with("failed")),
         pending |-> Cardinality(events \ (with("current") \cup with("failed")))]

Coverage(d) == CoverageOf(d.events, Active(d.analyses))

CodeOf(d, row) == IF row.issue = Numbat /\ row.session \in d.findings THEN "known" ELSE "none"

IssuesOf(d, s) == {r.issue : r \in {r \in Active(d.rows) : r.session = s}}

-----------------------------------------------------------------------------
(* refreshIssueSummaryRevisionTx, for each of the issues.  A summary that is  *)
(* the same stays; the identity of a new one is its issue and generation.     *)

ChangedIssues(d, issues) == {i \in issues : Stored(d, i) # Aggregate(d, i)}

ConflictingSummary(d, issues, g) ==
    \E i \in ChangedIssues(d, issues) :
        Aggregate(d, i) # {} /\ \E v \in d.summaries : v.issue = i /\ v.from = g

RefreshedSummaries(d, issues, g) ==
    LET changed == ChangedIssues(d, issues)
    IN  Ended(d.summaries, {v \in Active(d.summaries) : v.issue \in changed}, g)
        \cup UNION {{[issue |-> i, from |-> g, until |-> Open, value |-> x]
                        : x \in Aggregate(d, i)} : i \in changed}

(* refreshIssueCoverageRevisionTx *)
RefreshedCoverage(d, g) ==
    IF \E c \in Active(d.coverage) : c.value = Coverage(d) THEN d.coverage
    ELSE Ended(d.coverage, Active(d.coverage), g)
         \cup {[from |-> g, until |-> Open, value |-> Coverage(d)]}

(* compactIssueSummaryRevisionsTx: the last generation older than a cursor    *)
(* can be is the oldest that is kept.                                         *)
\* As a mutation: the first generation that a cursor may still be of.
CompactThroughNext(d, now) ==
    LET old == {t[1] : t \in {t \in d.times : t[2] + CursorLifetime < now}}
    IN  IF old = {} THEN 0 ELSE Min({Max(old) + 1, d.generation})

CompactThrough(d, now) ==
    LET old == {t[1] : t \in {t \in d.times : t[2] + CursorLifetime < now}}
    IN  IF old = {} THEN 0 ELSE Max(old)

Compacted(d, now) ==
    LET through == CompactThrough(d, now)
        kept(set) == {x \in set : x.until = Open \/ x.until > through}
    IN  IF through <= d.oldest THEN d
        ELSE [d EXCEPT !.summaries = kept(@), !.coverage = kept(@),
                       !.times = {t \in @ : t[1] >= through}, !.oldest = through]

(* refreshIssueProjectionIfReadyTx, after the generation was advanced.        *)
Publishable(d) == d.readiness = "building" \/ d.materialized = d.generation

Refreshed(d, issues, now) ==
    IF d.readiness = "building" THEN d
    ELSE Compacted([d EXCEPT !.summaries = RefreshedSummaries(d, issues, d.generation),
                             !.coverage = RefreshedCoverage(d, d.generation),
                             !.times = @ \cup {<<d.generation, now>>},
                             !.materialized = d.generation],
                   now)

Advanced(d) == [d EXCEPT !.generation = @ + 1]

(* closeActiveAnalysisRevisionTx and insertAnalysisRevisionTx                 *)
WithAnalysis(d, s, status) ==
    [d EXCEPT !.analyses =
        Ended(@, {a \in Active(@) : a.session = s}, d.generation)
        \cup {[session |-> s, status |-> status, from |-> d.generation, until |-> Open]}]

(* markSessionDirtyTx *)
MarkedDirty(d, s, now) ==
    Refreshed(WithAnalysis(Advanced(d), s, "pending"), IssuesOf(d, s), now)

-----------------------------------------------------------------------------
(* Import and analysis. *)

(* An import stores events of a session, and the finding about it.            *)
ImportEvents(s, finding) ==
    /\ Publishable(db) /\ db.generation < MaxGeneration
    /\ finding => s \notin db.findings
    /\ db' = MarkedDirty([db EXCEPT !.events = @ \cup {s},
                                    !.findings = IF finding THEN @ \cup {s} ELSE @],
                         s, minute)
    /\ UNCHANGED <<builder, page, minute, prunes, crashes>>

AwaitingAnalysis(s) == \E a \in Active(db.analyses) : a.session = s /\ a.status # "current"

(* replaceSessionProjection: the occurrences of both origins are replaced.    *)
NewRow(d, s, issue, id) ==
    [id |-> id, session |-> s, issue |-> issue, from |-> d.generation, until |-> Open,
     code |-> CodeOf(d, [issue |-> issue, session |-> s])]

Replaced(d, s, belay) ==
    LET top == Max({0} \cup {r.id : r \in d.rows})
        numbat == s \in d.findings
    IN  [d EXCEPT !.rows =
            Ended(@, {r \in Active(@) : r.session = s}, d.generation)
            \cup (IF belay THEN {NewRow(d, s, "belay", top + 1)} ELSE {})
            \cup (IF numbat THEN {NewRow(d, s, Numbat, top + (IF belay THEN 2 ELSE 1))} ELSE {})]

\* As a mutation: only the issues that the session has now.
AffectedNow(before, after, s) == IssuesOf(after, s)

Affected(before, after, s) == IssuesOf(before, s) \cup IssuesOf(after, s)

PublishProjection(s, belay) ==
    LET d == Replaced(WithAnalysis(Advanced(db), s, "current"), s, belay)
    IN  /\ s \in db.events /\ AwaitingAnalysis(s)
        /\ Publishable(db) /\ db.generation < MaxGeneration
        /\ db' = Refreshed(d, Affected(db, d, s), minute)
        /\ UNCHANGED <<builder, page, minute, prunes, crashes>>

(* PublishAnalysisFailure: the occurrences stay as they were.                 *)
AnalysisFails(s) ==
    /\ s \in db.events /\ AwaitingAnalysis(s)
    /\ Publishable(db) /\ db.generation < MaxGeneration
    /\ db' = Refreshed(WithAnalysis(Advanced(db), s, "failed"), IssuesOf(db, s), minute)
    /\ UNCHANGED <<builder, page, minute, prunes, crashes>>

-----------------------------------------------------------------------------
(* Prune. *)

(* The end of a prune that took occurrences, events or analyses.              *)
FinallyPruned(d, issues, now) ==
    [Refreshed(Advanced(d), issues, now) EXCEPT !.retention = @ + 1]

Pruning ==
    /\ prunes < MaxPrunes /\ prunes' = prunes + 1
    /\ Publishable(db) /\ db.generation + 1 < MaxGeneration
    /\ UNCHANGED <<builder, page, minute, crashes>>

(* A finding, while the occurrence made of it is protected.                   *)
PruneFinding(s) ==
    /\ s \in db.findings
    /\ db' = [MarkedDirty(db, s, minute) EXCEPT !.findings = @ \ {s}, !.retention = @ + 1]
    /\ Pruning

(* An occurrence that nothing protects.                                       *)
PruneOccurrence(row) ==
    LET d == MarkedDirty(db, row.session, minute)
    IN  /\ db' = FinallyPruned([d EXCEPT !.rows = @ \ {row}], IssuesOf(db, row.session), minute)
        /\ Pruning

(* All that is stored of a session; its last analysis stays for an hour ...   *)
PruneSession(s) ==
    LET d == MarkedDirty(db, s, minute)
    IN  /\ s \in db.events
        /\ db' = FinallyPruned([d EXCEPT !.events = @ \ {s}, !.findings = @ \ {s},
                                         !.rows = {r \in @ : r.session # s}],
                               IssuesOf(db, s), minute)
        /\ Pruning

(* ... and goes with a later prune.                                           *)
PruneAnalyses ==
    /\ \E a \in db.analyses : a.session \notin db.events
    /\ db' = FinallyPruned([db EXCEPT !.analyses = {a \in @ : a.session \in db.events}], {}, minute)
    /\ Pruning

Prune ==
    \/ \E s \in KnownSessions : PruneFinding(s) \/ PruneSession(s)
    \/ \E row \in db.rows : PruneOccurrence(row)
    \/ PruneAnalyses

-----------------------------------------------------------------------------
(* Reading. *)

\* The occurrences that are visible, with the analyses of their sessions.
Joined(d, g) == {x \in VisibleAt(d.rows, g) \X VisibleAt(d.analyses, g) :
                    x[1].session = x[2].session}

(* What a list of issues, its coverage and the details of the issues show.    *)
SeenAt(d, g) ==
    [summaries |-> {<<v.issue, v.value>> : v \in VisibleAt(d.summaries, g)},
     coverage |-> {c.value : c \in VisibleAt(d.coverage, g)},
     occurrences |-> {<<x[1].issue, x[1].session, x[1].code, x[2].status>> : x \in Joined(d, g)}]

Ready(d) == d.readiness = "ready" /\ d.materialized = d.generation

(* issueMaterializedSnapshot, of a request with a cursor's claims.            *)
\* The cursor is of this store's build and of what is still retained, and fresh.
Current(claims) ==
    /\ claims # NoPage
    /\ claims.epoch = db.epoch /\ claims.retention = db.retention
    /\ minute <= claims.issuedAt + CursorLifetime

Accepted(claims) == Ready(db) /\ Current(claims) /\ claims.snapshot >= db.oldest

(* A request without a cursor: its page, and the claims of the cursors.       *)
FirstPage ==
    /\ Ready(db)
    /\ page' = [epoch |-> db.epoch, retention |-> db.retention, snapshot |-> db.generation,
                issuedAt |-> minute, shown |-> SeenAt(db, db.generation)]
    /\ UNCHANGED <<db, builder, minute, prunes, crashes>>

Tick ==
    /\ minute < MaxMinutes /\ minute' = minute + 1
    /\ UNCHANGED <<db, builder, page, prunes, crashes>>

-----------------------------------------------------------------------------
(* Opening: resumeValueFirstMigration and resumeIssueSummaryMigration.        *)

At(step) == builder.step = step /\ UNCHANGED <<page, minute, prunes, crashes>>
GoesTo(step) == builder' = [builder EXCEPT !.step = step, !.read = {}, !.last = 0]
Reads(step, what, last) == builder' = [builder EXCEPT !.step = step, !.read = what, !.last = last]
Failed == GoesTo("closed")

(* The error of a failed opening ends the process; it is started again.       *)

RepairRequired ==
    \/ \E r \in db.rows : r.code # CodeOf(db, r)
    \/ \E v \in Active(db.summaries) :
        LET codes == {r.code : r \in {r \in Active(db.rows) : r.issue = v.issue}}
        IN  v.value.code # (IF codes = {"known"} THEN "known" ELSE "none")

BeginOpening ==
    /\ At("closed")
    /\ builder' = [step |-> CASE db.ready13 /\ RepairRequired -> "resetProgress"
                             [] db.ready13 /\ ~RepairRequired -> "state"
                             [] ~db.ready13 /\ db.prepared13 -> "backfill"
                             [] OTHER -> "prepare",
                  read |-> {}, last |-> 0, attempts |-> 0, build |-> 0]
    /\ UNCHANGED db

NoProgress13(d) == [d EXCEPT !.prepared13 = FALSE, !.after13 = 0, !.filled13 = FALSE,
                             !.ready13 = FALSE]
NoProgress12(d) == [d EXCEPT !.prepared12 = FALSE, !.after12 = 0, !.summarised12 = FALSE,
                             !.covered12 = FALSE, !.ready12 = FALSE]

Emptied(d) == [d EXCEPT !.summaries = {}, !.coverage = {}, !.times = {},
                        !.readiness = "building", !.materialized = 0, !.oldest = 0]

ResetProgress ==
    /\ At("resetProgress")
    /\ db' = NoProgress13(db)
    /\ GoesTo("prepare")

PrepareValueFirst ==
    /\ At("prepare")
    /\ db' = [NoProgress12(NoProgress13(Emptied(db))) EXCEPT
                !.build = db.generation, !.prepared13 = TRUE]
    /\ GoesTo("backfill")

(* backfillValueFirstOccurrences: a batch is read ...                         *)
\* As a mutation: from the last row that was done.
BatchFrom(rows, after) ==
    {r \in rows : r.id >= after /\ Cardinality({q \in rows : q.id >= after /\ q.id < r.id}) < Batch}

BatchAfter(rows, after) ==
    {r \in rows : r.id > after /\ Cardinality({q \in rows : q.id > after /\ q.id < r.id}) < Batch}

ReadBackfill ==
    LET batch == BatchAfter(db.rows, db.after13)
        revision(r) == [session |-> r.session, issue |-> r.issue, from |-> r.from,
                        code |-> CodeOf(db, r)]
    IN  /\ At("backfill") /\ UNCHANGED db
        /\ IF db.filled13 THEN GoesTo("state")
           ELSE IF batch = {} THEN GoesTo("filled")
           ELSE Reads("fill", {revision(r) : r \in batch}, Max({r.id : r \in batch}))

(* ... and written by another transaction.                                    *)
Fill ==
    LET filled(r) == {x \in builder.read :
                        x.session = r.session /\ x.issue = r.issue /\ x.from = r.from}
    IN  /\ At("fill")
        /\ db' = [db EXCEPT
                    !.rows = {IF filled(r) = {} THEN r
                              ELSE [r EXCEPT !.code = (CHOOSE x \in filled(r) : TRUE).code]
                                : r \in @},
                    !.after13 = builder.last]
        /\ GoesTo("backfill")

Filled ==
    /\ At("filled")
    /\ db' = [db EXCEPT !.filled13 = TRUE]
    /\ GoesTo("backfill")

(* issueSummaryBuildState, and what is decided from it.                       *)
ReadState ==
    /\ At("state") /\ UNCHANGED db
    /\ IF builder.attempts = 3 THEN Failed
       ELSE builder' = [builder EXCEPT
                !.build = db.generation,
                !.step = CASE Ready(db) -> "verify"
                           [] ~Ready(db) /\ (~db.prepared12 \/ db.build # db.generation
                                             \/ db.readiness = "ready") -> "reset"
                           [] OTHER -> "summaries"]

ResetBuild ==
    /\ At("reset")
    /\ IF db.generation # builder.build THEN Failed /\ UNCHANGED db
       ELSE /\ db' = [NoProgress12(Emptied(db)) EXCEPT
                        !.times = {<<db.generation, minute>>},
                        !.build = db.generation, !.prepared12 = TRUE]
            /\ GoesTo("summaries")

ReadSummaries ==
    LET batch == BatchAfter(Active(db.rows), db.after12)
    IN  /\ At("summaries") /\ UNCHANGED db
        /\ IF db.summarised12 THEN GoesTo("coverage")
           ELSE IF batch = {} THEN GoesTo("summarised")
           ELSE Reads("summarise", {r.issue : r \in batch}, Max({r.id : r \in batch}))

Summarise ==
    /\ At("summarise")
    /\ IF db.readiness # "building" \/ ConflictingSummary(db, builder.read, db.build)
       THEN Failed /\ UNCHANGED db
       ELSE /\ db' = [db EXCEPT !.summaries = RefreshedSummaries(db, builder.read, db.build),
                                !.after12 = builder.last]
            /\ GoesTo("summaries")

Summarised ==
    /\ At("summarised")
    /\ db' = [db EXCEPT !.summarised12 = TRUE]
    /\ GoesTo("coverage")

MaterializeCoverage ==
    /\ At("coverage")
    /\ IF db.covered12 THEN UNCHANGED db /\ GoesTo("finish")
       ELSE IF db.readiness # "building" THEN UNCHANGED db /\ Failed
       ELSE /\ db' = [db EXCEPT !.coverage = {[from |-> db.build, until |-> Open,
                                               value |-> Coverage(db)]},
                                !.covered12 = TRUE]
            /\ GoesTo("finish")

(* finishIssueSummaryBuild: if the generation has moved, it is built again.   *)
\* As a mutation: what was built is taken for what is current.
BuildIsCurrentAlways(d) == TRUE

BuildIsCurrent(d) == d.generation = d.build

FinishBuild ==
    /\ At("finish")
    /\ IF db.ready12 THEN UNCHANGED db /\ GoesTo("verify")
       ELSE IF ~BuildIsCurrent(db)
       THEN /\ UNCHANGED db
            /\ builder' = [builder EXCEPT !.step = "state", !.attempts = @ + 1]
       ELSE /\ db' = [db EXCEPT !.readiness = "ready", !.materialized = db.generation,
                                !.oldest = db.generation, !.ready12 = TRUE]
            /\ GoesTo("verify")

Verify ==
    /\ At("verify") /\ UNCHANGED db
    /\ IF ~Ready(db) THEN Failed
       ELSE IF db.ready13 THEN GoesTo("open") ELSE GoesTo("finishValueFirst")

(* finishValueFirstMigration: cursors of before the build end.                *)
FinishValueFirst ==
    /\ At("finishValueFirst")
    /\ IF Ready(db) /\ BuildIsCurrent(db)
       THEN db' = [db EXCEPT !.epoch = @ + 1, !.ready13 = TRUE] /\ GoesTo("open")
       ELSE UNCHANGED db /\ Failed

OpenStep ==
    \/ BeginOpening \/ ResetProgress \/ PrepareValueFirst \/ ReadBackfill \/ Fill \/ Filled
    \/ ReadState \/ ResetBuild \/ ReadSummaries \/ Summarise \/ Summarised
    \/ MaterializeCoverage \/ FinishBuild \/ Verify \/ FinishValueFirst

Crash ==
    /\ crashes < MaxCrashes /\ crashes' = crashes + 1
    /\ builder.step \notin {"closed", "open"} /\ GoesTo("closed")
    /\ UNCHANGED <<db, page, minute, prunes>>

-----------------------------------------------------------------------------
(* An old store has an occurrence of each issue in each session, and neither   *)
(* codes nor summaries; a store that was opened before has both.               *)

OldRows ==
    LET ids == CHOOSE f \in [KnownSessions \X Issues -> 1 .. 2 * Cardinality(KnownSessions)] :
                    \A x, y \in KnownSessions \X Issues : f[x] = f[y] => x = y
    IN  {[id |-> ids[x], session |-> x[1], issue |-> x[2], code |-> "none",
          from |-> 1, until |-> Open] : x \in KnownSessions \X Issues}

OldStore ==
    [generation |-> 1, retention |-> 1, epoch |-> 1,
     readiness |-> "building", build |-> 0, materialized |-> 0, oldest |-> 0,
     rows |-> OldRows, events |-> KnownSessions, findings |-> KnownSessions,
     analyses |-> {[session |-> s, status |-> "current", from |-> 1, until |-> Open]
                    : s \in KnownSessions},
     summaries |-> {}, coverage |-> {}, times |-> {},
     prepared12 |-> FALSE, after12 |-> 0, summarised12 |-> FALSE, covered12 |-> FALSE,
     ready12 |-> FALSE,
     prepared13 |-> FALSE, after13 |-> 0, filled13 |-> FALSE, ready13 |-> FALSE]

\* What the opening of the old store makes of it.
OpenedStore ==
    LET top == 2 * Cardinality(KnownSessions)
        coded == [OldStore EXCEPT !.rows = {[r EXCEPT !.code = CodeOf(OldStore, r)] : r \in @},
                                  !.readiness = "ready"]
    IN  [Refreshed(coded, Issues, 0) EXCEPT
            !.epoch = 2, !.build = 1, !.oldest = 1,
            !.prepared12 = TRUE, !.after12 = top, !.summarised12 = TRUE, !.covered12 = TRUE,
            !.ready12 = TRUE,
            !.prepared13 = TRUE, !.after13 = top, !.filled13 = TRUE, !.ready13 = TRUE]

IssueSummaryInit ==
    /\ db = IF Beginning = "old" THEN OldStore ELSE OpenedStore
    /\ builder = [step |-> IF Beginning = "open" THEN "open" ELSE "closed",
                 read |-> {}, last |-> 0, attempts |-> 0, build |-> 0]
    /\ page = NoPage
    /\ minute = 0 /\ prunes = 0 /\ crashes = 0

\* The others use the store only once some process has opened it.
OthersRun == Beginning # "old" \/ builder.step = "open"

IssueSummaryNext ==
    \/ OpenStep \/ Crash \/ FirstPage \/ Tick
    \/ /\ OthersRun
       /\ \/ \E s \in KnownSessions : \/ \E finding \in BOOLEAN : ImportEvents(s, finding)
                                 \/ \E belay \in BOOLEAN : PublishProjection(s, belay)
                                 \/ AnalysisFails(s)
          \/ Prune

IssueSummarySpec ==
    IssueSummaryInit /\ [][IssueSummaryNext]_summaryVars /\ WF_summaryVars(OpenStep)

-----------------------------------------------------------------------------
SummaryTypeOK ==
    /\ \A x \in {"generation", "retention", "epoch", "build", "materialized", "oldest",
                "after12", "after13"} : db[x] \in Nat
    /\ db.readiness \in {"building", "ready"}
    /\ db.events \subseteq KnownSessions /\ db.findings \subseteq db.events
    /\ \A r \in db.rows : r.session \in KnownSessions /\ r.issue \in Issues

(* Whenever the summaries are ready they are those of the current generation, *)
(* and they and the coverage are what the occurrences and the analyses of that *)
(* generation add up to: a refresh of only the issues a transaction touched    *)
(* misses none, and neither does a build that others publish beside.           *)
SummariesAgree ==
    db.readiness = "ready" =>
        /\ db.materialized = db.generation
        /\ \A i \in Issues : Stored(db, i) = Aggregate(db, i)
        /\ {c.value : c \in Active(db.coverage)} = {Coverage(db)}

(* A cursor of this epoch and retention that is not too old is accepted for as *)
(* long as the store is readable, and each page shows what its first page was  *)
(* taken from, whatever was published, compacted, pruned or rebuilt since.     *)
CursorsHold ==
    (db.ready13 /\ Ready(db) /\ Current(page)) =>
        /\ Accepted(page)
        /\ SeenAt(db, page.snapshot) = page.shown

(* What is read from the summaries is one snapshot, and a true one.            *)
SummariesSound == SummariesAgree /\ CursorsHold

(* A process that goes on trying opens the store in the end.                   *)
OpeningSucceeds == <>(builder.step = "open")
=============================================================================
