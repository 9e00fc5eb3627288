--------------------------- MODULE MonitoringView ---------------------------
(***************************************************************************)
(* What a user is told about the fixes being monitored: the pages of        *)
(* ListFixMonitoring, GetIssueFixMonitoring and                              *)
(* ListFixRecurrenceObservations (readmodel/fix_monitoring.go), computed     *)
(* from the store under a snapshot that the cursors carry                    *)
(* (storage/local/recurrence_repository.go), while sessions are imported,    *)
(* analysed, compared, placed in projects and pruned.                        *)
(*                                                                           *)
(* The writers are those of AnalysisQueue, ProjectionHistory and             *)
(* RecurrenceJobs, cut down to one transaction per operation: a reconciler   *)
(* reads a session and publishes its analysis in one step, the one overtaken *)
(* between the two has no effect.  Readiness is the subject of FixMonitoring,*)
(* here the store is ready.  The sequence number of a row is its place in a  *)
(* sequence of rows.                                                         *)
(***************************************************************************)
EXTENDS Integers, Sequences, FiniteSets

CONSTANTS
    Sessions, Issues,       \* issues are numbers: their IDs are ordered
    Severity,               \* of the attempts recorded for an issue
    Supported,              \* the issues of detectors that can tell an absence
    Projects, NoScope, Conflict,
    Starts,                 \* records: the scopes of the sessions, the attempts of
                            \* a migrated store, and as bounds the mishaps that may
                            \* happen once ("placed", "retracted", "pruned",
                            \* "failed", "truncated"), the issues reported, the most attempts
                            \* and the filters of the client
    Limit, Lifetime,
    MaxTime, MaxEvents      \* bounds

VARIABLES
    store,      \* the tables the pages are computed from
    reader      \* a client that follows the cursors

viewVars == <<store, reader>>

Open == 0
Never == 0
Largest(S) == IF S = {} THEN 0 ELSE CHOOSE x \in S : \A y \in S : y <= x

StoreInit(start) ==
    [start |-> start, clock |-> 1, generation |-> 0, oldest |-> 0, retention |-> 1, may |-> start.may,
     scope |-> start.scope, target |-> [s \in Sessions |-> 0], due |-> {},
     events |-> <<>>, gone |-> {0}, revisions |-> {}, occurrences |-> {},
     jobs |-> <<>>, jobEvents |-> 0, attempts |-> start.attempts, retractions |-> <<>>,
     observations |-> <<>>]

Idle == [phase |-> "idle"]

ViewInit ==
    /\ \E start \in Starts : store = StoreInit(start)
    /\ reader = Idle

-----------------------------------------------------------------------------
(* The writers. *)

Stored == (1 .. Len(store.events)) \ store.gone
OfSession(s) == {n \in Stored : store.events[n].session = s}
At(n) == store.events[n].at

Close(rows, s, g) ==
    {IF r.session = s /\ r.until = Open THEN [r EXCEPT !.until = g] ELSE r : r \in rows}

(* scope and through are those of the capability rows, which only a current   *)
(* analysis of a session with an exact scope has.                             *)
Revision(s, status, analyzed, scope, through, g) ==
    [session |-> s, status |-> status, analyzed |-> analyzed, scope |-> scope,
     through |-> through, from |-> g, until |-> Open]

(* markSessionDirtyTx.  It looks for the analysed generation where it is not  *)
(* written yet and records 0.                                                 *)
Marked(db, s) ==
    LET g == db.generation + 1
    IN  [db EXCEPT !.generation = g, !.target[s] = @ + 1, !.due = @ \cup {s},
                   !.revisions = Close(@, s, g)
                                   \cup {Revision(s, "pending", 0, NoScope, 0, g)}]

(* AppendEvent: an event reports an issue, or 0 for none, and may be old.     *)
Import(s, at, issue) ==
    /\ Len(store.events) < MaxEvents
    /\ LET event == [session |-> s, at |-> at, issue |-> issue]
       IN  store' = Marked([store EXCEPT !.events = Append(@, event)], s)
    /\ UNCHANGED reader

Merged(old, new) ==
    IF old = NoScope THEN new ELSE IF old = new THEN old ELSE Conflict

(* UpsertSessionScope: a change expires the snapshots of the readers.         *)
Place(s, p) ==
    LET scope == Merged(store.scope[s], p)
    IN  /\ "placed" \in store.may /\ store.scope[s] \notin {scope, Conflict} /\ OfSession(s) # {}
        /\ store' = Marked([store EXCEPT !.scope[s] = scope, !.retention = @ + 1,
                                         !.may = @ \ {"placed"}], s)
        /\ UNCHANGED reader

Exact(scope) == scope \in Projects

(* enqueueRecurrenceJobTx: queued, and complete if there is nothing to compare.*)
Enqueued(db, s, g) ==
    LET last == Len(db.attempts)
    IN  [db EXCEPT !.jobEvents = IF last = 0 THEN @ + 2 ELSE @ + 1,
            !.jobs = Append(@, [session |-> s, from |-> g, snapshot |-> last, cursor |-> 0,
                                done |-> IF last = 0 THEN db.jobEvents + 2 ELSE Never])]

Reported(s, i) == {n \in OfSession(s) : store.events[n].issue = i}

(* ReplaceSessionProjection.  Too many events for the detectors: a truncated  *)
(* analysis reports nothing.                                                  *)
Publish(s, status) ==
    LET g == store.generation + 1
        scope == store.scope[s]
        found == IF status = "current" THEN {i \in Issues : Reported(s, i) # {}} ELSE {}
        able == status = "current" /\ Exact(scope)
        row == Revision(s, status, Len(store.events), IF able THEN scope ELSE NoScope,
                        IF able THEN Largest({At(n) : n \in OfSession(s)}) ELSE 0, g)
        occurrences == {[session |-> s, issue |-> i, scope |-> scope,
                         cites |-> Reported(s, i), from |-> g, until |-> Open] : i \in found}
    IN  /\ s \in store.due /\ status \in {"current"} \cup store.may
        /\ store' = Enqueued(
             [store EXCEPT !.generation = g, !.due = @ \ {s}, !.may = @ \ {status},
                           !.revisions = Close(@, s, g) \cup {row},
                           !.occurrences = Close(@, s, g) \cup occurrences], s, g)
        /\ UNCHANGED reader

(* PublishAnalysisFailure stores the target of the queue where the last event *)
(* analysed is meant; the occurrences stay.                                   *)
PublishFailure(s) ==
    LET g == store.generation + 1
    IN  /\ s \in store.due /\ "failed" \in store.may
        /\ store' = [store EXCEPT !.generation = g, !.may = @ \ {"failed"},
             !.revisions = Close(@, s, g)
                             \cup {Revision(s, "failed", store.target[s], NoScope, 0, g)}]
        /\ UNCHANGED reader

-----------------------------------------------------------------------------
Retracted(a) == \E n \in DOMAIN store.retractions : store.retractions[n] = a
LaterThan(a, E) == {n \in E : At(n) > store.attempts[a].from}

(* readRecurrenceMatchesTx: what the analysis of the job reported and where.  *)
Matches(a, job) ==
    {o \in store.occurrences :
        /\ o.session = job.session /\ o.from = job.from
        /\ o.issue = store.attempts[a].issue /\ o.scope = store.attempts[a].scope
        /\ Exact(o.scope)
        /\ o.from > store.attempts[a].snapshot
        /\ LaterThan(a, o.cites) # {}}

Observed(a, o) ==
    \E n \in DOMAIN store.observations :
        store.observations[n].attempt = a /\ store.observations[n].session = o.session

Observation(a, o) ==
    [attempt |-> a, session |-> o.session, at |-> store.clock, cites |-> LaterThan(a, o.cites)]

(* ProcessRecurrenceBatch, of one attempt.                                    *)
ProcessBatch(j) ==
    LET job == store.jobs[j]
        a == job.cursor + 1
        new == {o \in Matches(a, job) : ~Retracted(a) /\ ~Observed(a, o)}
        last == a >= job.snapshot
    IN  /\ job.done = Never
        /\ store' = [store EXCEPT
             !.observations = IF new = {} THEN @ ELSE Append(@, Observation(a, CHOOSE o \in new : TRUE)),
             !.jobs[j].cursor = a,
             !.jobs[j].done = IF last THEN store.jobEvents + 1 ELSE Never,
             !.jobEvents = IF last THEN @ + 1 ELSE @]
        /\ UNCHANGED reader

Visible(rows, g) == {r \in rows : r.from <= g /\ (r.until = Open \/ g < r.until)}

(* RecordFixAnnotation, of an issue as the user saw it at generation g: every *)
(* occurrence of it visible then is exact and of a current analysis.          *)
Record(i, g) ==
    LET seen == {o \in Visible(store.occurrences, g) : o.issue = i}
        status(o) == {r.status : r \in {q \in Visible(store.revisions, g) : q.session = o.session}}
    IN  /\ Len(store.attempts) < store.start.most
        /\ seen # {} /\ \A o \in seen : Exact(o.scope) /\ status(o) = {"current"}
        /\ \E o \in seen :
             store' = [store EXCEPT !.attempts = Append(@,
                 [issue |-> i, from |-> store.clock, scope |-> o.scope, snapshot |-> g,
                  anchor |-> o.session, cites |-> o.cites])]
        /\ UNCHANGED reader

(* RetractFixAnnotation.                                                      *)
Retract(a) ==
    /\ "retracted" \in store.may /\ ~Retracted(a)
    /\ store' = [store EXCEPT !.retractions = Append(@, a), !.may = @ \ {"retracted"}]
    /\ UNCHANGED reader

(* Prune: old events of a session, and the occurrences that cite them, unless *)
(* the job of their analysis is unfinished.  A session without events loses   *)
(* its rows in dirty_sessions and session_scopes.                             *)
Prune(s) ==
    LET old == {n \in OfSession(s) : At(n) < store.clock}
        lost == {o \in store.occurrences : o.cites \cap old # {}}
        emptied == OfSession(s) = old
        marked == Marked([store EXCEPT !.gone = @ \cup old, !.occurrences = @ \ lost,
                                       !.may = @ \ {"pruned"}, !.retention = @ + 1], s)
        g == marked.generation + 1
        settled == [marked EXCEPT !.generation = g, !.oldest = g]
    IN  /\ "pruned" \in store.may /\ old # {}
        /\ \A j \in DOMAIN store.jobs : store.jobs[j].done = Never =>
             \A o \in lost : ~(o.session = store.jobs[j].session /\ o.from = store.jobs[j].from)
        /\ store' = IF emptied THEN [settled EXCEPT !.target[s] = 0, !.due = @ \ {s},
                                                    !.scope[s] = NoScope]
                    ELSE settled
        /\ UNCHANGED reader

Tick ==
    /\ store.clock < MaxTime
    /\ store' = [store EXCEPT !.clock = @ + 1]
    /\ UNCHANGED reader

-----------------------------------------------------------------------------
(* The snapshot of a page. *)

Latest ==
    [generation |-> store.generation, retention |-> store.retention, issued |-> store.clock,
     events |-> Len(store.events), attempts |-> Len(store.attempts),
     retractions |-> Len(store.retractions), jobs |-> Len(store.jobs),
     jobEvents |-> store.jobEvents, observations |-> Len(store.observations)]

Sequences == {"generation", "events", "attempts", "retractions", "jobs", "jobEvents",
              "observations"}

(* fixMonitoringSnapshot: the others are expired, or of no state of this store.*)
Accepted(q) ==
    /\ store.clock - q.issued <= Lifetime
    /\ q.generation >= store.oldest
    /\ q.retention = store.retention
    /\ \A k \in Sequences : q[k] <= Latest[k]

\* Mutant: a retraction counts at once, also under an older snapshot.
ActiveNow(q, a) == ~Retracted(a)

Active(q, a) == \A n \in 1 .. q.retractions : store.retractions[n] # a
ObservationsOf(q, a) == {n \in 1 .. q.observations : store.observations[n].attempt = a}
LastObserved(q, a) == Largest({store.observations[n].at : n \in ObservationsOf(q, a)})

(* The baseline order is recorded exactly when the scope is.                  *)
Comparable(a) == store.attempts[a].scope # NoScope /\ store.attempts[a].issue \in Supported

LaterEvents(q, a, s) == {n \in LaterThan(a, OfSession(s)) : n <= q.events}

(* The sessions with later events, of the scope of the attempt or of none.    *)
Later(q, a) ==
    {s \in Sessions : /\ store.scope[s] \in {store.attempts[a].scope, NoScope, Conflict}
                      /\ LaterEvents(q, a, s) # {}}

VisibleOf(q, s) == {r \in Visible(store.revisions, q.generation) : r.session = s}

\* Mutant: a job that is queued counts as complete.
JobQueued(q, r) ==
    \E n \in 1 .. q.jobs : store.jobs[n].session = r.session /\ store.jobs[n].from = r.from

JobComplete(q, r) ==
    \E n \in 1 .. q.jobs : /\ store.jobs[n].session = r.session /\ store.jobs[n].from = r.from
                           /\ store.jobs[n].done \in 1 .. q.jobEvents

Capable(a, r) == r.scope = store.attempts[a].scope /\ r.through > store.attempts[a].from

-----------------------------------------------------------------------------
(* The state of an attempt, computed by the query that selects the page ... *)

Answered(q, a, s) ==
    \E r \in VisibleOf(q, s) :
        /\ r.status = "current"
        /\ \A n \in OfSession(s) : n <= q.events => n <= r.analyzed
        /\ Capable(a, r)
        /\ JobComplete(q, r)

InQueue(s) == store.target[s] > 0

SeedRank(q, a) ==
    IF ~Active(q, a) THEN 6
    ELSE IF ObservationsOf(q, a) # {} THEN 1
    ELSE IF ~Comparable(a) THEN 3
    ELSE IF \E s \in Later(q, a) : InQueue(s) /\ ~Answered(q, a, s) THEN 2
    ELSE IF ~\E s \in Later(q, a) : InQueue(s) THEN 4
    ELSE 5

(* ... and again from the counts of monitoringCoverageTx. *)

Class(q, a, s) ==
    LET newest == Largest(LaterEvents(q, a, s))
        analysed == {r \in VisibleOf(q, s) : newest <= r.analyzed}
    IN  IF \E r \in analysed : r.status \in {"failed", "truncated"}
        THEN (CHOOSE r \in analysed : TRUE).status
        ELSE IF \E r \in analysed : /\ Capable(a, r) /\ r.status = "current"
                                    /\ JobComplete(q, r)
        THEN "current"
        ELSE "pending"

Classes == {"current", "pending", "failed", "truncated"}

Coverage(q, a) ==
    [c \in Classes |->
        IF Active(q, a) /\ Comparable(a)
        THEN Cardinality({s \in Later(q, a) : Class(q, a, s) = c}) ELSE 0]

Complete(q, a) ==
    /\ Active(q, a) /\ Comparable(a)
    /\ \A c \in Classes \ {"current"} : Coverage(q, a)[c] = 0

StateRank(q, a) ==
    IF ~Active(q, a) THEN 6
    ELSE IF ObservationsOf(q, a) # {} THEN 1
    ELSE IF ~Comparable(a) THEN 3
    ELSE IF ~Complete(q, a) THEN 2
    ELSE IF Coverage(q, a)["current"] = 0 THEN 4
    ELSE 5

EvidenceState(q, cites) ==
    LET kept == {n \in cites \cap Stored : n <= q.events}
    IN  IF kept = cites THEN "available" ELSE IF kept # {} THEN "partial" ELSE "pruned"

SameSession(a, n) == store.observations[n].session = store.attempts[a].anchor

(* populateAttemptMonitoring.                                                 *)
Attempt(q, a) ==
    LET observed == ObservationsOf(q, a)
        counted == IF Active(q, a) THEN observed ELSE {}
    IN  [attempt |-> a, active |-> Active(q, a), rank |-> StateRank(q, a),
         count |-> Cardinality(counted), historical |-> Cardinality(observed),
         same |-> Cardinality({n \in counted : SameSession(a, n)}),
         last |-> LastObserved(q, a),
         coverage |-> Coverage(q, a), complete |-> Complete(q, a),
         lowerBound |-> counted # {} /\ ~Complete(q, a),
         comparable |-> Active(q, a) /\ Comparable(a),
         anchor |-> EvidenceState(q, store.attempts[a].cites),
         evidence |-> {<<n, EvidenceState(q, store.observations[n].cites)>> : n \in observed}]

-----------------------------------------------------------------------------
(* The pages: rows with a key that orders them and on which a cursor stands.  *)

Before(k, l) == \E n \in DOMAIN k : k[n] < l[n] /\ \A m \in 1 .. n - 1 : k[m] = l[m]
First(rows) == CHOOSE r \in rows : \A t \in rows : t = r \/ Before(r.key, t.key)

AttemptsOf(q, i) == {a \in 1 .. q.attempts : store.attempts[a].issue = i}

(* The row that stands for an issue: of its active attempts, or of all of     *)
(* them if none is active and the client asks for retracted ones.             *)
Eligible(q, i, filter) ==
    LET active == {a \in AttemptsOf(q, i) : Active(q, a)}
    IN  IF active = {} /\ filter.retracted THEN AttemptsOf(q, i) ELSE active

DriverKey(q, a) ==
    <<SeedRank(q, a), IF ObservationsOf(q, a) = {} THEN 1 ELSE 0, - LastObserved(q, a),
      - store.attempts[a].from, - a>>

Driver(q, i, filter) ==
    First({[key |-> DriverKey(q, a), attempt |-> a] : a \in Eligible(q, i, filter)}).attempt

Activity(q, a) ==
    IF ObservationsOf(q, a) = {} THEN store.attempts[a].from ELSE LastObserved(q, a)

Summary(q, i, a) ==
    LET all == AttemptsOf(q, i)
    IN  [key |-> <<SeedRank(q, a), - Severity[i], - Activity(q, a), i>>,
         row |-> Attempt(q, a),
         active |-> Cardinality({b \in all : Active(q, b)}),
         observed |-> Cardinality({b \in all : Active(q, b) /\ ObservationsOf(q, b) # {}})]

(* monitoringSummarySeedQuery, with the attempts that QueryFixMonitoring adds.*)
Summaries(q, filter) ==
    {t \in {Summary(q, i, Driver(q, i, filter)) : i \in {j \in Issues : Eligible(q, j, filter) # {}}} :
        filter.rank \in {0, t.key[1]}}

(* QueryIssueFixMonitoring, with the issue as it is at the snapshot.          *)
Details(q, i) ==
    {[key |-> <<- store.attempts[a].from, - a>>, row |-> Attempt(q, a)] : a \in AttemptsOf(q, i)}

CurrentIssue(q, i) == {o.cites : o \in {p \in Visible(store.occurrences, q.generation) : p.issue = i}}

(* QueryFixRecurrenceObservations.                                            *)
ObservationRow(q, n) ==
    LET o == store.observations[n]
        kept == {e \in o.cites \cap Stored : e <= q.events}
    IN  [key |-> <<0 - At(CHOOSE e \in o.cites : \A d \in o.cites : At(e) <= At(d)), - n>>,
         row |-> [session |-> o.session, kept |-> kept, cited |-> Cardinality(o.cites)]]

ObservationRows(q, a) == {ObservationRow(q, n) : n \in ObservationsOf(q, a)}

-----------------------------------------------------------------------------
(* A client. *)

(* History: all that the store shows under a snapshot when it issues it.      *)
Promise(q, filter) ==
    [list |-> Summaries(q, filter),
     details |-> [i \in Issues |-> Details(q, i)],
     issue |-> [i \in Issues |-> CurrentIssue(q, i)],
     observations |-> [a \in 1 .. q.attempts |-> ObservationRows(q, a)]]

Start(rows) == {r \in rows : Cardinality({t \in rows : Before(t.key, r.key)}) < Limit}
After(rows, last) == {r \in rows : Before(last, r.key)}
Last(page) == (CHOOSE r \in page : \A t \in page : t = r \/ Before(t.key, r.key)).key

(* The page that begins rows; the cursor stands on its last row.              *)
Shows(view, subject, q, filter, promise, rows, shown) ==
    LET page == Start(rows)
        more == page # rows
    IN  reader' = [phase |-> view, subject |-> subject, snapshot |-> q, filter |-> filter,
                   promise |-> promise, shown |-> shown \cup page, more |-> more,
                   last |-> IF page = {} THEN <<>> ELSE Last(page)]

Stops(phase) == reader' = [phase |-> phase]

\* "monitoring summary selection changed"
Agrees(rows) == \A t \in rows : t.row.rank = t.key[1]

(* ListFixMonitoring, without a cursor.                                       *)
List(filter) ==
    LET q == Latest
        rows == Summaries(q, filter)
    IN  /\ reader.phase = "idle" /\ q.attempts > 0
        /\ IF Agrees(Start(rows))
           THEN Shows("list", 0, q, filter, Promise(q, filter), rows, {})
           ELSE Stops("broken")
        /\ UNCHANGED store

Following == {"list", "detail", "observations"}

Rows(view, subject, q, filter) ==
    CASE view = "list" -> Summaries(q, filter)
      [] view = "detail" -> Details(q, subject)
      [] view = "observations" -> ObservationRows(q, subject)

(* Each of them, with its cursor.                                             *)
Continue ==
    LET rows == After(Rows(reader.phase, reader.subject, reader.snapshot, reader.filter), reader.last)
    IN  /\ reader.phase \in Following /\ reader.more
        /\ IF ~Accepted(reader.snapshot) THEN Stops("refused")
           ELSE IF reader.phase = "list" /\ ~Agrees(Start(rows)) THEN Stops("broken")
           ELSE Shows(reader.phase, reader.subject, reader.snapshot, reader.filter,
                      reader.promise, rows, reader.shown)
        /\ UNCHANGED store

Turn(view, subject, rows) ==
    IF Accepted(reader.snapshot)
    THEN Shows(view, subject, reader.snapshot, reader.filter, reader.promise, rows, {})
    ELSE Stops("refused")

(* GetIssueFixMonitoring with the view cursor of the list.                    *)
OpenIssue(i) ==
    /\ reader.phase = "list" /\ \E t \in reader.shown : t.key[4] = i
    /\ Turn("detail", i, Details(reader.snapshot, i))
    /\ UNCHANGED store

(* ListFixRecurrenceObservations with the view cursor of an attempt.          *)
OpenObservations(a) ==
    /\ reader.phase = "detail" /\ \E t \in reader.shown : t.row.attempt = a
    /\ Turn("observations", a, ObservationRows(reader.snapshot, a))
    /\ UNCHANGED store

ViewNext ==
    \/ \E s \in Sessions :
        \/ \E at \in 1 .. store.clock, i \in store.start.reports : Import(s, at, i)
        \/ \E p \in Projects : Place(s, p)
        \/ PublishFailure(s) \/ Prune(s)
        \/ \E status \in {"current", "truncated"} : Publish(s, status)
    \/ \E j \in DOMAIN store.jobs : ProcessBatch(j)
    \/ \E i \in Issues, g \in store.oldest .. store.generation : Record(i, g)
    \/ \E a \in DOMAIN store.attempts : Retract(a) \/ OpenObservations(a)
    \/ Tick
    \/ \E filter \in store.start.filters : List(filter)
    \/ \E i \in Issues : OpenIssue(i)
    \/ Continue

-----------------------------------------------------------------------------
(* Properties. *)

Whole == CASE reader.phase = "list" -> reader.promise.list
           [] reader.phase = "detail" -> reader.promise.details[reader.subject]
           [] reader.phase = "observations" -> reader.promise.observations[reader.subject]

(* The pages of a snapshot are pages of one list, the one there was when the  *)
(* snapshot was issued: nothing is shown twice, left out or changed between   *)
(* two pages, whatever was imported, analysed, compared or retracted since.   *)
PagesAgree ==
    reader.phase \in Following =>
        /\ reader.shown \subseteq Whole
        /\ \A t \in reader.shown, r \in Whole \ reader.shown : Before(t.key, r.key)
        /\ ~reader.more => reader.shown = Whole

(* The two ways of classifying an attempt agree, for the latest snapshot and  *)
(* for that of a client: no list ends with an internal error.                 *)
ClassifiedAlike(q) == \A a \in 1 .. q.attempts : SeedRank(q, a) = StateRank(q, a)

SelectionAgrees ==
    /\ reader.phase # "broken"
    /\ ClassifiedAlike(Latest)
    /\ reader.phase \in Following /\ Accepted(reader.snapshot) => ClassifiedAlike(reader.snapshot)

(* Complete coverage is complete: every session of the project with an event  *)
(* of the issue after the attempt is among its observations.  So "no later    *)
(* match" and "awaiting later evidence" are only said when there is none.     *)
Recurred(q, a) ==
    {s \in Sessions : /\ store.scope[s] = store.attempts[a].scope
                      /\ \E n \in LaterEvents(q, a, s) :
                            store.events[n].issue = store.attempts[a].issue}

CoverageHonest ==
    \A a \in 1 .. Latest.attempts :
        Complete(Latest, a) =>
            Recurred(Latest, a) \subseteq
                {store.observations[n].session : n \in ObservationsOf(Latest, a)}

MonitoringHolds == PagesAgree /\ SelectionAgrees /\ CoverageHonest
=============================================================================
