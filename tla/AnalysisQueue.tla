--------------------------- MODULE AnalysisQueue ---------------------------
(***************************************************************************)
(* The durable analysis queue of Belay Local (table dirty_sessions) and    *)
(* the processes around it.                                                *)
(*                                                                         *)
(*   importers   append events, scopes, enrichments and findings           *)
(*               (internal/pipeline, internal/analysis/enrichment.go);     *)
(*   workers     reconcilers: claim a dirty session, read its inputs one   *)
(*               query at a time, publish or fail                          *)
(*               (internal/analysis/reconciler.go);                        *)
(*   retention   deletes inputs and the queue rows of emptied sessions     *)
(*               (internal/storage/local/retention.go).                    *)
(*                                                                         *)
(* Every Store method is one exclusive SQLite transaction, hence one       *)
(* atomic action; everything interesting happens between them.  A worker   *)
(* is an open Store: the reconcilers on it are serialised by an in-memory  *)
(* lock, those of two stores are not, be it in one process or in two.      *)
(***************************************************************************)
EXTENDS Naturals, FiniteSets

CONSTANTS
    Sessions, Events, Findings, Projects,
    Workers,            \* open stores with a Reconciler
    Runtimes,           \* those on which the recovery loop of Local runs
    Importers,          \* processes that run the pipeline importer
    EventSession,       \* the session of an event
    EventProject,       \* the project scope its record resolves to
    FindingEvent,       \* the event a Numbat finding cites
    Signals,            \* the events a bundled detector reports
    Poisoned,           \* sessions on which the detector catalog always fails
    MaxSessionEvents,   \* detection.MaxSessionEvents
    NoScope, Conflict,  \* scope quality "unscoped" and "conflict"
    NoRow, Nothing,
    MaxAppends, MaxPrunes, MaxStops, MaxFaults, MaxLosses  \* bounds on the environment

ASSUME InputsAssumption ==
    /\ EventSession \in [Events -> Sessions]
    /\ EventProject \in [Events -> Projects]
    /\ FindingEvent \in [Findings -> Events]
    /\ Signals \subseteq Events
    /\ Poisoned \subseteq Sessions
    /\ Runtimes \subseteq Workers
    /\ MaxSessionEvents \in Nat
    /\ NoScope \notin Projects /\ Conflict \notin Projects
    /\ NoScope # Conflict

ASSUME BoundsAssumption ==
    /\ MaxAppends \in Nat /\ MaxPrunes \in Nat
    /\ MaxStops \in Nat /\ MaxFaults \in Nat /\ MaxLosses \in Nat

VARIABLES
    events,     \* events stored (table events)
    scope,      \* session_scopes, NoScope where there is no row
    enriched,   \* events with a row in event_enrichments
    findings,   \* findings stored
    dirty,      \* dirty_sessions: NoRow or [target, state]
    cooling,    \* sessions whose retry_at is in the future
    older,      \* <<s, t>>: the row of s was updated before the row of t
    worker,     \* what each reconciler process is doing
    importer,   \* what each importer process is doing
    budget,     \* environment steps left
    \* History variables: only the properties depend on them.
    epoch,      \* how often retention has deleted the row of a session
    basis,      \* the inputs the last publication of a session analysed
    stale,      \* sessions whose current target was settled by a claim on a deleted row
    unmarked    \* findings stored since their session was last marked dirty

storeVars == <<events, scope, enriched, findings>>
queueVars == <<dirty, cooling, older, unmarked, stale>>
vars == <<events, scope, enriched, findings, dirty, cooling, older, worker,
          importer, budget, epoch, basis, stale, unmarked>>

RowStates == {"pending", "claimed", "failed", "current", "truncated"}
Settled == {"current", "truncated"}
Scopes == Projects \cup {NoScope, Conflict}
Rows == [target : Nat \ {0}, state : RowStates]

ASSUME AbsentAssumption ==
    /\ NoRow \notin Rows
    /\ Nothing \notin Sessions \cup Events \cup Findings

(* The inputs of one session, as one reconciliation reads them. *)
Views == [scope : Scopes, events : SUBSET Events,
          enriched : SUBSET Events, findings : SUBSET Findings]
EmptyView == [scope |-> NoScope, events |-> {}, enriched |-> {}, findings |-> {}]

OfSession(E, s) == {e \in E : EventSession[e] = s}
FindingsOf(F, s) == {f \in F : EventSession[FindingEvent[f]] = s}

ReadingStages == {"scope", "events", "enrichments", "findings"}
Active == ReadingStages \cup {"publish"}

(* The recovery loop: before Startup has returned without error, in its drain, after. *)
Phases == {"start", "recover", "steady"}

WorkerStates ==
    [pc : Active, phase : Phases, todo : SUBSET Sessions, session : Sessions,
     target : Nat \ {0}, epoch : Nat, view : Views]
    \cup [pc : {"off", "drain", "startup"}, phase : Phases, todo : SUBSET Sessions,
          session : {Nothing}, target : {0}, epoch : {0}, view : {EmptyView}]
Stopped == [pc |-> "off", phase |-> "start", todo |-> {}, session |-> Nothing,
            target |-> 0, epoch |-> 0, view |-> EmptyView]

Budgets == [{"append", "prune", "stop", "fault", "loss"} -> Nat]

ImporterStates ==
    [pc : {"idle"}, item : {Nothing}]
    \cup [pc : {"scope", "enrich"}, item : Events]
    \cup [pc : {"mark"}, item : Findings]
IdleImporter == [pc |-> "idle", item |-> Nothing]

TypeOK ==
    /\ events \subseteq Events
    /\ scope \in [Sessions -> Scopes]
    /\ enriched \subseteq Events
    /\ findings \subseteq Findings
    /\ dirty \in [Sessions -> Rows \cup {NoRow}]
    /\ cooling \subseteq Sessions
    /\ older \subseteq Sessions \X Sessions
    /\ worker \in [Workers -> WorkerStates]
    /\ importer \in [Importers -> ImporterStates]
    /\ budget \in Budgets
    /\ epoch \in [Sessions -> Nat]
    /\ basis \in [Sessions -> Views]
    /\ stale \subseteq Sessions
    /\ unmarked \subseteq Findings

Init ==
    /\ events = {} /\ enriched = {} /\ findings = {}
    /\ scope = [s \in Sessions |-> NoScope]
    /\ dirty = [s \in Sessions |-> NoRow]
    /\ cooling = {} /\ older = {}
    /\ worker = [w \in Workers |-> Stopped]
    /\ importer = [i \in Importers |-> IdleImporter]
    /\ budget = [append |-> MaxAppends, prune |-> MaxPrunes,
                 stop |-> MaxStops, fault |-> MaxFaults, loss |-> MaxLosses]
    /\ epoch = [s \in Sessions |-> 0]
    /\ basis = [s \in Sessions |-> EmptyView]
    /\ stale = {} /\ unmarked = {}

Spend(kind) ==
    /\ budget[kind] > 0
    /\ budget' = [budget EXCEPT ![kind] = @ - 1]

-----------------------------------------------------------------------------
(* Writing queue rows. *)

HasRow(s) == dirty[s] # NoRow

(* updated_at = now on the rows of the sessions in T. *)
Touched(T) ==
    {p \in older : p[1] \in T <=> p[2] \in T} \cup ((Sessions \ T) \X T)

\* Mutants: the first target is 0; a row that is dirty already keeps its target.
MarkedRowFromZero(row) ==
    [target |-> IF row = NoRow THEN 0 ELSE row.target + 1, state |-> "pending"]

MarkedRowOnce(row) ==
    [target |-> IF row = NoRow THEN 1
                ELSE IF row.state \in {"pending", "claimed"} THEN row.target
                ELSE row.target + 1,
     state |-> "pending"]

MarkedRow(row) ==
    [target |-> IF row = NoRow THEN 1 ELSE row.target + 1, state |-> "pending"]

(* markSessionDirtyTx on every session of T. *)
MarkDirty(T) ==
    /\ dirty' = [s \in Sessions |-> IF s \in T THEN MarkedRow(dirty[s]) ELSE dirty[s]]
    /\ cooling' = cooling \ T
    /\ older' = Touched(T)
    /\ unmarked' = {f \in unmarked : EventSession[FindingEvent[f]] \notin T}
    /\ stale' = stale \ T

(* The state of the row of s becomes st. *)
SetRow(s, st) ==
    /\ dirty' = [dirty EXCEPT ![s].state = st]
    /\ older' = Touched({s})

-----------------------------------------------------------------------------
(* Importers. *)

(* handle(EventRecord), first transaction: append or deduplicate the event. *)
AppendEvent(i, e) ==
    /\ importer[i].pc = "idle"
    /\ Spend("append")
    /\ importer' = [importer EXCEPT ![i] = [pc |-> "scope", item |-> e]]
    /\ events' = events \cup {e}
    /\ IF e \in events THEN UNCHANGED queueVars ELSE MarkDirty({EventSession[e]})
    /\ UNCHANGED <<scope, enriched, findings, worker, epoch, basis>>

MergeScope(existing, incoming) ==
    CASE existing = Conflict -> Conflict
      [] existing = NoScope  -> incoming
      [] OTHER -> IF existing = incoming THEN existing ELSE Conflict

(* EnrichEventRecord, first half: the scope the record resolves to. *)
UpsertSessionScope(i) ==
    LET e == importer[i].item
        s == EventSession[e]
        merged == MergeScope(scope[s], EventProject[e])
    IN  /\ importer[i].pc = "scope"
        /\ importer' = [importer EXCEPT ![i].pc = "enrich"]
        /\ scope' = [scope EXCEPT ![s] = merged]
        /\ IF merged = scope[s] THEN UNCHANGED queueVars ELSE MarkDirty({s})
        /\ UNCHANGED <<events, enriched, findings, worker, budget, epoch, basis>>

(* EnrichEventRecord, second half; retention may have deleted the event. *)
UpsertEventEnrichment(i) ==
    LET e == importer[i].item
    IN  /\ importer[i].pc = "enrich"
        /\ importer' = [importer EXCEPT ![i] = IdleImporter]
        /\ enriched' = enriched \cup (events \cap {e})
        /\ IF e \in events \ enriched
           THEN MarkDirty({EventSession[e]}) ELSE UNCHANGED queueVars
        /\ UNCHANGED <<events, scope, findings, worker, budget, epoch, basis>>

(* handle(FindingRecord), first transaction.  Its citation must resolve. *)
RecordFinding(i, f) ==
    /\ importer[i].pc = "idle"
    /\ FindingEvent[f] \in events
    /\ Spend("append")
    /\ importer' = [importer EXCEPT ![i] = [pc |-> "mark", item |-> f]]
    /\ findings' = findings \cup {f}
    /\ unmarked' = IF f \in findings THEN unmarked ELSE unmarked \cup {f}
    /\ UNCHANGED <<events, scope, enriched, dirty, cooling, older, stale, worker,
                   epoch, basis>>

(* handle(FindingRecord), second transaction: MarkSessionDirty. *)
MarkFindingSession(i) ==
    /\ importer[i].pc = "mark"
    /\ importer' = [importer EXCEPT ![i] = IdleImporter]
    /\ MarkDirty({EventSession[FindingEvent[importer[i].item]]})
    /\ UNCHANGED <<storeVars, worker, budget, epoch, basis>>

(* The importing process dies between two transactions of one record. *)
ImporterStop(i) ==
    /\ importer[i].pc # "idle"
    /\ Spend("stop")
    /\ importer' = [importer EXCEPT ![i] = IdleImporter]
    /\ UNCHANGED <<storeVars, queueVars, worker, epoch, basis>>

-----------------------------------------------------------------------------
(* Reconciler processes. *)

Enter(w, stage) == worker' = [worker EXCEPT ![w].pc = stage]

Leave(w) ==
    worker' = [worker EXCEPT ![w] =
                 [Stopped EXCEPT !.pc = "drain", !.phase = worker[w].phase]]

Start(w) ==
    /\ worker[w].pc = "off"
    /\ Enter(w, "drain")
    /\ UNCHANGED <<storeVars, queueVars, importer, budget, epoch, basis>>

\* Mutant: Startup leaves alone the sessions that somebody seems to work on.
StartupUnclaimed(w) ==
    /\ w \in Runtimes
    /\ worker[w].pc = "drain" /\ worker[w].phase = "start"
    /\ worker' = [worker EXCEPT ![w].pc = "startup", ![w].phase = "recover",
          ![w].todo = {s \in {EventSession[e] : e \in events} :
                         HasRow(s) => dirty[s].state # "claimed"}]
    /\ UNCHANGED <<storeVars, queueVars, importer, budget, epoch, basis>>

(* Reconciler.Startup: list the sessions that have events ... *)
Startup(w) ==
    /\ w \in Runtimes
    /\ worker[w].pc = "drain" /\ worker[w].phase = "start"
    /\ worker' = [worker EXCEPT ![w].pc = "startup", ![w].phase = "recover",
                                ![w].todo = {EventSession[e] : e \in events}]
    /\ UNCHANGED <<storeVars, queueVars, importer, budget, epoch, basis>>

(* ... mark each of them in a transaction of its own ... *)
StartupMark(w, s) ==
    /\ worker[w].pc = "startup"
    /\ s \in worker[w].todo
    /\ worker' = [worker EXCEPT ![w].todo = @ \ {s}]
    /\ MarkDirty({s})
    /\ UNCHANGED <<storeVars, importer, budget, epoch, basis>>

(* ... and drain ... *)
StartupDone(w) ==
    /\ worker[w].pc = "startup" /\ worker[w].todo = {}
    /\ Enter(w, "drain")
    /\ UNCHANGED <<storeVars, queueVars, importer, budget, epoch, basis>>

\* Mutant: a claimed row may be claimed again.
ClaimableAgain(s) ==
    /\ HasRow(s)
    /\ dirty[s].state \in {"pending", "failed", "claimed"}
    /\ s \notin cooling

Claimable(s) ==
    /\ HasRow(s)
    /\ dirty[s].state \in {"pending", "failed"}
    /\ s \notin cooling

(* ... until ClaimDirtySession finds no work. *)
Recovered(w) ==
    /\ worker[w].pc = "drain" /\ worker[w].phase = "recover"
    /\ \A s \in Sessions : ~Claimable(s)
    /\ worker' = [worker EXCEPT ![w].phase = "steady"]
    /\ UNCHANGED <<storeVars, queueVars, importer, budget, epoch, basis>>

(* ClaimDirtySession: the claimable row that was updated first. *)
Claim(w, s) ==
    /\ worker[w].pc = "drain"
    /\ Claimable(s)
    /\ \A t \in Sessions \ {s} : Claimable(t) => <<s, t>> \in older
    /\ SetRow(s, "claimed")
    /\ worker' = [worker EXCEPT ![w] =
                    [@ EXCEPT !.pc = "scope", !.session = s,
                              !.target = dirty[s].target, !.epoch = epoch[s]]]
    /\ UNCHANGED <<storeVars, cooling, unmarked, stale, importer, budget, epoch, basis>>

(* The reads of reconcileSession, each a query of its own. *)
ReadScope(w) ==
    /\ worker[w].pc = "scope"
    /\ worker' = [worker EXCEPT ![w].pc = "events",
                                ![w].view.scope = scope[worker[w].session]]
    /\ UNCHANGED <<storeVars, queueVars, importer, budget, epoch, basis>>

Oversized(view) == Cardinality(view.events) > MaxSessionEvents

ReadEvents(w) ==
    LET E == OfSession(events, worker[w].session)
    IN  /\ worker[w].pc = "events"
        /\ worker' = [worker EXCEPT
                        ![w].pc = IF Cardinality(E) > MaxSessionEvents
                                  THEN "findings" ELSE "enrichments",
                        ![w].view.events = E]
        /\ UNCHANGED <<storeVars, queueVars, importer, budget, epoch, basis>>

ReadEnrichments(w) ==
    /\ worker[w].pc = "enrichments"
    /\ worker' = [worker EXCEPT ![w].pc = "findings",
                    ![w].view.enriched = OfSession(enriched, worker[w].session)]
    /\ UNCHANGED <<storeVars, queueVars, importer, budget, epoch, basis>>

ReadFindings(w) ==
    /\ worker[w].pc = "findings"
    /\ worker' = [worker EXCEPT ![w].pc = "publish",
                    ![w].view.findings = FindingsOf(findings, worker[w].session)]
    /\ UNCHANGED <<storeVars, queueVars, importer, budget, epoch, basis>>

(* Events cited by the Belay and the Numbat occurrences a view leads to. *)
BelayEvidence(view) == IF Oversized(view) THEN {} ELSE view.events \cap Signals
NumbatEvidence(view) == {FindingEvent[f] : f \in view.findings}
Evidence(view) == BelayEvidence(view) \cup NumbatEvidence(view)

AnalysisStatus(view) == IF Oversized(view) THEN "truncated" ELSE "current"

\* Mutant: the write only needs the row to exist.
HoldsRow(w) == HasRow(worker[w].session)

(* The compare-and-swap of replaceSessionProjection and PublishAnalysisFailure. *)
HoldsTarget(w) ==
    LET s == worker[w].session
    IN  HasRow(s) /\ dirty[s].target = worker[w].target

(* The catalog fails, or the publication cites an event that is gone. *)
MustFail(w) ==
    LET s == worker[w].session
        view == worker[w].view
    IN  \/ s \in Poisoned /\ ~Oversized(view)
        \/ ~(Evidence(view) \subseteq OfSession(events, s))

(* Remembers a write through a claim on a row that has been deleted since. *)
Settle(w) ==
    stale' = IF worker[w].epoch = epoch[worker[w].session]
             THEN stale ELSE stale \cup {worker[w].session}

(* ReplaceSessionProjection. *)
Publish(w) ==
    LET s == worker[w].session
        view == worker[w].view
    IN  /\ worker[w].pc = "publish"
        /\ HoldsTarget(w)
        /\ ~MustFail(w)
        /\ SetRow(s, AnalysisStatus(view))
        /\ cooling' = cooling \ {s}
        /\ basis' = [basis EXCEPT ![s] = view]
        /\ Settle(w)
        /\ Leave(w)
        /\ UNCHANGED <<storeVars, importer, budget, epoch, unmarked>>

(* ErrStaleProjection, from publishing or from reporting a failure. *)
Discard(w) ==
    /\ worker[w].pc \in Active
    /\ ~HoldsTarget(w)
    /\ IF worker[w].pc = "publish" THEN UNCHANGED budget ELSE Spend("fault")
    /\ Leave(w)
    /\ UNCHANGED <<storeVars, queueVars, importer, epoch, basis>>

(* Reconciler.fail: the analysis cannot succeed, or a query returned an error. *)
PublishAnalysisFailure(w) ==
    LET s == worker[w].session
    IN  /\ worker[w].pc \in Active
        /\ HoldsTarget(w)
        /\ IF worker[w].pc = "publish" /\ MustFail(w)
           THEN UNCHANGED budget ELSE Spend("fault")
        /\ SetRow(s, "failed")
        /\ cooling' = cooling \cup {s}
        /\ Settle(w)
        /\ Leave(w)
        /\ UNCHANGED <<storeVars, importer, epoch, basis, unmarked>>

(* retry_at passes. *)
RetryDue(s) ==
    /\ s \in cooling
    /\ cooling' = cooling \ {s}
    /\ UNCHANGED <<storeVars, dirty, older, unmarked, stale, worker, importer,
                   budget, epoch, basis>>

(* The context of the caller ends (a historical scan has a deadline), which
   fails the report of the failure too, or that report fails by itself:
   drainLocked returns and the claim stays.  The recovery loop calls Startup
   again while Startup has not returned without an error. *)
Abandon(w) ==
    /\ worker[w].pc \in Active \cup {"startup"}
    /\ Spend("loss")
    /\ worker' = [worker EXCEPT ![w] =
          [Stopped EXCEPT !.pc = "drain",
             !.phase = IF worker[w].phase = "recover" THEN "start" ELSE worker[w].phase]]
    /\ UNCHANGED <<storeVars, queueVars, importer, epoch, basis>>

(* The process exits or crashes: nothing is written, whatever it holds. *)
Stop(w) ==
    /\ worker[w].pc # "off"
    /\ Spend("stop")
    /\ worker' = [worker EXCEPT ![w] = Stopped]
    /\ UNCHANGED <<storeVars, queueVars, importer, epoch, basis>>

-----------------------------------------------------------------------------
(* Retention. *)

(* Prune deletes the events D, the findings F and some occurrence revisions
   of the sessions T, with everything that depends on a deleted event. *)
LostFindings(D, F) == {f \in findings : FindingEvent[f] \in D} \cup F

\* Mutant: the sessions that only lose findings are forgotten.
AffectedByEvents(D, F, T) == {EventSession[e] : e \in D} \cup T

Affected(D, F, T) ==
    {EventSession[e] : e \in D} \cup T
        \cup {EventSession[FindingEvent[f]] : f \in LostFindings(D, F)}

Emptied(D) == {s \in Sessions : OfSession(events \ D, s) = {}}

(* The affected sessions are marked dirty, then the queue rows of all sessions
   without events are deleted: the target of such a session restarts at 1. *)
PrunedRow(s, D, F, T) ==
    IF s \in Emptied(D) THEN NoRow
    ELSE IF s \in Affected(D, F, T) THEN MarkedRow(dirty[s])
    ELSE dirty[s]

Prune(D, F, T) ==
    /\ Spend("prune")
    /\ events' = events \ D
    /\ enriched' = enriched \ D
    /\ findings' = findings \ LostFindings(D, F)
    /\ scope' = [s \in Sessions |-> IF s \in Emptied(D) THEN NoScope ELSE scope[s]]
    /\ dirty' = [s \in Sessions |-> PrunedRow(s, D, F, T)]
    /\ cooling' = cooling \ (Affected(D, F, T) \cup Emptied(D))
    /\ older' = Touched(Affected(D, F, T))
    /\ unmarked' = {f \in unmarked \ LostFindings(D, F) :
                      EventSession[FindingEvent[f]] \notin Affected(D, F, T)}
    /\ stale' = stale \ (Affected(D, F, T) \cup Emptied(D))
    /\ epoch' = [s \in Sessions |->
                   IF s \in Emptied(D) /\ HasRow(s) THEN epoch[s] + 1 ELSE epoch[s]]
    /\ UNCHANGED <<worker, importer, basis>>

(* A session that has occurrences has events, and so a row.                 *)
PrunableSessions == {s \in Sessions : HasRow(s)}

RetentionPrune ==
    \E D \in SUBSET events, F \in SUBSET findings, T \in SUBSET PrunableSessions :
        Prune(D, F, T)

-----------------------------------------------------------------------------
ImporterNext(i) ==
    \/ \E e \in Events : AppendEvent(i, e)
    \/ UpsertSessionScope(i)
    \/ UpsertEventEnrichment(i)
    \/ \E f \in Findings : RecordFinding(i, f)
    \/ MarkFindingSession(i)
    \/ ImporterStop(i)

Read(w) ==
    \/ ReadScope(w)
    \/ ReadEvents(w)
    \/ ReadEnrichments(w)
    \/ ReadFindings(w)

WorkerNext(w) ==
    \/ Start(w)
    \/ Startup(w)
    \/ \E s \in Sessions : StartupMark(w, s)
    \/ StartupDone(w)
    \/ Recovered(w)
    \/ \E s \in Sessions : Claim(w, s)
    \/ Read(w)
    \/ Publish(w)
    \/ Discard(w)
    \/ PublishAnalysisFailure(w)
    \/ Abandon(w)
    \/ Stop(w)

Next ==
    \/ \E i \in Importers : ImporterNext(i)
    \/ \E w \in Workers : WorkerNext(w)
    \/ \E s \in Sessions : RetryDue(s)
    \/ RetentionPrune

Spec == Init /\ [][Next]_vars

(* Local runs until it is stopped and the user starts it again; its mutexes
   do not starve; a retry time passes.  Nothing forces an import, a prune, a
   crash or a one-shot command to happen, or a stopped command to be rerun. *)
Finish(w) ==
    \/ Publish(w)
    \/ worker[w].pc = "publish" /\ Discard(w)
    \/ worker[w].pc = "publish" /\ MustFail(w) /\ PublishAnalysisFailure(w)

Fairness ==
    /\ \A w \in Runtimes :
        /\ WF_vars(Start(w)) /\ SF_vars(Startup(w))
        /\ WF_vars(\E s \in Sessions : StartupMark(w, s))
        /\ WF_vars(StartupDone(w)) /\ WF_vars(Recovered(w))
    /\ \A w \in Workers :
        /\ WF_vars(\E s \in Sessions : Claim(w, s))
        /\ WF_vars(Read(w)) /\ WF_vars(Finish(w))
    /\ \A s \in Sessions : WF_vars(RetryDue(s))
    /\ \A i \in Importers :
        WF_vars(UpsertSessionScope(i) \/ UpsertEventEnrichment(i) \/ MarkFindingSession(i))

FairSpec == Spec /\ Fairness

-----------------------------------------------------------------------------
(* Properties. *)

SettledRow(s) == HasRow(s) /\ dirty[s].state \in Settled

(* A session shown as current was analysed on exactly what is stored: no      *)
(* interleaving of importers, two reconcilers, crashes, restarts and prunes   *)
(* publishes an analysis of outdated inputs.  A finding whose importer has    *)
(* not yet marked the session is the one input that may be missing, and what  *)
(* a claim writes after retention has erased its row is excluded, until the   *)
(* session is marked again: see StaleReconcilerRejected.                      *)
CurrentCoversInputs ==
    \A s \in Sessions \ stale :
        HasRow(s) /\ dirty[s].state = "current" =>
            /\ basis[s].scope = scope[s]
            /\ basis[s].events = OfSession(events, s)
            /\ basis[s].enriched = OfSession(enriched, s)
            /\ basis[s].findings \subseteq FindingsOf(findings, s)
            /\ FindingsOf(findings, s) \ basis[s].findings \subseteq unmarked

(* What docs/design/p0-01 asks of the same compare-and-swap, without the      *)
(* exception: a stale reconciler cannot overwrite a newer generation.         *)
StaleReconcilerRejected ==
    \A s \in Sessions :
        HasRow(s) /\ dirty[s].state = "current" =>
            OfSession(events, s) \subseteq basis[s].events

(* Two processes never analyse the same target of the same queue row at the   *)
(* same time, and the row says claimed while one does: the queue has no lease *)
(* and no owner, only the state and the target of the row.                    *)
SameClaim(w) ==
    /\ worker[w].pc \in Active
    /\ HoldsTarget(w)
    /\ worker[w].epoch = epoch[worker[w].session]

Holder(w) ==
    /\ SameClaim(w)
    /\ worker[w].session \notin stale

ExclusiveClaim ==
    /\ \A w \in Workers : Holder(w) => dirty[worker[w].session].state = "claimed"
    /\ \A v, w \in Workers :
        Holder(v) /\ Holder(w) /\ worker[v].session = worker[w].session => v = w

(* Why the two hold: what has been read through a claim that can still be     *)
(* published is what is stored, although it was read in four queries between  *)
(* which anybody may have written.                                            *)
FromStage == [scope |-> {"events", "enrichments", "findings", "publish"},
              events |-> {"enrichments", "findings", "publish"},
              enriched |-> {"findings", "publish"},
              findings |-> {"publish"}]

Fresh(s, view, pc) ==
    /\ pc \in FromStage.scope => view.scope = scope[s]
    /\ pc \in FromStage.events => view.events = OfSession(events, s)
    /\ pc \in FromStage.enriched /\ ~Oversized(view) =>
         view.enriched = OfSession(enriched, s)
    /\ pc \in FromStage.findings =>
         /\ view.findings \subseteq FindingsOf(findings, s)
         /\ FindingsOf(findings, s) \ view.findings \subseteq unmarked

ReadsFresh ==
    \A w \in Workers : SameClaim(w) =>
        Fresh(worker[w].session, worker[w].view, worker[w].pc)

(* ... because a row exists as soon as there is an input, no input changes    *)
(* without a new target, and targets only grow while the row exists.          *)
InputsHaveRow ==
    /\ \A e \in events : HasRow(EventSession[e])
    /\ \A s \in Sessions : scope[s] # NoScope => HasRow(s)
    /\ enriched \subseteq events
    /\ \A f \in findings : FindingEvent[f] \in events

ClaimsBounded ==
    \A w \in Workers : worker[w].pc \in Active =>
        LET s == worker[w].session
        IN  /\ worker[w].epoch <= epoch[s]
            /\ worker[w].epoch = epoch[s] =>
                 HasRow(s) /\ worker[w].target <= dirty[s].target

QueueInv ==
    /\ InputsHaveRow
    /\ ClaimsBounded
    /\ ReadsFresh
    /\ CurrentCoversInputs
    /\ ExclusiveClaim

(* Once the environment is quiet every session that still has events ends up  *)
(* analysed, whatever crashed before; a session whose analysis always fails   *)
(* keeps being retried and does not hold the others back.                     *)
Converged ==
    \A s \in Sessions \ Poisoned :
        OfSession(events, s) # {} => SettledRow(s)

EventuallyConverged == <>[]Converged
=============================================================================
