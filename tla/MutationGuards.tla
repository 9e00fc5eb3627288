---------------------------- MODULE MutationGuards ----------------------------
(***************************************************************************)
(* The guards of the local store: temporary triggers, which belong to a      *)
(* connection and not to the file, refuse a change of a guarded table unless *)
(* a temporary table of the connection holds a purpose that may make it.     *)
(* Modelled are the opening of a store of an earlier version by several      *)
(* processes, which migrates it, connections lost and made anew at any step, *)
(* and the transactions of the code, for one row of one guarded table, the   *)
(* subject, whichever that is.  Transactions are exclusive (_txlock), and a  *)
(* process has one connection at a time.                                     *)
(***************************************************************************)
EXTENDS Naturals, FiniteSets, FiniteSetsExt, TLC

CONSTANTS Openers,
          Subjects,   \* the tables that the subject is one of
          Oldest,     \* the version a store that is opened has at least
          Stranger,   \* a purpose asked for whatever the subject
          Nested,     \* the number of purposes a transaction holds at most
          NoRow

ASSUME VersionAssumption == Oldest \in Nat

VARIABLES subject, version, row, conn

(* version: the last migration applied.  row: what is committed of the row.   *)
(* conn: what a process has: whether the guards of the subject are installed, *)
(* the row its transaction sees, and "asked",                                *)
(* the purposes the transaction has named, kept for the properties.           *)
guardVars == <<subject, version, row, conn>>

-----------------------------------------------------------------------------
Free == {"unguarded"}
Guard(insert, update, delete) == [insert |-> insert, update |-> update, delete |-> delete]
AppendOnly(insert) == Guard({insert}, {}, {})
All(tables, guard) == [t \in tables |-> guard]

Rebuilds == {"projection_rebuild", "retention_prune"}
Transcripts == {"transcript_ingestion", "transcript_retention"}

CanonicalGuards ==
    All({"events", "findings"}, Guard(Free, {"payload_upgrade"}, {"retention_prune"})) @@
    All({"issue_occurrences"}, Guard(Free, Rebuilds \cup {"payload_upgrade"}, Rebuilds)) @@
    All({"session_analysis_revisions", "analysis_diagnostics"}, Guard(Free, Rebuilds, Rebuilds))

TranscriptGuards ==
    All({"transcript_turns", "transcript_sessions"}, Guard(Free, Transcripts, Transcripts))

CostIssueGuards ==
    All({"cost_issues", "correction_candidates", "project_issue_cost_totals"},
        Guard({"cost_issue_analysis"}, {"cost_issue_analysis"},
              {"cost_issue_analysis", "retention_prune"})) @@
    All({"transcript_project_analysis_state"},
        Guard(Transcripts, Transcripts \cup {"cost_issue_analysis"}, {}))

InsightGuards ==
    All({"insights"}, Guard({"semantic_insight"}, {"semantic_insight"},
                            {"semantic_insight", "retention_prune"})) @@
    All({"cost_issue_fixes"}, Guard({"cost_issue_fix"}, {"cost_issue_fix"}, {"retention_prune"}))

CandidateGuards ==
    All({"experience_candidates"}, AppendOnly("experience_candidate")) @@
    All({"experience_semantic_proposals", "experience_semantic_decisions"},
        AppendOnly("experience_semantic_proposal")) @@
    All({"experience_review_actions"}, AppendOnly("experience_review_action"))

RegistryGuards ==
    All({"experiences"}, Guard({"experience_registry"}, {"experience_registry"}, {})) @@
    All({"experience_transitions", "experience_evidence"}, AppendOnly("experience_registry")) @@
    All({"trajectory_edges"}, AppendOnly("trajectory")) @@
    All({"outcome_observations"}, AppendOnly("outcome"))

ApplicationGuards ==
    All({"experience_applications"},
        Guard({"experience_application"}, {"experience_application"}, {})) @@
    All({"experience_generations"},
        Guard({"experience_generation"}, {"experience_generation"}, {}))

PackGuards ==
    All({"mission_pack_previews"},
        Guard({"mission_pack_preview"}, {}, {"mission_pack_preview"})) @@
    All({"mission_pack_receipts", "mission_pack_receipt_applications"},
        Guard({"mission_pack_receipt"}, {"mission_pack_receipt"}, {}))

DerivationGuards ==
    All({"trajectory_derivation_state"},
        Guard({"trajectory_derivation"}, {"trajectory_derivation"},
              {"transcript_retention", "retention_prune"}))

ImpactGuards == All({"experience_impact_observations"}, AppendOnly("experience_impact"))

FixGuards == All({"fix_annotations", "fix_annotation_retractions"}, Guard(Free, {}, {}))

RecurrenceGuards ==
    All({"fix_monitoring_subjects", "fix_recurrence_observations"}, Guard(Free, {}, {})) @@
    All({"session_analysis_capabilities"}, Guard(Free, {}, Rebuilds)) @@
    All({"fix_recurrence_jobs"}, Guard(Free, {"recurrence_worker"}, {"retention_prune"})) @@
    All({"fix_recurrence_job_events", "fix_recurrence_observation_events"},
        Guard(Free, {}, {"retention_prune"})) @@
    All({"fix_monitoring_metadata"}, Guard(Free, {"recurrence_worker"}, Free))

SummaryGuards ==
    All({"issue_summary_revisions", "issue_analysis_coverage_revisions"},
        Guard(Free, Rebuilds, Rebuilds)) @@
    All({"issue_summary_harnesses", "issue_summary_sessions", "issue_projection_generation_times"},
        Guard(Free, {}, Rebuilds)) @@
    All({"issue_summary_metadata"}, Guard(Free, Rebuilds, {}))

(* What is installed together, and is when all of its tables are there.      *)
ExperienceGuards == CandidateGuards @@ RegistryGuards @@ ApplicationGuards @@ PackGuards
GuardsOf ==
    ("canonical" :> CanonicalGuards) @@ ("fix" :> FixGuards) @@
    ("recurrence" :> RecurrenceGuards) @@ ("summary" :> SummaryGuards) @@
    ("transcript" :> TranscriptGuards) @@ ("cost" :> CostIssueGuards) @@
    ("insight" :> InsightGuards) @@ ("experience" :> ExperienceGuards) @@
    ("impact" :> ImpactGuards) @@ ("derivation" :> DerivationGuards)
Groups == DOMAIN GuardsOf
Tables == UNION {DOMAIN GuardsOf[g] : g \in Groups}
GroupOf(t) == CHOOSE g \in Groups : t \in DOMAIN GuardsOf[g]

(* The tables with columns that an update may never change.                  *)
Fixed == {"experiences", "experience_applications", "mission_pack_receipt_applications",
          "trajectory_derivation_state"}

(* The migration that creates a table.                                       *)
Since ==
    All({"events", "findings"}, 1) @@
    All({"issue_occurrences", "session_analysis_revisions", "analysis_diagnostics"}, 5) @@
    All(DOMAIN FixGuards, 10) @@ All(DOMAIN RecurrenceGuards, 11) @@ All(DOMAIN SummaryGuards, 12) @@
    All(DOMAIN TranscriptGuards, 14) @@ All({"project_issue_cost_totals"}, 25) @@
    All(DOMAIN CostIssueGuards, 15) @@ All(DOMAIN InsightGuards, 16) @@
    All({"experience_semantic_proposals"}, 19) @@ All({"experience_semantic_decisions"}, 20) @@
    All({"mission_pack_previews"}, 21) @@ All({"experience_review_actions"}, 22) @@
    All({"mission_pack_receipt_applications"}, 23) @@
    All(DOMAIN ExperienceGuards, 17) @@
    All(DOMAIN DerivationGuards, 18) @@ All(DOMAIN ImpactGuards, 24)
Latest == 25

-----------------------------------------------------------------------------
(* What migrations 6, 9, 12, 15 and 25 write of a guarded table, what the    *)
(* resumption of 11, 12 and 13 does, and the sealing of plaintext payloads.  *)
Write(at, tables, purposes) == {[at |-> at, table |-> t, purposes |-> purposes] : t \in tables}
Rewrites ==
    Write(6, {"session_analysis_revisions", "issue_occurrences", "analysis_diagnostics"}, {}) \cup
    Write(9, {"issue_occurrences"}, {"projection_rebuild"}) \cup
    Write(25, {"transcript_turns", "transcript_sessions", "transcript_project_analysis_state"},
          {"transcript_ingestion"})
Fills ==
    Write(11, {"fix_monitoring_metadata"}, {}) \cup Write(12, {"issue_summary_metadata"}, {}) \cup
    Write(15, {"transcript_project_analysis_state"}, {})
Resumes ==
    Write(Latest + 1, {"fix_monitoring_metadata"}, {"recurrence_worker"}) \cup
    Write(Latest + 1, {"events"}, {"payload_upgrade"}) \cup
    Write(Latest + 1, {"issue_occurrences", "issue_summary_metadata"}, {"projection_rebuild"}) \cup
    Write(Latest + 2, {"events", "findings", "issue_occurrences"}, {"payload_upgrade"})
Discards ==
    Write(Latest + 1, DOMAIN SummaryGuards \ {"issue_summary_metadata"}, {"projection_rebuild"})

(* A group is ready when all of its tables are there, and none is without    *)
(* the canonical ones.                                                       *)
Ready(group) ==
    Max({Since[t] : t \in DOMAIN GuardsOf["canonical"] \cup DOMAIN GuardsOf[group]})
Subject(t) ==
    LET Of(writes) == {w \in writes : w.table = t}
    IN  [guard |-> GuardsOf[GroupOf(t)][t], ready |-> Ready(GroupOf(t)), since |-> Since[t],
         fixed |-> t \in Fixed, rewrites |-> Of(Rewrites), fills |-> Of(Fills),
         resumes |-> Of(Resumes), discards |-> Of(Discards)]

At(writes, at) == {w \in writes : w.at = at}
(* The purposes that the writes of a migration name.                         *)
NamedFor(x, at) == UNION {w.purposes : w \in At(x.rewrites \cup x.resumes \cup x.discards, at)}
Allows(guard, purposes, statement) == guard[statement] = Free \/ guard[statement] \cap purposes # {}

(* What the code of a migration counts on: of a store that may be opened, the *)
(* guards that are there before it let it write.                             *)
Guarded(x, at) == at > x.ready /\ at > Oldest
Consistent(x) ==
    LET Let(w, statement) == Allows(x.guard, NamedFor(x, w.at), statement)
    IN  /\ x.ready \in 0 .. Latest /\ x.fixed \in BOOLEAN /\ IsFiniteSet(x.rewrites)
        /\ \A w \in x.rewrites \cup x.fills : w.at \in Nat
        /\ \A w \in x.rewrites : Guarded(x, w.at) => Let(w, "update")
        /\ \A w \in x.fills : Guarded(x, w.at) => Let(w, "insert")
        /\ \A w \in x.resumes : Let(w, "update")
        /\ \A w \in x.discards : Let(w, "delete")
ASSUME TablesAssumption == Subjects \subseteq Tables /\ \A t \in Tables : Consistent(Subject(t))

-----------------------------------------------------------------------------
(* The guards that a new connection gets.                                    *)
Hook == version >= subject.ready

Closed == [phase |-> "closed", next |-> 0, guarded |-> FALSE, purposes |-> {}, before |-> {},
           sees |-> NoRow, asked |-> {}]
Reconnected(o) == [conn[o] EXCEPT !.guarded = Hook, !.purposes = {}, !.asked = {}]

(* The trigger of a statement on the subject lets it pass.                   *)
Lets(guarded, purposes, statement) == guarded => Allows(subject.guard, purposes, statement)
(* With recursive triggers, a REPLACE also has to pass the guard of DELETE.  *)
Passes(guarded, purposes, old, new) ==
    \/ old = NoRow /\ Lets(guarded, purposes, "insert")
    \/ new = NoRow /\ Lets(guarded, purposes, "delete")
    \/ /\ NoRow \notin {old, new}
       /\ \/ /\ Lets(guarded, purposes, "update")
             /\ subject.fixed /\ guarded => old.identity = new.identity
          \/ Lets(guarded, purposes, "insert") /\ Lets(guarded, purposes, "delete")

(* The number of migrations up to v that have rewritten a row of the subject. *)
Form(v) == Cardinality({w \in subject.rewrites : w.at <= v})
NewRow(identity, v) == [identity |-> identity, content |-> 1, form |-> Form(v)]
Changed(r) == IF subject.fixed THEN [r EXCEPT !.content = 3 - @] ELSE [r EXCEPT !.identity = 3 - @]

Purposes ==
    {Stranger} \cup ((UNION {subject.guard[s] : s \in {"insert", "update", "delete"}}) \ Free)
Phases == {"closed", "migrating", "resume", "install", "seal", "open", "transaction", "refused"}
Rows == [identity : 1 .. 2, content : 1 .. 2, form : Nat]
Connection ==
    [phase : Phases, next : 0 .. Latest, guarded : BOOLEAN, purposes : SUBSET Purposes,
     before : SUBSET Purposes, sees : Rows \cup {NoRow}, asked : SUBSET Purposes]
GuardTypeOK ==
    /\ subject \in {Subject(t) : t \in Subjects} /\ version \in Oldest .. Latest
    /\ row \in Rows \cup {NoRow} /\ conn \in [Openers -> Connection]
ASSUME NoRowAssumption == NoRow \notin Rows

GuardInit ==
    /\ subject \in {Subject(t) : t \in Subjects} /\ version \in Oldest .. Latest
    /\ row \in {NoRow} \cup (IF subject.since <= version THEN {NewRow(1, version)} ELSE {})
    /\ conn = [o \in Openers |-> Closed]

-----------------------------------------------------------------------------
In(o, phase) == conn[o].phase = phase
Unlocked == \A o \in Openers : ~ In(o, "transaction")
Fail(o) == conn' = [conn EXCEPT ![o] = Closed]

(* sql.Open and Ping: the first connection.                                  *)
Connect(o) ==
    /\ In(o, "closed")
    /\ conn' = [conn EXCEPT ![o] = [Closed EXCEPT !.phase = "migrating", !.guarded = Hook]]
    /\ UNCHANGED <<subject, version, row>>

(* The next migration that is not applied, read before its transaction.      *)
CheckMigration(o) ==
    /\ In(o, "migrating") /\ conn[o].next = 0 /\ Unlocked
    /\ conn' = IF version < Latest
               THEN [conn EXCEPT ![o].next = version + 1]
               ELSE [conn EXCEPT ![o].phase = "resume"]
    /\ UNCHANGED <<subject, version, row>>

(* It fails on the row of schema_migrations if another process was faster,    *)
(* whether or not a guard stops it before; what it did is rolled back.        *)
Migrated(v) ==
    IF row = NoRow
    THEN IF At(subject.fills, v) # {} THEN {NewRow(1, v), NoRow} ELSE {NoRow}
    ELSE {[row EXCEPT !.form = @ + Cardinality(At(subject.rewrites, v))]}
Named(at) == NamedFor(subject, at)
ApplyMigration(o) ==
    /\ In(o, "migrating") /\ conn[o].next # 0 /\ Unlocked
    /\ LET v == conn[o].next
       IN  IF version >= v
           THEN Fail(o) /\ UNCHANGED <<version, row>>
           ELSE \E new \in Migrated(v) :
                  IF new # row /\ ~ Passes(conn[o].guarded, Named(v), row, new)
                  THEN /\ conn' = [conn EXCEPT ![o].phase = "refused"]
                       /\ UNCHANGED <<version, row>>
                  ELSE /\ row' = new /\ version' = v
                       /\ conn' = [conn EXCEPT ![o].next = 0]
    /\ UNCHANGED subject

(* resumeFixRecurrenceMigration and resumeValueFirstMigration, if they have   *)
(* anything left to do; then installMutationGuards.                           *)
Upgrade(o, phase, at, then) ==
    /\ In(o, phase) /\ Unlocked
    /\ \E new \in {row} \cup (IF row # NoRow /\ At(subject.resumes, at) # {} THEN {Changed(row)} ELSE {})
                 \cup (IF At(subject.discards, at) # {} THEN {NoRow} ELSE {}) :
         IF new # row /\ ~ Passes(conn[o].guarded, Named(at), row, new)
         THEN conn' = [conn EXCEPT ![o].phase = "refused"] /\ UNCHANGED row
         ELSE row' = new /\ conn' = [conn EXCEPT ![o].phase = then]
    /\ UNCHANGED <<subject, version>>
Resume(o) == Upgrade(o, "resume", Latest + 1, "install")
Install(o) ==
    /\ In(o, "install")
    /\ conn' = [conn EXCEPT ![o].phase = "seal", ![o].guarded = TRUE, ![o].purposes = {}]
    /\ UNCHANGED <<subject, version, row>>
Seal(o) == Upgrade(o, "seal", Latest + 2, "open")

-----------------------------------------------------------------------------
Begin(o) ==
    /\ In(o, "open") /\ Unlocked
    /\ conn' = [conn EXCEPT ![o].phase = "transaction", ![o].sees = row,
                            ![o].before = conn[o].purposes, ![o].asked = {}]
    /\ UNCHANGED <<subject, version, row>>

\* Mutant: a rollback leaves the authorization of the connection as it is.
RolledBackKeeping(o) ==
    [conn[o] EXCEPT !.phase = "open", !.before = {}, !.sees = NoRow, !.asked = {}]

(* What a rollback leaves: the temporary table is part of the transaction.   *)
RolledBack(o) ==
    [conn[o] EXCEPT !.phase = "open", !.purposes = conn[o].before, !.before = {}, !.sees = NoRow,
                    !.asked = {}]

(* withMutationTx inserts its purpose; it fails if it is there already, and   *)
(* so does the transaction of the caller.                                     *)
Authorize(o, purpose) ==
    /\ In(o, "transaction") /\ Cardinality(conn[o].purposes) < Nested
    /\ conn' = [conn EXCEPT ![o] =
                  IF purpose \in @.purposes THEN RolledBack(o)
                  ELSE [conn[o] EXCEPT !.purposes = @ \cup {purpose},
                                       !.asked = @ \cup {purpose}]]
    /\ UNCHANGED <<subject, version, row>>

(* Any statement on the row: refused, it takes the transaction with it.       *)
Execute(o) ==
    /\ In(o, "transaction")
    /\ LET old == conn[o].sees
       IN \E new \in {NoRow, NewRow(1, Latest), NewRow(2, Latest)} \cup
                     (IF old = NoRow THEN {} ELSE {Changed(old)}) :
            /\ new # old
            /\ conn' = [conn EXCEPT ![o] =
                          IF Passes(@.guarded, @.purposes, old, new)
                          THEN [@ EXCEPT !.sees = new] ELSE RolledBack(o)]
    /\ UNCHANGED <<subject, version, row>>

(* withMutationTx deletes its purpose, also when its operation failed.        *)
Clear(o, purpose) ==
    /\ In(o, "transaction") /\ purpose \in conn[o].purposes
    /\ conn' = [conn EXCEPT ![o].purposes = @ \ {purpose}]
    /\ UNCHANGED <<subject, version, row>>

Commit(o) ==
    /\ In(o, "transaction") /\ conn[o].purposes = conn[o].before
    /\ row' = conn[o].sees
    /\ conn' = [conn EXCEPT ![o] = [@ EXCEPT !.phase = "open", !.before = {}, !.sees = NoRow,
                                              !.asked = {}]]
    /\ UNCHANGED <<subject, version>>

Rollback(o) ==
    /\ In(o, "transaction")
    /\ conn' = [conn EXCEPT ![o] = RolledBack(o)]
    /\ UNCHANGED <<subject, version, row>>

(* The pool drops a connection, and makes another one for the next statement; *)
(* the transaction that was under way is lost.                                *)
Lose(o) ==
    /\ conn[o].phase \in {"migrating", "resume", "install", "seal", "open", "transaction"}
    /\ conn' = [conn EXCEPT ![o] =
                  IF @.phase = "transaction"
                  THEN [Reconnected(o) EXCEPT !.phase = "open", !.before = {}, !.sees = NoRow]
                  ELSE Reconnected(o)]
    /\ UNCHANGED <<subject, version, row>>

Crash(o) == conn[o] # Closed /\ Fail(o) /\ UNCHANGED <<subject, version, row>>

GuardNext ==
    \E o \in Openers :
        \/ Connect(o) \/ CheckMigration(o) \/ ApplyMigration(o)
        \/ Resume(o) \/ Install(o) \/ Seal(o)
        \/ Begin(o) \/ Execute(o) \/ Commit(o) \/ Rollback(o)
        \/ \E purpose \in Purposes : Authorize(o, purpose) \/ Clear(o, purpose)
        \/ Lose(o) \/ Crash(o)

GuardSpec == GuardInit /\ [][GuardNext]_guardVars

-----------------------------------------------------------------------------
(* What a process commits to a guarded table it has named a purpose for that  *)
(* may change it so, whatever happened to its connection or to an earlier     *)
(* transaction; and what a table keeps for good stays.                        *)
ChangesNamed ==
    [][\A o \in Openers : In(o, "transaction") /\ row' # row =>
          Passes(TRUE, conn[o].asked, row, row')]_guardVars

(* A store is brought to the latest version with every row rewritten by each *)
(* migration once, whichever process applies it, and no migration is refused *)
(* by guards that an earlier opening or another connection has installed.    *)
UpgradesPass ==
    /\ \A o \in Openers : ~ In(o, "refused")
    /\ row # NoRow => row.form = Form(version)

GuardsHold == []UpgradesPass /\ ChangesNamed
=============================================================================
