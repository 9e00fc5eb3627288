# Belay Local in TLA+

This directory models Belay Local (`src/internal`, `src/cmd/belay`): a program
that collects the activity of coding agents on one machine, analyses it, turns
what it learns into guidance and serves all of it to a browser, a command line
and MCP clients. The specifications are translated from the Go and SQL code; the
design documents are only used to state what the code is expected to do.

## 1. The system

Every `belay` command opens the same SQLite file, and several of them run at the
same time (`belay local`, `belay mcp`, one-shot imports and scans). They meet in
the store, in a few files beside it (cursors, a lease, a manifest, a lock) and
in the system keychain. Each `Store` method that writes is one `BEGIN IMMEDIATE`
transaction; locks in memory (`reconciler.go`, `recurrence_worker.go`) only
serialise what runs on one `Store` value.

| Component | State | Operations | Hard behaviour | What makes it correct |
|---|---|---|---|---|
| Live spool tailer (`localapp/tailer.go`) | cursor file | import a batch, then save the cursor | a crash between the two, rotation, truncation, half written lines | every complete line is imported |
| Transcript acquisition (`localapp/transcript.go`, `acquisition/transcript`) | cursors with the parser's carried state; transcript tables | plan, read a chunk, append, save the cursor, finalise | poll and scan read one file that grows and is replaced; groups take turns | what a cursor passed is stored; complete means all turns; every group has its turn |
| Transcript issue analysis (`issue_analysis.go`, `cost_issue_repository.go`) | dirty projects with a generation | list, load, publish by compare-and-swap | sessions move between projects meanwhile; unreadable projects | a current analysis fits its transcripts; all get analysed |
| Event import (`pipeline/importer.go`, `analysis/enrichment.go`, `storage/local/store.go`) | `events`, `findings`, `session_scopes`, `event_enrichments` | append, enrich, record a finding; each raises the target of the session | a record is several transactions; a crash falls between any two; records are delivered again | no input is stored without a new target, except a finding for the time of one transaction |
| Analysis queue (`storage/local/projection.go`) | `dirty_sessions` | mark, claim, acknowledge, fail, retry | no lease and no owner: only a state and a target | a current session was analysed on the stored inputs; claims are exclusive; everything is analysed in the end |
| Reconciler (`analysis/reconciler.go`) | what it has claimed and read, in memory | `Startup`, `Drain` | four separate reads before the write; stops, deadlines, failing queries, a second reconciler on another store | what it publishes is not outdated |
| Projection generations (`projection.go`, migration 005) | `session_analysis_revisions`, `issue_occurrences`, `issue_projection_metadata` | close the open versions and insert new ones with every mark, publication and failure | readers page through an old generation meanwhile | a retained generation never changes; the queue and the published status agree |
| Issue summaries (`issue_summary_projection.go`, migrations 12 and 13) | summary rows, cursors, build progress | refresh with every publication; build and repair in batches; page | upgrades and repairs that stop, publications and prunes beside them | a summary is what the occurrences add up to; a cursor shows one snapshot; a store opens |
| Retention (`retention.go`) | all of the above | `Prune` | deletes inputs, occurrences, revisions and queue rows while reconcilers hold claims and readers hold cursors | no issue without its evidence; cursors are refused when rows under them went |
| Recurrence jobs (`recurrence_jobs.go`, `recurrence_worker.go`) | `fix_recurrence_jobs`, `_job_events`, `_observations`, `fix_annotations`, `_retractions` | enqueue with a publication, claim under a lease, batch, fail, retry; record and retract annotations | leases that expire under a slow worker, late batches, batches that fail half way, retractions during a batch | no evaluation is skipped, done by a stale worker or lost |
| Monitored-fix pages (`readmodel/fix_monitoring.go`, `recurrence_repository.go`) | a cursor with its snapshot | select, classify, list and count under a snapshot | imports, comparisons, scope changes, retractions and prunes between two pages | the pages of a snapshot are pages of one list; complete coverage is complete |
| Fix-monitoring readiness (`recurrence_jobs.go`, `cmd/belay/local.go`) | `fix_monitoring_metadata`, progress rows | prepare, complete, fail the catch-up | two processes, a failure after a completion, stops | ready only after the old analyses were made anew, and ready in the end |
| Recovery runtime (`cmd/belay/local.go`, `localapp/runtime.go`) | phase of the loop | `Startup` until it succeeds, then `Recover` every two seconds; one-shot drains under a deadline | restarts, contexts that end | what a crash leaves behind is taken up again |
| Intelligence lease (`intelligence_lease*.go`, `intelligence_runtime.go`) | a locked file | acquire, run the owner, release, inspect | hand-over among processes, failing workers, interruptions | the workers of two processes never run together; work resumes |
| Trajectories and evaluations (`trajectory_analysis.go`, `experience_evaluation.go`) | derivations by input fingerprint, evaluations of applications | list what is stale, derive, evaluate | turns are imported between the reads and the writes; one always fails | an application is evaluated on all of its session |
| Candidates (`trajectory/derive`, `experience/candidatecompiler`, `experience_candidates.go`) | edges and outcomes of a session, candidates by content | derive a session, compile a project, store the candidates | sessions that go on, answers that come late or out of order, reused call ids, a configuration that changes | a derivation is what follows from its inputs; compiling again never contradicts what is stored |
| Experience registry (`experience_*`) | proposals, reviews, approvals, lifecycle transitions, generations | propose, approve, defer, reject, activate, pause, compile | tokens prepared on one state and used on another; compilation fails after the transition | an approval passes over no decision; a token acts once; the generation keeps up |
| Semantic proposals (`experience_semantic_analysis.go`, `experience_semantic_repository.go`) | decisions and proposals of an agent | choose a batch, ask the agent, check and store its answer | the agent answers anything, late; two analysers on one project; quotes from texts that were rewritten for the prompt | what is stored quotes its evidence, all of it or none; success means that everything was decided |
| Verdicts (`experience/evaluate`, `experience_evaluation.go`) | one evaluation for an application | read session, turns and events, draw facts, judge | turns arrive between the reads; call ids that come twice; limits on facts and evidence | a verdict is true of the turns it was drawn from |
| Mission packs (`mission_pack_*`, `missionpack/build.go`) | previews, receipts, applications | select and build, preview, accept, bind, resolve, expire | stale previews, rounds that stop or fail, two packs for one session, texts over the budget | what a pack claims is in its evidence; applications come from a receipt and its session; receipts settle |
| Project insights (`semantic_analysis.go`, `mission_pack_repository.go`) | one insight per project | load, ask the agent for minutes, replace | new analyses are published meanwhile, two agents work on one project | an insight keeps to what the agent was shown, and a later run replaces it |
| Detectors of transcripts (`detection/transcriptissues`) | the last report of a project | detect over all sessions, group, add up costs | sessions grow, failures end in a success later, windows and thresholds | an issue stays until what was imported refutes it; costs are not counted twice |
| Mutation guards (`mutation.go`, `migrate.go`, `store.go`) | temporary triggers and purposes of a connection, the schema version | migrate, install the guards, run a guarded transaction | triggers are lost with a connection; several processes migrate one store; migrations must pass the guards of earlier ones | no migration is refused; no guarded row changes without its purpose |
| Store encryption (`lifecycle.go`, `keychain.go`) | store id, key check, `plaintext_cleanup_required` | create the key, encrypt, clean up | two processes creating a key; a crash before the clean-up | one key opens all; an open store has no plaintext |
| Agent registration (`mcp_config.go`, `mcp_config_manifest.go`) | manifest, lock; the agent's own configuration | install, uninstall, status | the agent's command line has no conditional change; edits by the user, failing commands | the user's entry is left alone; reports are true |
| HTTP and MCP, Numbat subprocess, event detectors, canonical model, application shell, evaluation tools | – | – | pure, external or sequential | see section 6 and PROJECT.json |

Interaction. The tailer and the importers write inputs and mark the session in
the queue. Reconcilers claim a session, read its inputs, and publish: in one
transaction the queue row is acknowledged, the versions of the session are closed
and replaced, the summaries refreshed, the generation advances and a recurrence
job is enqueued. Recurrence workers compare the publication with the user's fix
annotations, and the pages of monitored fixes show what they found; the readiness
row says when this has caught up with an old store.
Acquisition writes transcripts, which mark their project for the issue analysis
and their session for trajectory derivation. An agent that `belay analyze` runs
turns issues and corrections into the insight of a project and compiled
candidates into proposals; a proposal is approved and activated by the user,
compiled into a generation, and delivered in mission packs whose effect is
evaluated. The lease decides which
process runs these loops. Retention deletes from all of the event tables.

## 2. Modules

| Module | Models |
|---|---|
| `AnalysisQueue` | importers, reconcilers, the queue and retention |
| `ProjectionHistory` | extends `AnalysisQueue` with the versioned tables that the same transactions write |
| `MonitoringView` | the pages of monitored fixes, computed from the store beside its writers |
| `RecurrenceLedger` | what recurrence monitoring promises, without jobs, leases or cursors |
| `RecurrenceJobs` | jobs, claims, leases, batches; refines `RecurrenceLedger` |
| `FixMonitoring` | the readiness of fix monitoring |
| `LiveTail` | the spool, its rotation, and the tailers |
| `CodexTranscript` | the parser of a Codex transcript: its carried state, one record at a time |
| `TranscriptStore` | what the transactions on sessions, turns and projects do |
| `TranscriptImport` | extends `TranscriptStore` with the poll and the scan, on `CodexTranscript` |
| `IssueAnalysis` | extends `TranscriptStore` with the analysers of dirty projects |
| `Detectors` | the detectors of transcripts, and the grouping and the cost of what they find |
| `IntelligenceLease` | the lease and the loops that run under it |
| `Trajectory` | the derivation of edges and outcomes from the turns and events of a session |
| `ProcedureCandidates` | extends `Trajectory` with the compilation of verified procedures and their storage |
| `Selection` | how the code picks: sorted by several keys, one of a kind, up to a limit |
| `SemanticProposals` | extends `Selection` with the decisions of an agent on candidates |
| `PackBuild` | extends `Selection` with what goes into a mission pack |
| `ProjectInsight` | extends `PackBuild` with the insight an agent writes and the packs made with it |
| `Verdict` | extends `Selection` with the evaluation of an application |
| `ExperienceReview` | the decisions on proposals |
| `ExperienceLifecycle` | transitions under tokens and the compiled generations |
| `MissionPack` | previews, receipts and applications |
| `ApplicationEvaluation` | the derivation of trajectories and the queue of evaluations |
| `MutationGuards` | the migrations, the guards of a connection and the guarded transactions |
| `StoreKey` | the opening of the store: identity, key, encryption, clean-up |
| `McpConfig` | the registration with an agent |
| `IssueSummary` | the materialised summaries, their build, repair and cursors |
| `AnalysisQueue_proofs`, `ProjectionHistory_proofs`, `RecurrenceJobs_proofs`, `Readiness_proofs`, `Acquisition_proofs`, `Experience_proofs`, `MutationGuards_proofs`, `Setup_proofs` | the theorems of section 4; `Experience_proofs` is about `ExperienceReview`, `ExperienceLifecycle` and `MissionPack`, `Acquisition_proofs` about `IntelligenceLease`, `IssueAnalysis` and `LiveTail`, `Readiness_proofs` about `FixMonitoring` and `IssueSummary`, `Setup_proofs` about `StoreKey` and `McpConfig` |
| `MCAnalysisQueue`, `MCRecurrenceJobs` | instances of one module |
| `MCProjectionHistory` | instances of `ProjectionHistory` and `MonitoringView`; `part` names which |
| `MCAcquisition` | extends `IntelligenceLease`, `IssueAnalysis` and `LiveTail`; instances of `TranscriptImport`, `ProcedureCandidates` |
| `MCGuidance` | extends `ExperienceReview`, `ExperienceLifecycle`, `MissionPack`, `StoreKey`, `FixMonitoring`, `McpConfig`, `IssueSummary`; instances of `ApplicationEvaluation`, and further ones of `ExperienceLifecycle`, `MissionPack`, `McpConfig` and `IssueSummary` |
| `MCEvidence` | extends `MutationGuards`; instances of `AnalysisQueue`, `ProjectInsight`, `SemanticProposals`, `Verdict`, `Detectors` |

Modules that run in one MC module share no state. The variable `scope` (`part`)
names the instance a behaviour belongs to, the other variables rest, and one run
of TLC explores the behaviours of each instance, not their product. A module
whose theorems state a property of a run is extended by the MC module, so that
the run checks the definition that the theorem names, and its assumptions.

### How state and actions correspond to the code

*One transaction, one action.* Everything a transaction does is one action:
`AppendEvent` stores the event and marks its session; `Prune` marks the affected
sessions, deletes, and only then drops the rows of emptied sessions, as
`retention.go` does. What a goroutine does between two transactions is a step of
its program counter: `worker[w].pc` goes through `scope`, `events`,
`enrichments`, `findings`, `publish`, the order of `reconcileSession`, and
`importer[i].pc` through the transactions of one record in `handle`.

*Queue rows.* `dirty[s]` is `NoRow` or `[target, state]`. `target_generation`
is a number because the compare-and-swap needs equality and the proofs need its
growth. `retry_at` is the set `cooling` of sessions whose time has not come,
`updated_at` is the order `older` by which claims are served (`ORDER BY
updated_at`), so that starvation is visible.

*Inputs.* An event, a finding, a project scope are model values. The detector
catalog is the constant set of events it reports (`Signals`) and the sessions it
always fails on (`Poisoned`); `MaxSessionEvents` is its limit and the path past
the limit is kept, because there the enrichments are not read. A finding cites
one event. `NoScope` stands for "no row" and for a row of quality `unscoped`:
both resolve to no project. The reads of events and of findings are paged in the
code; a page boundary is not a step here, the boundary between the queries is.

*Workers.* A worker is an open `Store`. Those in `Runtimes` run the loop of
`runLocalRecovery` (`phase`: before `Startup` has succeeded, in its drain,
after); the others are one-shot drains of scans and imports. `Abandon` is a
caller whose context ends, `Stop` a process that ends. In both the claim stays
in the table.

*Versions.* A revision or occurrence is visible in `[from, until)`, `until =
Open` for the NULL of the open version, and `Close` sets it. `ProjectionHistory`
conjoins every queue action that writes these tables with what the transaction
writes to them; the others leave them unchanged (`Unrecorded`). `Prune` may
select any events, findings and occurrences that the protection of one hour
allows; `Cutoffs` are the generations that may be an hour old. Which records a
policy selects (`evaluateRetention`) is therefore a free choice: what is shown
holds for every policy. In `IssueSummary` the state of the database is one
record `db`, and the helpers a transaction calls take it before a statement and
return it after, in the order of the code.

*Jobs.* `job[j]` is the row of `fix_recurrence_jobs`; `leased` and `cooling`
stand for `lease_expires_at` and `retry_at`. A claim is fenced by generation and
token; both change together, so the model keeps the generation. Whether an
occurrence qualifies as a recurrence of an annotation is the constant `Matches`.

*Files.* In `LiveTail` a spool is a sequence of bytes that belong to lines of a
given size, so that a read may end within a line; device, inode and prefix hash
are the comparison `Recognised` makes. In `TranscriptImport` a file is a
sequence of records and an `identity`; a chunk is a number of bytes, the parser
of `CodexTranscript` carries its state from chunk to chunk as the cursor does,
and a batch is appended in one transaction before the cursor is saved in another.

*Clocks.* Where a deadline or an order of times matters (`ExperienceReview`,
`ExperienceLifecycle`, `MissionPack`, `ApplicationEvaluation`, `IssueSummary`),
time is a variable that only a tick moves, and a step that reads the clock before
its transaction carries the reading, as the code does.

*Learning.* In `Trajectory` a turn is what the derivation reads of it: role, call
id, what it says by class, the files it edits, the command it runs, the status
of a result. A script of batches is a session that is imported while it is
derived; the deriver reads, then stores under the fingerprint of what it read.
`ProcedureCandidates` compiles the episodes of a derived session and stores
candidates under an id that is the hash of their parts, so an id is that tuple.

*Agents that are asked.* In `SemanticProposals` and `ProjectInsight` the agent is
a process that takes as long as it likes and gives any answer of a set: the model
has what the code does before (which candidates, issues and excerpts are shown)
and after (which parts of the answer are kept, rejected or reason to fail the
batch). A text is the set of the phrases that can be quoted from it, and a
phrase with a path is shown in another form than it was recorded.

*Verdicts.* `Verdict` reads the session and its events, then the turns and the
state of the trajectory, in the transactions of the code, with imports between
them. It draws facts from the turns by the rules of
`experience_evaluation.go` and judges them by those of `evaluate.go`; the
property says what the turns themselves show, without facts.

*Detectors and packs* are functions: `Detectors` and `PackBuild` are operators
over turns, issues and evidence, and their modules add the state that makes their
promises interesting, a transcript that grows between two reports and an insight
that is written while new analyses are published.

*Guards.* `MutationGuards` follows one row of one guarded table, the `subject`,
for each of the tables: a table of operators gives the guards of `mutation.go`
and the purposes each migration, resumption and transaction names. A connection
has its triggers and its purposes; both are lost with it, and `withMutationTx`
adds and removes a purpose around a callback, nested where the code nests.

*Monitored fixes.* `MonitoringView` holds the tables that the read model queries
in one record `store`, with one transaction per writer, and a client `reader` that
follows cursors. Both ways in which the code classifies an attempt (in the SQL of
the selection and in Go for a page) are operators (`SeedRank`, `StateRank`), and
so are the coverage and the snapshot checks.

*Processes and their ends.* A process that stops loses what it holds in memory
and the operating system releases its file locks; rows and files stay as they
are. Each module has an action for it where the code survives it.

*History variables* (`epoch`, `basis`, `stale`, `unmarked` of `AnalysisQueue`,
`torn` of `LiveTail`, `spoiled` of `McpConfig`, `reanalyzed` of `FixMonitoring`,
`lost` of `ExperienceLifecycle`, `asked` of `MutationGuards`, the `promise` of the
reader of `MonitoringView`) are read by properties only, apart from two uses:
`PrunableSessions` uses `basis` to know that a session was ever published, and a
claim copies `epoch`.

## 3. Runs

| Run | Instance | Question |
|---|---|---|
| `race` | one session, two events of two projects, a finding, two stores, one importer, one prune, one abandoned drain; from the start with one import and one stop, or from a recovered empty store with two imports | Can two reconcilers, an import and a prune publish an outdated analysis or hold the same claim? |
| `prune` | part `history`: one session, event limit 1, one store, two imports, and either one prune of any selection or one failed analysis; part `view`: two sessions, two issues, pages of one, from eight stores (`MCStarts`) that each allow one kind of mishap | Are retained generations stable, evidence kept, cursors fenced, queue and status in step? Do the pages of monitored fixes agree with each other and with the store? |
| `recurrence` | two analyses, two annotations, two workers, batches of one, one fault, one stop, one early lease expiry | Is any evaluation skipped, repeated by a stale worker, or lost? Do the jobs implement the ledger? |
| `acquisition` | `tail`, `shared`, `many`, `analysis`, `lease`, `learning` (below) | Is everything that agents write imported, completed, analysed and learned from, whoever reads it? |
| `evidence` | `queue`, `insight`, `alone`, `batches`, `verdict`, `detect`, `guards` (below) | Does everything end up analysed? Is what is said of a project, a candidate, an application and a transcript true of the evidence? Do the guards let through what was asked for, and nothing else? |
| `guidance` | `review`, `lifecycle`, `longer`, `slow`, `rivals`, `busy`, `behind`, `store`, `monitoring`, `claude`, `codex`, `reading`, `upgrade`, `repair` (below) | Do decisions, transitions, packs, evaluations, the key, readiness, registration and summaries keep what they promise? |
| `reborn`, `orphan`, `analyzed`, `rotation`, `starved`, `stuck` | as small as shows it | the disagreements of section 5 |

The instances of `acquisition`:

| Scope | Instance | Properties |
|---|---|---|
| `tail` | two tailers, two lines of two and three bytes, batches of three, records of at most two, one rotation or truncation, one trouble | `SpoolSound` (nothing is passed over, only what is too long is put aside), `AllImported` |
| `shared` | one file of five records, replaced once, read by the poll (chunks of one) and a scan (chunks of four), one fault | `CursorsBehindStore` (what is complete has all its turns) |
| `many` | a session of two files and another session, the poll alone, one fault | `CursorsBehindStore`, `AllImported` (what is tailed is completed) |
| `analysis` | two groups, two projects one of which cannot be read, two analysers, lists of two, one stop | `AnalysisCurrent`, `EveryProjectAnalyzed` |
| `lease` | three processes, two workers, three troubles | `WorkersUnderLease`, `WorkTakenUp` |
| `learning` | four sessions, each imported in up to three batches: a procedure that goes on and reuses a call id; a repair that a late answer refutes; a check overtaken by the next; a configuration change with an edit known by its event only; windows of 4, 3 and 6 records | `LearningSound` (a derivation agrees with its inputs, a compilation with what is stored), `EpisodesGrow` |

The instances of `evidence`:

| Scope | Instance | Properties |
|---|---|---|
| `queue` | two sessions, one of which can never be analysed, three events, a finding, event limit 1, one process of Local, one importer; one stop, one failed query, two imports | `EventuallyConverged` |
| `insight` | two analysers with two agents, two imports and two analyses of them, three projects that contain the directory, seven requests; two runs | `PacksHold`, `InsightSound` |
| `alone`, `batches` | three candidates of two projects that each are a batch, and two in one batch; two analysers, quotes that exist only as recorded or only as shown; two runs | `ProposalsSound` (decisions are whole and grounded; success means everything was decided) |
| `verdict` | seven deliveries, one for each kind of verifier and two with conditions, four turns of two or three kinds each, one event, three results and twelve facts at most | `VerdictsHold` |
| `detect` | three sessions in two repositories and a temporary directory, each of two batches of two kinds: retries, errors that come again, edits undone, claims, approvals, corrections, a compaction | `ReportHolds` |
| `guards` | five tables of five kinds, two processes, stores of version 8 and later, transactions of up to two purposes and a purpose of another table | `GuardsHold` |

The instances of `guidance`:

| Scope | Instance | Properties |
|---|---|---|
| `review` | one proposal, tokens good for one tick, deferrals for two, three ticks | `ApprovalRespectsReview` |
| `lifecycle`, `longer` | two experiences for one tick, one for three ticks | `LifecycleSound` (a token acts once, the generation keeps up) |
| `slow`, `rivals` | one task for two ticks, two tasks for one; packs of one experience, two sessions of two turns, rounds of one receipt, one failure or stop | `DeliveriesGrounded`, `DeliveriesSettle` (receipts settle) |
| `busy` | one session of three turns read while it is imported, one mishap | `DeliveriesSettle` (the evaluation catches up) |
| `behind` | two sessions, rounds of two, the first without an evaluation | `DeliveriesSettle` |
| `store` | two openers, two keys, two payloads, each absent or in plaintext at first | `StoreSound` (one key opens all, an open store is clean) |
| `monitoring` | one session of before the migration, two processes, three revisions, two troubles | `LegacyReanalyzed`, `UpgradesEnd` (monitoring converges) |
| `claude`, `codex` | an old and a new binary, two runs, one edit by the user, one trouble; one agent that refuses a duplicate name and one that overwrites | `RegistrationHonest` (the user's entry is kept, reports are true) |
| `reading` | two sessions, four generations, a cursor lifetime of one tick in three, one prune | `SummariesSound` (summaries agree with the occurrences, cursors show one snapshot) |
| `upgrade` | a store without summaries, batches of one, one crash | `UpgradesEnd` (an opening succeeds), `SummariesSound` |
| `repair` | a store whose summaries are behind, batches of two, one prune before | `SummariesSound` |

*Bounds.* Only the environment is bounded: imports (`MaxAppends`), prunes,
stops, failing queries (`MaxFaults`), abandoned drains (`MaxLosses`), early
lease expiries (`MaxDelays`), annotations, ticks (`MaxTime`,
`MaxMinutes`), mishaps of a poll (`MaxSetbacks`), publications
(`MaxGeneration`, `MaxRevision`), turns, edits of the user, runs of a command.
Targets, generations and attempts follow from these and are not cut off. Two
imports are enough for an input to arrive before, between and after the reads of a
claim and to change the scope to `Conflict`; one prune can empty a session, after
which an import re-creates the row; two workers are enough for any pair of claims
on one row, and the queue has no operation that involves three. Event limits of 1
and 2 with two events put both sides of the limit in reach. In `recurrence` two
batches, two claims of one job and two jobs of one occurrence are the cases that
the fence, the cursor and the uniqueness of observations distinguish. In the
other modules a bound of one fault, stop or edit falls at every step, because
every step is an action; two processes give every pair, and the lease has three
because an inspection may stand between two owners. Lifetimes of one or two ticks
put both sides of every deadline in reach. In `MonitoringView` pages of one row
and two attempts put an event of every writer between two pages; that two pages
are served, that a page is refused, that a scope conflicts, that evidence is
pruned and that each rank of the classification occurs was confirmed by asking
TLC for a state in which it does. Limits of the code on lists, windows and
budgets are constants, set so that each is exceeded. The theorems of section 4
remove the bounds for eight modules.

*Deadlock* is not checked: the environment budgets run out and a finished
system rests.

*Fairness.* `FairSpec` assumes of the recovery loops what their code does: they
run until stopped and are started again, poll without end, and a step that needs
no more than the store is eventually taken; a retry time and a lease pass.
`Startup` has strong fairness because the loop calls it again after every
failure. An importer that is not stopped finishes its record. The polls of the
tailer, of acquisition, of the issue analysis, of packs and of evaluations are
tickers under the lease and are weakly fair as a whole; an agent that stops
writing eventually leaves its file alone for the idle time (`GoesIdle`); the
clock of `MissionPack` advances. Nothing forces an import, a prune, a
retraction, a fault, a stop or an act of the user, and a one-shot command that
stopped is not run again. The one exception is an opening of the store in `upgrade`:
a user whose opening fails is assumed to try again.

## 4. Proofs

Each of the eight proof modules proves, for all values of the constants that
satisfy the named assumptions of the component's module, that an inductive
invariant holds and what follows from it. Except where noted, sets of sessions,
processes and the like may be infinite, and no bound is used.

| Module | Theorems | Property of a run |
|---|---|---|
| `AnalysisQueue_proofs` | `TypeCorrect`, `QueueInvariant`, `CurrentIsCurrent`, `ClaimsAreExclusive` | `QueueInv`, `CurrentCoversInputs`, `ExclusiveClaim` |
| `ProjectionHistory_proofs` | `HistoryInvariant`, `QueueAgreesWithStatus`, `EvidenceRetained`, `OneVersion`, `ReadersUndisturbed`, `CursorsFenced` | `QueueMatchesRevision`, `OccurrencesGrounded`, `OneVersionVisible`, `SnapshotStable`, `RetentionFence` |
| `RecurrenceJobs_proofs` | `TypeCorrect`, `NothingSkipped`, `CompletionReachesSnapshot`, `HoldersAreUnique`, `RetractionEndsObservation`, `ProgressIsKept`, `Refinement`, `LedgerAgreesWithJobs` | `NoCandidateSkipped`, `OneHolder`, `RetractionIsFinal`, `ImplementsLedger`, `LedgerAgrees` |
| `Readiness_proofs` | `MonitoringInvariant`, `ReadyMeansReanalyzed`, `SummaryInvariant`, `SummariesAreSound` | `LegacyReanalyzed`, `SummariesSound` |
| `Acquisition_proofs` | `LeaseTyped`, `WorkersRunUnderLease`, `AnalysisInvariant`, `AnalysesAreCurrent`, `SpoolInvariant`, `SpoolIsSound` | `WorkersUnderLease`, `AnalysisCurrent`, `SpoolSound` |
| `Experience_proofs` | `LifecycleInvariant`, `LifecycleIsSound`, `ReviewInvariant`, `ApprovalsRespectReviews`, `DeliveryInvariant`, `DeliveriesAreGrounded` | `LifecycleSound`, `ApprovalRespectsReview`, `DeliveriesGrounded` |
| `Setup_proofs` | `StoreTyped`, `OpenStoresAreSound`, `RegistrationInvariant`, `RegistrationIsHonest` | `StoreSound`, `RegistrationHonest` |
| `MutationGuards_proofs` | `GuardInvariant`, `GuardsAlwaysHold` | `GuardsHold` |

*The queue.* `CurrentCoversInputs` alone is not inductive: a publication makes a
session current with whatever the worker has read. `ReadsFresh` says that what a
worker with a still valid claim has read is what is stored; it is preserved
because no input changes without a new target, which invalidates the claim. That
needs `InputsHaveRow` (a deletion of the last event deletes the row, and a row
exists before any other input does) and `ClaimsBounded` (a claim never names a
target greater than that of its row, so a new target never makes an old claim
valid again). Since retention restarts targets, "still valid" includes that the
row is the one that was claimed: `epoch` counts the deletions of a row. The
proof describes what each action does to one row (kept, marked, erased) and to
the inputs of one session, and shows that each pair of effects preserves the
invariant; `StepEffect` and `JobEffect` state this once for all actions. The
assumptions are the types of the constants and that the absent values (`NoRow`,
`Nothing`, `NoScope`, `Conflict`) are different from the present ones.

*The projection history* extends this argument, and needs finitely many sessions,
because one prune gives every affected session a generation of its own. Its
properties rest on the rows of a session succeeding one another: a transaction
ends the open rows of some sessions, each at a new generation, and new rows begin
there (`Begins`). `HistoryInv` says that rows are dated by generations that were
published (`Dated`) and that two versions of one thing are visible at different
times (`RevisionsApart`, `OccurrencesApart`), beside the two invariants that it
keeps together and `InputsHaveRow` of the queue. `SnapshotStable` and
`RetentionFence` are action properties: what a step closes, it closes after every
generation there is (`ShownAt` of those does not change), and what it deletes moves
the generation of retention.

*The recurrence jobs.* The inductive invariant is `JobsTyped /\ Safe`. `OneHolder`
follows from `ClaimsDiffer` (no two workers hold the same generation of a job),
which is preserved because a claim takes the next generation and `ClaimsWereMade`
bounds all held ones by that of the row. `BatchIsInterval` shows that a batch is
the interval from the cursor to the next cursor and that it counts as the last one
exactly when it ends at the snapshot; with it a batch neither skips a candidate
nor completes early. `JobStep` states once how any step may change the rows
(`Advanced` for those there are, `Fresh` for a new one), and each conjunct of
`Safe` follows from it. For the refinement, a publication owes the annotations of
its snapshot, a batch settles its interval (`BatchSettles`), and `CursorsStand`
shows that no other step moves a cursor, so claims, failures, stops, expiries and
retries are stutters of the ledger. `LedgerAgreesWithJobs` adds that the ledger of
events and the jobs are changed by the same steps. `CompleteIsComplete` and
`ProgressKept` are proved and not listed in the run: `ImplementsLedger` implies
them.

*Readiness.* That a store which is ready has analysed its old sessions anew
is not inductive: readiness is declared by a process that looks at the queue, and
an empty queue means nothing before the old sessions were marked. `MonitoringInv`
adds `MarkedBefore` (a process past marking runs on a marked store), `Owed` (a
marked session that was not analysed anew has work in the queue) and `Room` (the
bound on revisions leaves one for each analysis that is owed, so that the bound
never is the reason for a step that does not happen).

*The summaries.* That ready summaries add up to the occurrences and analyses of
their generation, and that a page shows one snapshot, is not inductive for four
reasons, and `SummaryInv` adds what is needed for each. A transaction refreshes the
summaries of a few issues only: the lemma about it (`TransactionKeeps`) asks that
the aggregate of every other issue is what it was (`Touches`), and each writer has
a lemma that shows it, since what changes of a session is in the issues that it
has or had (`OthersAggregate`, `ReplacementMeans`, `SessionPruned`). A build goes in batches beside publications
that do not refresh anything: `BuildSound` says how far it is as long as its
generation is the current one, each issue being summarised or still wholly ahead of
the cursor, and nothing of a build whose generation has passed. The opening process
carries what it read from one transaction to the next: `BuilderSound` says what
its step implies about the progress that is stored (`ProgressSound`), so that the
build that is declared ready is one that has done all. And a page is
of an older generation: `PageSound` says that what is kept of it is what it was. A
refresh ends rows at a new generation and begins others there, and
a compaction removes what had ended by a generation older than any cursor that is
still accepted, so that rows visible before stay (`Continues`, `SeenTheSame`);
a prune, or the end of a repair, moves the retention or the epoch that a cursor
has to name. The sessions are finitely many, because coverage counts them; the two
issues stand for one of each origin.

*The lease.* A process is past the lease exactly while the lease is its own, and
has workers in one phase only (`OwnersHoldLease`).

*Issue analyses.* The sessions of a project and their turns are read outside a
transaction, one after the other, and published later. `Loaded` says that what an
analyser holds is what the store has as long as the generation it listed is the
last one: the content of a project changes only with its generation, which only
grows (`Moves`), and a listed generation was there when it was listed (`Listed`), so
that one found unchanged at the publication means that nothing was appended or
moved since. The number of projects is finite and the list takes at least one;
generations end at the bound `MaxGeneration`, which no append passes.

*The spool.* That a checkpoint is never past a line that was not stored is not
inductive: it has to be known of what a tailer holds in memory, and a file can be
emptied or replaced under it. `SpoolInv` says that files hold whole lines in
order but for their last bytes, so a line boundary (`Boundary`) determines the
lines before it (`Passed`); that a checkpoint is a boundary, whose lines are stored
or were too long; and that a batch is a piece of its file that begins at the
checkpoint its tailer read, or belongs to a file that was emptied since
(`Emptied`, `BatchSound`). What a batch delivers is therefore what lies between
two boundaries (`PieceOfFile`), whatever the sizes of lines, the limit of a record
and that of a batch. What a file holds after it was emptied is younger
than the prefix of every cursor saved before, so such a cursor is recognised as one
of another file. Files and tailers are as many as one likes; `TailAssumption` gives
the constants their types and has a batch hold more than one record.

*Experiences.* A state of the lifecycle never returns, so what happened to an
experience can be told from its state: `Story` lists the transitions there are,
and from it the state that is rebuilt from the ledger is the state of the
projection. It lags only where a compilation is owed or lost. That a finite set of
decisions has a last one is proved by descent along strict subsets
(`FiniteHasLatest`); with it an approval that was not blocked is one that the
latest decision on its candidate allows. `Rank`, the order of two decisions of one
time, is any function to natural numbers.

*The deliveries.* The poll lists receipts in one transaction, probes in a second
and writes in others. `RoundSound` says that what a round holds is still true when
it is used: a receipt that was listed as bound is bound, because what is bound never
changes (`ResolutionMeans`), and a session that was probed has worked within the
window of the receipt, because turns stay and the time of acceptance does
(`Kept`, `WorkedStands`, `GroundedStands`). So a binding is to a session that
worked (`BindingsWorked`), an application is made of a bound receipt, and a link to
one is only there where the receipt is bound (`LinksBound`), whichever step fails
in between and however often the round starts anew. Packs may name any number of
experiences; in the run they name one, which leaves it to the theorem
that receipts of which some applications are linked are sound.

*The key.* What an opener has read of the store is out of date the moment it is
read. `KeyKept` and `CleanKept` say which of these readings are never undone: a key
check, once there, stays, and a keychain that has lost its key does not get
another; a process past the keychain has the key that is in it and one past the
installation the key of the check; who saw no plaintext will find none. What
encryption leaves behind is gone where the mark of the clean-up is.

*The registration.* A run that may change the entry holds the lock and has read the
manifest under it (`RunLocks`), so no other run changes either in between; and
unless the user has edited since its last look, the entry is what that look showed
(`RunSees`): one of Belay's before a removal, nothing before an addition or a
rollback. That an addition never takes the place of the user's entry is therefore
proved for an agent that overwrites as for one that refuses. The identities are
any values that are not mistaken for an answer of the agent.

*The guards.* `GuardInv` says that every connection is in step with the store: a
process that has migrated finds the latest version, guards come with their tables
and stay, only a transaction has purposes, and the row it sees differs from the
committed one in ways that its purposes allow (`Covered`; `PassesOn` shows that
what two changes were allowed to do, their composition is). That migrations pass
the guards of earlier migrations depends on the tables of purposes, not on
interleavings: `TablesAssumption` states this of the tables, TLC evaluates it for
the code's, and the theorem holds for any tables that satisfy it.

*Only model-checked.* Liveness (`EventuallyConverged`, `EveryJobCompletes`,
`AllImported`, `EveryProjectAnalyzed`, `WorkTakenUp`, `DeliveriesSettle`,
`UpgradesEnd`) needs fairness and ENABLED, which the provers do not support.
`CursorsBehindStore`, `LearningSound`, `EpisodesGrow`, `ProposalsSound`,
`VerdictsHold`, `PacksHold`, `InsightSound`, `ReportHolds` and `MonitoringHolds` are about what a computation over sequences, folds or finite
sets returns; a proof would be an induction over data.

## 5. Where the code and its documents disagree

* `reborn`: a claim survives the deletion of its queue row. `Prune` deletes the
  rows of emptied sessions, the next import inserts the row with target 1, and a
  reconciler that still holds an earlier claim with an equal target publishes
  over it. `CurrentCoversInputs` excludes exactly the sessions this happened to
  (`stale`), until they are marked again.
* `orphan`: a drain whose context ends after its claim leaves the row `claimed`,
  and only `Startup` takes such rows up again.
* `analyzed`: `markSessionDirtyTx` looks up the analysed generation before it
  closes the revision, so a pending revision always records 0.
* `rotation`: the poll takes the candidate group whose oldest cursor was serviced
  first, and an import saves only the cursors of the files that changed. A
  session of two files of which one changes and one rests is taken every time.
* `starved`: the query of applications to evaluate returns the oldest 64, and a
  failing evaluation stores nothing that would make it younger. A replay with
  unchanged material does not advance `evaluated_at` either, and the query of the
  impact has the same shape.
* `stuck`: the repair marks the summaries ready in one transaction and ends in
  another, which requires that the generation has not moved. A publication
  between the two makes every later opening fail, because the steps that would
  build anew are skipped for summaries that are ready.

## 6. Abstractions to know of

*Acquisition.* A spool that is replaced in place while a poll has it open may be
read wrongly; `torn` marks it and the properties exclude it. Open and parse are
one step. The sequence numbers two tailers would give are left out; so are an
event message lost with a chunk that ends in a half written line, an exit code
that a replayed batch, cut differently, cannot add to a stored tool result, a
group that fails before it has a cursor and is first every time, and a backfill
that saves an older cursor over that of the tail, which leaves the group to the
next scan. Device, inode and prefix comparison are one `identity`; planning and
opening are one step. The list of dirty projects is 25 long: that many projects
that always fail fill it. The Claude parser, its subagents, prices and the
discovery of files are not modelled.

*Guidance.* The proposals of one candidate are reviewed independently. A deferral
after a rejection is the latest decision and reopens the proposal; a deferral
that bears a time before a token but commits after it does not block the
approval: both are what the code does, and `ApprovalRespectsReview` is stated
for what it does see. Of the lifecycle only activation and pausing are wired to
an interface. A session imported between the probe and the binding leaves a
receipt bound though two sessions worked; a turn of the window imported after it
leaves the receipt expired. Registration follows the building of a preview in
one step. Retry delays are abstracted; two polls would lose a trajectory stamp,
the lease excludes them. Receipts of one time of acceptance, and the experiences of
a pack, are taken in any order, where the code has that of their identities. The
impact of an experience is not modelled.

*Learning.* The candidate of an episode is identified by its parts and its
content is stored once. A change of the project's configuration can change the
class of a command that is in an old candidate: the id is the same, the payload
is another, and the compilation of the project ends with a conflict, in this and
every later round. `LearningSound` therefore says that a conflict only
follows a change of the configuration. The fingerprint of a
derivation does not cover the configuration either. The following turns of a
live session are part of a candidate, so a session that goes on gives a new
candidate for the same episode each time. Turns, events and configuration are
read in one step; two compilers of one project, retention of the events, the cap
of 32 pieces of evidence, the delay after a partial derivation and diagnostics
are left out.

*Store.* The deletion of the keychain item while a process opens, the change of
the journal mode and busy errors are ends of the process; compaction is one
step; cryptography and the keychain are external.

*Fix monitoring.* A failure recorded by a process that has stopped since stays
"failed" until the next process starts: `Recover` only completes from
`catching_up` and nothing reads `retry_at`. This is part of how
`UpgradesEnd` is stated. Claims of sessions and jobs are abstracted;
`AnalysisQueue` and `RecurrenceJobs` have them in full.

*Registration.* One agent per instance. The first load of the manifest, before
the lock, is left out. A crash or a failed verification after an addition leaves
an entry that only an equal identity recognises. An edit between the last look
and the command can be lost, as the design says.

*Summaries.* One process builds at a time: two openers beside a publisher can
mark a build finished whose summaries one of them has reset. Between the two
final transactions a cursor of the old epoch is accepted, hence the part of
`SummariesSound` on cursors is about stores that are open. Families, filters, order and counts are left out, as
are versions of the program that do not know the tables. The hour of protection
is a choice of `Prune`; reused row ids are kept, their renumbering by VACUUM is
not.

*Proposals.* A candidate that the agent always decides badly fails its batch in
every run, and candidates beyond the limit of 500 of the query hide older ones:
`CompleteMeansDecided` is about runs that report success. The quotes of an answer
are checked against the recorded text, not against what the agent was shown, where
paths are written differently; a phrase that is only in one of them is in the
model.

*Verdicts.* Facts of the opportunity and of the outcome of a task, for which the
code has types and no producer, are left out, as are gaps in a transcript; an
application is evaluated once in a behaviour. The outcomes of the trajectory are
read together with its state. What happened before the delivery counts as evidence
(`experience_evaluation.go:560`). "Not modified" may be concluded from the turns
that were imported so far. A verifier that asks for no coverage is deferred for
good, an absolute path in an edit makes the facts of the session invalid, and a
fact of failure never is ambiguous.

*Insights and packs.* An insight is dated after the agent has answered, so one
that was made from an earlier analysis than the last counts as newer than it and
its rules are proposed (`docs/contracts/mcp-v1.md:480`: "stale insights are not
proposed as rules"); `PacksHold` asks what the code compares, the dates. An identical analysis is published again and leaves the insight behind.
Which of several projects of one depth contains a directory depends on the order
of a Go map, and the model leaves it open.

*Detectors.* Every turn has a time. Wording, trends, suggested fixes and the
choice among more than five excerpts are left out. Retry loops are collected in the
order of a Go map; the report of the model is a set.

*Guards.* One row of one table stands for the table: triggers look at one row at
a time. A store that was left at version 5 with analysis revisions in it cannot be
opened: its connections get the guards of version 5, and migration 6 updates the
revisions without a purpose. An upgrade from version 4, which
`docs/design/p0-01-issue-fingerprints-and-detectors.md:804` asks for, meets this
only if it stops after migration 5 and the store is used before it goes on. The
assumption `TablesAssumption` excludes it: `Oldest` is at least 6, and 8 in the run.

*Monitored fixes.* A reconciler reads and publishes in one step, since
`AnalysisQueue` shows that one that was overtaken has no effect; a batch of a job
is one attempt and does not fail; readiness is given. Which records a prune
selects is left open. Filters on severity, agent and the like are left out, the
filters on state and on retracted attempts are there. A failed analysis stores
the target of the queue as what was analysed (`projection.go:968`), so that its
session usually counts as pending where `docs/contracts/read-api-v1.md:1184` would
have it failed; neither is complete, which is what `CoverageHonest` asks.

*Jobs.* In `RecurrenceJobs`, jobs that retention deletes (completed ones of
emptied sessions, an hour later) stay, and candidates do not lose their evidence
to retention: both only remove work. In `ProjectionHistory` which published
revisions still have an unfinished job is left open, in both directions.
`ReplaceIssueProjection` has no caller outside tests.

*Not modelled.* Transport and validation of HTTP and MCP, the detectors of events
(`src/internal/detection/*.go`: `AnalysisQueue` keeps which events they report),
attention families, reports and briefs, the harness and Numbat subprocesses, the
canonical mapping, formatting, wording and configuration, and the offline
evaluation tools: they are pure functions of one request or of one session, or
they are outside of the store.
PROJECT.json gives the reason for each component. The modules stand for 30 % of
the lines of the implementation.

## 7. Plan

1. Done: the queues, acquisition, learning, guidance, evidence, the opening of the
   store, registration, summaries and monitored fixes are modelled; eight modules
   have proofs, which cover the safety properties that are about interleavings, but
   for those of `TranscriptImport` and `MonitoringView`, which are also about what a
   computation returns.
2. Model: attention families, the Claude parser.
