---------------------------- MODULE FixMonitoring ----------------------------
(***************************************************************************)
(* The readiness of fix monitoring (fix_monitoring_metadata): every process *)
(* that starts enqueues what the store held before there were recurrence    *)
(* jobs, has the old analyses of Belay's own detectors made anew, and       *)
(* declares monitoring ready once nothing is outstanding.  A process that   *)
(* fails at this records it and tries again; one that has succeeded goes on *)
(* with recovery rounds.  (recurrence_jobs.go, recurrence_worker.go, and    *)
(* runLocalRecovery of cmd/belay/local.go.)  The claims of sessions and     *)
(* jobs are abstracted: AnalysisQueue and RecurrenceJobs have them in full. *)
(***************************************************************************)
EXTENDS Naturals, FiniteSets

CONSTANTS Sessions,
          Legacy,            \* the sessions analysed before the migration
          Processes,
          MaxRevision, MaxTroubles      \* bounds

None == "none"
Nothing == <<>>     \* an item is <<session>> or <<session, revision>>

ASSUME FixMonitoringAssumption ==
    /\ Legacy \subseteq Sessions
    /\ Processes \cap {None, "pending", "cooling", "due", "complete"} = {}
    /\ MaxRevision \in Nat \ {0, 1} /\ MaxTroubles \in Nat

Jobs == Sessions \X (1 .. MaxRevision)

VARIABLES readiness, legacyMarked, revision, dirty, job, runner, reanalyzed, troubles

(* legacyMarked: the progress row "catchup_dirty".  revision: the current     *)
(* analysis of a session, 0 for none.  dirty, job: the state of a row of      *)
(* dirty_sessions and of fix_recurrence_jobs; "cooling" is failed, "due" is   *)
(* failed with its retry time reached, and a process is the holder of a       *)
(* claim.  reanalyzed (history): the sessions published since the migration.  *)

monitoringVars == <<readiness, legacyMarked, revision, dirty, job, runner, reanalyzed, troubles>>

Outstanding == {"pending", "cooling", "due"} \cup Processes

RunnerPhases ==
    {"off", "prepare", "mark", "analyze", "jobs", "complete", "check", "wait", "failing"}
Items == {Nothing} \cup {<<s>> : s \in Sessions} \cup Jobs
Runners == [phase : RunnerPhases, starting : BOOLEAN, item : Items]

MonitoringTypeOK ==
    /\ readiness \in {"catching_up", "ready", "failed"} /\ legacyMarked \in BOOLEAN
    /\ revision \in [Sessions -> 0 .. MaxRevision]
    /\ dirty \in [Sessions -> Outstanding \cup {None}]
    /\ job \in [Jobs -> Outstanding \cup {None, "complete"}]
    /\ runner \in [Processes -> Runners]
    /\ reanalyzed \subseteq Sessions /\ troubles \in Nat

MonitoringInit ==
    /\ readiness = "catching_up" /\ legacyMarked = FALSE /\ reanalyzed = {}
    /\ revision = [s \in Sessions |-> IF s \in Legacy THEN 1 ELSE 0]
    /\ dirty = [s \in Sessions |-> None]
    /\ job = [j \in Jobs |-> None]
    /\ runner = [p \in Processes |-> [phase |-> "off", starting |-> FALSE, item |-> Nothing]]
    /\ troubles = MaxTroubles

Goes(p, phase) == runner' = [runner EXCEPT ![p].phase = phase, ![p].item = Nothing]
Takes(p, item) == runner' = [runner EXCEPT ![p].item = item]
Queues == <<revision, dirty, job, reanalyzed>>

-----------------------------------------------------------------------------
(* Startup. *)

Start(p) ==
    /\ runner[p].phase = "off"
    /\ runner' = [runner EXCEPT ![p] = [phase |-> "prepare", starting |-> TRUE, item |-> Nothing]]
    /\ UNCHANGED <<readiness, legacyMarked, Queues, troubles>>

(* PrepareFixMonitoringCatchup, its first transaction.                       *)
PrepareCatchup(p) ==
    LET current(j) == j[2] = revision[j[1]] /\ job[j] = None
    IN  /\ runner[p].phase = "prepare"
        /\ readiness' = IF readiness = "ready" THEN "ready" ELSE "catching_up"
        /\ job' = [j \in Jobs |-> IF current(j) THEN "pending" ELSE job[j]]
        /\ Goes(p, "mark")
        /\ UNCHANGED <<legacyMarked, revision, dirty, reanalyzed, troubles>>

(* ... and markLegacyBelaySessionsDirty, in another, once for the store.      *)
MarkLegacy(p) ==
    /\ runner[p].phase = "mark"
    /\ legacyMarked' = TRUE
    /\ dirty' = [s \in Sessions |-> IF s \in Legacy /\ ~legacyMarked THEN "pending" ELSE dirty[s]]
    /\ Goes(p, "analyze")
    /\ UNCHANGED <<readiness, revision, job, reanalyzed, troubles>>

-----------------------------------------------------------------------------
(* The drains of sessions and of jobs. *)

Due(row, item) ==
    \/ row \in {"pending", "due"}
    \/ row \in Processes /\ runner[row].item # item        \* its lease runs out

DueSessions == {s \in Sessions : Due(dirty[s], <<s>>)}
DueJobs == {j \in Jobs : Due(job[j], j)}

ClaimSession(p) ==
    /\ runner[p].phase = "analyze" /\ runner[p].item = Nothing
    /\ \E s \in DueSessions : dirty' = [dirty EXCEPT ![s] = p] /\ Takes(p, <<s>>)
    /\ UNCHANGED <<readiness, legacyMarked, revision, job, reanalyzed, troubles>>

(* A claim that was lost publishes nothing.                                   *)
Publish(p) ==
    LET s == runner[p].item[1]
    IN  /\ runner[p].phase = "analyze" /\ runner[p].item # Nothing
        /\ IF dirty[s] = p
           THEN /\ dirty' = [dirty EXCEPT ![s] = None]
                /\ revision' = [revision EXCEPT ![s] = @ + 1]
                /\ job' = [job EXCEPT ![<<s, revision[s] + 1>>] = "pending"]
                /\ reanalyzed' = reanalyzed \cup {s}
           ELSE UNCHANGED Queues
        /\ Takes(p, Nothing)
        /\ UNCHANGED <<readiness, legacyMarked, troubles>>

ClaimJob(p) ==
    /\ runner[p].phase = "jobs" /\ runner[p].item = Nothing
    /\ \E j \in DueJobs : job' = [job EXCEPT ![j] = p] /\ Takes(p, j)
    /\ UNCHANGED <<readiness, legacyMarked, revision, dirty, reanalyzed, troubles>>

ProcessJob(p) ==
    LET j == runner[p].item
    IN  /\ runner[p].phase = "jobs" /\ j # Nothing
        /\ job' = [job EXCEPT ![j] = IF @ = p THEN "complete" ELSE @]
        /\ Takes(p, Nothing)
        /\ UNCHANGED <<readiness, legacyMarked, revision, dirty, reanalyzed, troubles>>

(* The detectors, or a batch, fail: the row waits for its next attempt.       *)
ItemFails(p) ==
    LET item == runner[p].item
    IN  /\ item # Nothing /\ troubles > 0 /\ troubles' = troubles - 1
        /\ IF runner[p].phase = "analyze"
           THEN /\ dirty' = [dirty EXCEPT ![item[1]] = IF @ = p THEN "cooling" ELSE @]
                /\ UNCHANGED job
           ELSE /\ job' = [job EXCEPT ![item] = IF @ = p THEN "cooling" ELSE @]
                /\ UNCHANGED dirty
        /\ Takes(p, Nothing)
        /\ UNCHANGED <<readiness, legacyMarked, revision, reanalyzed>>

(* The retry time of failed rows is reached.                                  *)
RetryTime ==
    LET reached(row) == IF row = "cooling" THEN "due" ELSE row
    IN  /\ dirty' = [s \in Sessions |-> reached(dirty[s])]
        /\ job' = [j \in Jobs |-> reached(job[j])]
        /\ <<dirty', job'>> # <<dirty, job>>
        /\ UNCHANGED <<readiness, legacyMarked, revision, runner, reanalyzed, troubles>>

DrainEnds(p) ==
    /\ runner[p].item = Nothing
    /\ \/ runner[p].phase = "analyze" /\ DueSessions = {} /\ Goes(p, "jobs")
       \/ /\ runner[p].phase = "jobs" /\ DueJobs = {}
          /\ Goes(p, IF runner[p].starting THEN "complete" ELSE "check")
    /\ UNCHANGED <<readiness, legacyMarked, Queues, troubles>>

-----------------------------------------------------------------------------
(* The end of a startup, and of a recovery round. *)

\* Mutant: sessions that wait for their reanalysis do not count.
NoJobOutstanding == \A j \in Jobs : job[j] \notin Outstanding

NothingOutstanding ==
    /\ \A j \in Jobs : job[j] \notin Outstanding
    /\ \A s \in Sessions : dirty[s] \notin Outstanding

(* CompleteFixMonitoringCatchup.  A startup that finds work outstanding       *)
(* begins again after the interval; it records no failure.                    *)
Complete(p) ==
    /\ runner[p].phase = "complete"
    /\ IF NothingOutstanding
       THEN /\ readiness' = "ready"
            /\ runner' = [runner EXCEPT ![p].phase = "wait", ![p].starting = FALSE]
       ELSE /\ Goes(p, IF runner[p].starting THEN "prepare" ELSE "wait")
            /\ UNCHANGED readiness
    /\ UNCHANGED <<legacyMarked, Queues, troubles>>

\* Mutant: a recovery round leaves the readiness alone.
CheckNothing(p) ==
    /\ runner[p].phase = "check"
    /\ Goes(p, "wait")
    /\ UNCHANGED <<readiness, legacyMarked, Queues, troubles>>

(* completeCatchupIfNeeded reads the readiness first.                         *)
Check(p) ==
    /\ runner[p].phase = "check"
    /\ Goes(p, IF readiness = "catching_up" THEN "complete" ELSE "wait")
    /\ UNCHANGED <<readiness, legacyMarked, Queues, troubles>>

Recover(p) ==
    /\ runner[p].phase = "wait"
    /\ Goes(p, "analyze")
    /\ UNCHANGED <<readiness, legacyMarked, Queues, troubles>>

-----------------------------------------------------------------------------
(* Troubles. *)

(* A call on the store fails.  Of a startup the failure is recorded next,     *)
(* whatever other processes have done meanwhile; a round just ends.           *)
Errs(p) ==
    /\ runner[p].phase \notin {"off", "wait", "failing"}
    /\ troubles > 0 /\ troubles' = troubles - 1
    /\ Goes(p, IF runner[p].starting THEN "failing" ELSE "wait")
    /\ UNCHANGED <<readiness, legacyMarked, Queues>>

RecordFailure(p) ==
    /\ runner[p].phase = "failing"
    /\ readiness' = "failed"
    /\ Goes(p, "prepare")
    /\ UNCHANGED <<legacyMarked, Queues, troubles>>

(* A cancelled process records nothing.                                       *)
Stop(p) ==
    /\ runner[p].phase # "off"
    /\ troubles > 0 /\ troubles' = troubles - 1
    /\ runner' = [runner EXCEPT ![p] = [phase |-> "off", starting |-> FALSE, item |-> Nothing]]
    /\ UNCHANGED <<readiness, legacyMarked, Queues>>

(* New data of a session arrive.                                              *)
Import(s) ==
    /\ revision[s] + (IF s \in Legacy /\ ~legacyMarked THEN 1 ELSE 0) < MaxRevision
    /\ dirty[s] = None
    /\ dirty' = [dirty EXCEPT ![s] = "pending"]
    /\ UNCHANGED <<readiness, legacyMarked, revision, job, runner, reanalyzed, troubles>>

MonitoringStep(p) ==
    \/ PrepareCatchup(p) \/ MarkLegacy(p) \/ ClaimSession(p) \/ Publish(p) \/ ClaimJob(p)
    \/ ProcessJob(p) \/ DrainEnds(p) \/ Complete(p) \/ Check(p) \/ Recover(p)
    \/ RecordFailure(p)

MonitoringNext ==
    \/ \E p \in Processes : MonitoringStep(p) \/ Start(p) \/ ItemFails(p) \/ Errs(p) \/ Stop(p)
    \/ \E s \in Sessions : Import(s)
    \/ RetryTime

MonitoringSpec ==
    /\ MonitoringInit /\ [][MonitoringNext]_monitoringVars
    /\ \A p \in Processes : WF_monitoringVars(MonitoringStep(p))
    /\ WF_monitoringVars(RetryTime)

-----------------------------------------------------------------------------
(* Monitoring is not served before every old analysis of Belay's detectors    *)
(* has been made anew, whichever process marks the sessions, stops in between *)
(* or declares the store ready.                                               *)
LegacyReanalyzed == readiness = "ready" => Legacy \subseteq reanalyzed

(* Failed rows, failed startups and stopped processes delay readiness, they   *)
(* do not prevent it, as long as a process is there: but a failure recorded   *)
(* by a process that has stopped since is left to the next that starts.       *)
MonitoringConverges ==
    <>[](\/ readiness = "ready"
         \/ \A p \in Processes : runner[p].phase = "off"
         \/ readiness = "failed" /\ \A p \in Processes : ~runner[p].starting)
=============================================================================
