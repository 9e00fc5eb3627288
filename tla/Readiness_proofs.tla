--------------------------- MODULE Readiness_proofs ---------------------------
(***************************************************************************)
(* What an upgraded store has left to do and is ready for.  Fix monitoring  *)
(* is ready only after the old analyses were made anew, for any sessions,   *)
(* processes and bounds.  The summaries of issues are ready only while they *)
(* add up to what is stored, and a reader who pages through them sees one   *)
(* snapshot, for any sessions, batch and lifetime of a cursor.              *)
(***************************************************************************)
EXTENDS FixMonitoring, IssueSummary, FiniteSetTheorems, FunctionTheorems, WellFoundedInduction,
        TLAPS

-----------------------------------------------------------------------------
(* Fix monitoring. *)

(* A process that is past marking the old sessions, or that has completed a   *)
(* startup, runs on a store whose old sessions are marked.                    *)
PastMarking(r) ==
    \/ r.phase \notin {"off", "prepare", "mark", "failing"}
    \/ r.phase # "off" /\ ~r.starting

MarkedBefore == \A p \in Processes : PastMarking(runner[p]) => legacyMarked

(* Once they are marked, an old session that was not analysed anew is owed an *)
(* analysis by the queue.                                                     *)
Owed == legacyMarked => \A s \in Legacy : s \in reanalyzed \/ dirty[s] \in Outstanding

(* There is a revision left for each analysis that is owed.                   *)
UnmarkedCount(s) == IF s \in Legacy /\ ~legacyMarked THEN 1 ELSE 0
OwedCount(s) == IF dirty[s] \in Outstanding THEN 1 ELSE 0
Room == \A s \in Sessions : revision[s] + UnmarkedCount(s) + OwedCount(s) <= MaxRevision

MonitoringInv == MonitoringTypeOK /\ MarkedBefore /\ Owed /\ Room /\ LegacyReanalyzed

-----------------------------------------------------------------------------
LEMMA RunnerMoves ==
    ASSUME runner \in [Processes -> Runners], NEW p \in Processes,
           NEW phase \in RunnerPhases, Goes(p, phase)
    PROVE  /\ runner' \in [Processes -> Runners]
           /\ \A q \in Processes \ {p} : runner'[q] = runner[q]
           /\ runner'[p].phase = phase /\ runner'[p].starting = runner[p].starting
BY DEF Goes, Runners, Items

LEMMA RunnerTakes ==
    ASSUME runner \in [Processes -> Runners], NEW p \in Processes,
           NEW item \in Items, Takes(p, item)
    PROVE  /\ runner' \in [Processes -> Runners]
           /\ \A q \in Processes \ {p} : runner'[q] = runner[q]
           /\ runner'[p].phase = runner[p].phase /\ runner'[p].starting = runner[p].starting
BY DEF Takes, Runners

LEMMA NoneNotOutstanding == None \notin Outstanding
BY FixMonitoringAssumption DEF Outstanding, None

LEMMA MonitoringInitSound ==
    ASSUME MonitoringInit PROVE MonitoringInv
<1> USE FixMonitoringAssumption DEF MonitoringInit
<1>1. MonitoringTypeOK
  <2>1. \A s \in Sessions : (IF s \in Legacy THEN 1 ELSE 0) \in 0 .. MaxRevision
    OBVIOUS
  <2>2. runner \in [Processes -> Runners]
    BY DEF Runners, Items, RunnerPhases
  <2> QED BY <2>1, <2>2 DEF MonitoringTypeOK
<1>2. MarkedBefore
  BY DEF MarkedBefore, PastMarking
<1>3. Owed /\ LegacyReanalyzed
  BY DEF Owed, LegacyReanalyzed
<1>4. Room
  <2> SUFFICES ASSUME NEW s \in Sessions
               PROVE  revision[s] + UnmarkedCount(s) + OwedCount(s) <= MaxRevision
    BY DEF Room
  <2>1. OwedCount(s) = 0
    BY NoneNotOutstanding DEF OwedCount
  <2>2. revision[s] \in {0, 1} /\ UnmarkedCount(s) \in {0, 1}
    BY DEF UnmarkedCount
  <2> QED BY <2>1, <2>2
<1> QED BY <1>1, <1>2, <1>3, <1>4 DEF MonitoringInv

-----------------------------------------------------------------------------
(* Every step keeps the types. *)

LEMMA TypeStep ==
    ASSUME MonitoringTypeOK, Room, MonitoringNext PROVE MonitoringTypeOK'
<1> USE DEF MonitoringTypeOK, Queues
<1>1. ASSUME NEW p \in Processes, Start(p) PROVE MonitoringTypeOK'
  BY <1>1 DEF Start, Runners, RunnerPhases, Items
<1>2. ASSUME NEW p \in Processes, PrepareCatchup(p) PROVE MonitoringTypeOK'
  <2>1. runner' \in [Processes -> Runners]
    BY <1>2, RunnerMoves DEF PrepareCatchup, RunnerPhases
  <2>2. job' \in [Jobs -> Outstanding \cup {None, "complete"}]
    BY <1>2 DEF PrepareCatchup, Outstanding
  <2> QED BY <1>2, <2>1, <2>2 DEF PrepareCatchup
<1>3. ASSUME NEW p \in Processes, MarkLegacy(p) PROVE MonitoringTypeOK'
  <2>1. runner' \in [Processes -> Runners]
    BY <1>3, RunnerMoves DEF MarkLegacy, RunnerPhases
  <2>2. dirty' \in [Sessions -> Outstanding \cup {None}]
    BY <1>3 DEF MarkLegacy, Outstanding
  <2> QED BY <1>3, <2>1, <2>2 DEF MarkLegacy
<1>4. ASSUME NEW p \in Processes, ClaimSession(p) PROVE MonitoringTypeOK'
  <2>1. PICK s \in DueSessions : dirty' = [dirty EXCEPT ![s] = p] /\ Takes(p, <<s>>)
    BY <1>4 DEF ClaimSession
  <2>2. runner' \in [Processes -> Runners]
    BY <2>1, RunnerTakes DEF DueSessions, Items
  <2>3. dirty' \in [Sessions -> Outstanding \cup {None}]
    BY <2>1 DEF Outstanding
  <2> QED BY <1>4, <2>2, <2>3 DEF ClaimSession
<1>5. ASSUME NEW p \in Processes, Publish(p) PROVE MonitoringTypeOK'
  <2> DEFINE s == runner[p].item[1]
  <2>1. runner' \in [Processes -> Runners]
    BY <1>5, RunnerTakes DEF Publish, Items
  <2>2. UNCHANGED <<readiness, legacyMarked, troubles>>
    BY <1>5 DEF Publish
  <2>3. CASE dirty[s] = p
    <3>1. s \in Sessions
      <4>1. runner[p].item \in {<<t>> : t \in Sessions} \cup Jobs
        BY <1>5 DEF Publish, Runners, Items
      <4> QED BY <4>1 DEF Jobs
    <3>2. revision[s] + 1 \in 0 .. MaxRevision
      <4>1. OwedCount(s) = 1
        BY <2>3 DEF OwedCount, Outstanding
      <4>2. UnmarkedCount(s) \in {0, 1}
        BY DEF UnmarkedCount
      <4> QED BY <3>1, <4>1, <4>2, FixMonitoringAssumption DEF Room
    <3>3. /\ dirty' = [dirty EXCEPT ![s] = None]
          /\ revision' = [revision EXCEPT ![s] = revision[s] + 1]
          /\ job' = [job EXCEPT ![<<s, revision[s] + 1>>] = "pending"]
          /\ reanalyzed' = reanalyzed \cup {s}
      BY <1>5, <2>3 DEF Publish
    <3>4. job' \in [Jobs -> Outstanding \cup {None, "complete"}]
      BY <3>3 DEF Outstanding
    <3>5. /\ revision' \in [Sessions -> 0 .. MaxRevision]
          /\ dirty' \in [Sessions -> Outstanding \cup {None}]
          /\ reanalyzed' \subseteq Sessions
      BY <3>1, <3>2, <3>3
    <3> QED BY <2>1, <2>2, <3>4, <3>5
  <2>4. CASE dirty[s] # p
    <3>1. UNCHANGED <<revision, dirty, job, reanalyzed>>
      BY <1>5, <2>4 DEF Publish
    <3> QED BY <2>1, <2>2, <3>1
  <2> QED BY <2>3, <2>4
<1>6. ASSUME NEW p \in Processes, ClaimJob(p) PROVE MonitoringTypeOK'
  <2>1. PICK j \in DueJobs : job' = [job EXCEPT ![j] = p] /\ Takes(p, j)
    BY <1>6 DEF ClaimJob
  <2>2. runner' \in [Processes -> Runners]
    BY <2>1, RunnerTakes DEF DueJobs, Items
  <2>3. job' \in [Jobs -> Outstanding \cup {None, "complete"}]
    BY <2>1 DEF Outstanding
  <2> QED BY <1>6, <2>2, <2>3 DEF ClaimJob
<1>7. ASSUME NEW p \in Processes, ProcessJob(p) PROVE MonitoringTypeOK'
  <2>1. runner' \in [Processes -> Runners]
    BY <1>7, RunnerTakes DEF ProcessJob, Items
  <2>2. job' \in [Jobs -> Outstanding \cup {None, "complete"}]
    BY <1>7 DEF ProcessJob
  <2> QED BY <1>7, <2>1, <2>2 DEF ProcessJob
<1>8. ASSUME NEW p \in Processes, ItemFails(p) PROVE MonitoringTypeOK'
  <2>1. runner' \in [Processes -> Runners]
    BY <1>8, RunnerTakes DEF ItemFails, Items
  <2>2. /\ dirty' \in [Sessions -> Outstanding \cup {None}]
        /\ job' \in [Jobs -> Outstanding \cup {None, "complete"}]
    BY <1>8 DEF ItemFails, Outstanding
  <2> QED BY <1>8, <2>1, <2>2 DEF ItemFails
<1>9. ASSUME NEW p \in Processes,
             \/ DrainEnds(p) \/ Check(p) \/ Recover(p) \/ RecordFailure(p) \/ Errs(p)
      PROVE  MonitoringTypeOK'
  <2>1. PICK phase \in RunnerPhases : Goes(p, phase)
    BY <1>9 DEF DrainEnds, Check, Recover, RecordFailure, Errs, RunnerPhases
  <2>2. runner' \in [Processes -> Runners]
    BY <2>1, RunnerMoves
  <2> QED BY <1>9, <2>2 DEF DrainEnds, Check, Recover, RecordFailure, Errs
<1>10. ASSUME NEW p \in Processes, Complete(p) PROVE MonitoringTypeOK'
  <2>1. runner' \in [Processes -> Runners]
    BY <1>10, RunnerMoves DEF Complete, Runners, RunnerPhases
  <2> QED BY <1>10, <2>1 DEF Complete
<1>11. ASSUME NEW p \in Processes, Stop(p) PROVE MonitoringTypeOK'
  BY <1>11 DEF Stop, Runners, RunnerPhases, Items
<1>12. ASSUME NEW s \in Sessions, Import(s) PROVE MonitoringTypeOK'
  BY <1>12 DEF Import, Outstanding
<1>13. ASSUME RetryTime PROVE MonitoringTypeOK'
  BY <1>13 DEF RetryTime, Outstanding
<1> QED BY <1>1, <1>2, <1>3, <1>4, <1>5, <1>6, <1>7, <1>8, <1>9, <1>10, <1>11, <1>12, <1>13
        DEF MonitoringNext, MonitoringStep

-----------------------------------------------------------------------------
(* A process gets past marking only by marking, or by completing a startup.   *)
LEMMA MarkedStep ==
    ASSUME MonitoringTypeOK, MonitoringInv, MonitoringNext PROVE MarkedBefore'
<1> USE DEF MonitoringInv, MonitoringTypeOK, MarkedBefore, PastMarking, RunnerPhases
<1>1. ASSUME NEW p \in Processes, PrepareCatchup(p) PROVE MarkedBefore'
  BY <1>1, RunnerMoves DEF PrepareCatchup
<1>2. ASSUME NEW p \in Processes, MarkLegacy(p) PROVE MarkedBefore'
  BY <1>2 DEF MarkLegacy
<1>3. ASSUME NEW p \in Processes, NEW item \in Items, Takes(p, item), UNCHANGED legacyMarked
      PROVE  MarkedBefore'
  BY <1>3, RunnerTakes
<1>4. ASSUME NEW p \in Processes, ClaimSession(p) \/ ClaimJob(p) PROVE MarkedBefore'
  <2>1. PICK item \in Items : Takes(p, item)
    BY <1>4 DEF ClaimSession, ClaimJob, DueSessions, DueJobs, Items
  <2> QED BY <1>3, <1>4, <2>1 DEF ClaimSession, ClaimJob
<1>5. ASSUME NEW p \in Processes, Publish(p) \/ ProcessJob(p) \/ ItemFails(p) PROVE MarkedBefore'
  <2>1. Takes(p, Nothing) /\ Nothing \in Items
    BY <1>5 DEF Publish, ProcessJob, ItemFails, Items
  <2> QED BY <1>3, <1>5, <2>1 DEF Publish, ProcessJob, ItemFails
<1>6. ASSUME NEW p \in Processes, NEW phase \in RunnerPhases, Goes(p, phase),
             UNCHANGED legacyMarked,
             \/ PastMarking(runner[p])
             \/ phase = "prepare" /\ runner[p].starting
             \/ phase = "failing" /\ runner[p].starting
      PROVE  MarkedBefore'
  BY <1>6, RunnerMoves
<1>7. ASSUME NEW p \in Processes, DrainEnds(p) \/ Check(p) \/ Recover(p) PROVE MarkedBefore'
  <2>1. PICK phase \in RunnerPhases : Goes(p, phase)
    BY <1>7 DEF DrainEnds, Check, Recover
  <2>2. PastMarking(runner[p]) /\ UNCHANGED legacyMarked
    BY <1>7 DEF DrainEnds, Check, Recover
  <2> QED BY <1>6, <2>1, <2>2
<1>8. ASSUME NEW p \in Processes, Errs(p) PROVE MarkedBefore'
  <2>1. CASE runner[p].starting
    <3>1. Goes(p, "failing") /\ UNCHANGED legacyMarked
      BY <1>8, <2>1 DEF Errs
    <3> QED BY <1>6, <2>1, <3>1
  <2>2. CASE ~runner[p].starting
    <3>1. Goes(p, "wait") /\ UNCHANGED legacyMarked /\ runner[p].phase # "off"
      BY <1>8, <2>2 DEF Errs
    <3>2. PastMarking(runner[p])
      BY <2>2, <3>1
    <3> QED BY <1>6, <3>1, <3>2
  <2> QED BY <2>1, <2>2
<1>9. ASSUME NEW p \in Processes, RecordFailure(p) PROVE MarkedBefore'
  <2>1. Goes(p, "prepare") /\ UNCHANGED legacyMarked /\ runner[p].phase = "failing"
    BY <1>9 DEF RecordFailure
  <2>2. PastMarking(runner[p]) \/ runner[p].starting
    BY <2>1
  <2> QED BY <1>6, <2>1, <2>2
<1>10. ASSUME NEW p \in Processes, Complete(p) PROVE MarkedBefore'
  <2>1. legacyMarked /\ UNCHANGED legacyMarked
    BY <1>10 DEF Complete
  <2> QED BY <2>1
<1>11. ASSUME NEW p \in Processes, Start(p) \/ Stop(p) PROVE MarkedBefore'
  BY <1>11 DEF Start, Stop
<1>12. ASSUME NEW s \in Sessions, Import(s) PROVE MarkedBefore'
  BY <1>12 DEF Import
<1>13. ASSUME RetryTime PROVE MarkedBefore'
  BY <1>13 DEF RetryTime
<1> QED BY <1>1, <1>2, <1>4, <1>5, <1>7, <1>8, <1>9, <1>10, <1>11, <1>12, <1>13
        DEF MonitoringNext, MonitoringStep

-----------------------------------------------------------------------------
(* What a step does to the queue: the rows that are owed stay so, until their *)
(* session is published, which uses up one revision.                          *)
Kept(s) ==
    /\ legacyMarked' = legacyMarked
    /\ revision'[s] = revision[s]
    /\ (dirty[s] \in Outstanding) = (dirty'[s] \in Outstanding)
    /\ reanalyzed \subseteq reanalyzed'

Published(s) ==
    /\ legacyMarked' = legacyMarked
    /\ revision'[s] = revision[s] + 1
    /\ dirty[s] \in Outstanding /\ dirty'[s] \notin Outstanding
    /\ reanalyzed' = reanalyzed \cup {s}

Imported(s) ==
    /\ legacyMarked' = legacyMarked
    /\ revision[s] + UnmarkedCount(s) < MaxRevision
    /\ revision'[s] = revision[s]
    /\ dirty[s] \notin Outstanding /\ dirty'[s] \in Outstanding
    /\ reanalyzed' = reanalyzed

Marked(s) ==
    /\ legacyMarked' = TRUE
    /\ revision'[s] = revision[s]
    /\ \/ s \in Legacy /\ ~legacyMarked /\ dirty'[s] \in Outstanding
       \/ ~(s \in Legacy /\ ~legacyMarked) /\ dirty'[s] = dirty[s]
    /\ reanalyzed' = reanalyzed

LEMMA SessionStep ==
    ASSUME MonitoringTypeOK, MonitoringNext, NEW s \in Sessions
    PROVE  Kept(s) \/ Published(s) \/ Imported(s) \/ Marked(s)
<1> USE DEF MonitoringTypeOK, Queues
<1>1. ASSUME UNCHANGED <<legacyMarked, revision, dirty, reanalyzed>> PROVE Kept(s)
  BY <1>1 DEF Kept
<1>2. ASSUME NEW p \in Processes,
             \/ Start(p) \/ PrepareCatchup(p) \/ ClaimJob(p) \/ ProcessJob(p) \/ DrainEnds(p)
             \/ Complete(p) \/ Check(p) \/ Recover(p) \/ RecordFailure(p) \/ Errs(p) \/ Stop(p)
      PROVE  Kept(s)
  BY <1>1, <1>2 DEF Start, PrepareCatchup, ClaimJob, ProcessJob, DrainEnds, Complete, Check,
                    Recover, RecordFailure, Errs, Stop
<1>3. ASSUME NEW p \in Processes, MarkLegacy(p) PROVE Marked(s)
  BY <1>3 DEF MarkLegacy, Marked, Outstanding
<1>4. ASSUME NEW p \in Processes, ClaimSession(p) PROVE Kept(s)
  <2>1. PICK t \in DueSessions : dirty' = [dirty EXCEPT ![t] = p]
    BY <1>4 DEF ClaimSession
  <2>2. dirty[t] \in Outstanding /\ p \in Outstanding
    BY DEF DueSessions, Due, Outstanding
  <2> QED BY <1>4, <2>1, <2>2 DEF ClaimSession, Kept
<1>5. ASSUME NEW p \in Processes, Publish(p) PROVE Kept(s) \/ Published(s)
  <2> DEFINE t == runner[p].item[1]
  <2>1. CASE dirty[t] # p
    BY <1>1, <1>5, <2>1 DEF Publish
  <2>2. CASE dirty[t] = p
    <3>1. /\ dirty' = [dirty EXCEPT ![t] = None]
          /\ revision' = [revision EXCEPT ![t] = revision[t] + 1]
          /\ reanalyzed' = reanalyzed \cup {t}
          /\ legacyMarked' = legacyMarked
      BY <1>5, <2>2 DEF Publish
    <3>2. CASE s = t
      BY <2>2, <3>1, <3>2, NoneNotOutstanding DEF Published, Outstanding
    <3>3. CASE s # t
      BY <3>1, <3>3 DEF Kept
    <3> QED BY <3>2, <3>3
  <2> QED BY <2>1, <2>2
<1>6. ASSUME NEW p \in Processes, ItemFails(p) PROVE Kept(s)
  <2>1. UNCHANGED <<legacyMarked, revision, reanalyzed>>
    BY <1>6 DEF ItemFails
  <2>2. (dirty[s] \in Outstanding) = (dirty'[s] \in Outstanding)
    BY <1>6 DEF ItemFails, Outstanding
  <2> QED BY <2>1, <2>2 DEF Kept
<1>7. ASSUME NEW t \in Sessions, Import(t) PROVE Kept(s) \/ Imported(s)
  <2>1. CASE s = t
    BY <1>7, <2>1, NoneNotOutstanding DEF Import, Imported, UnmarkedCount, Outstanding
  <2>2. CASE s # t
    BY <1>7, <2>2 DEF Import, Kept
  <2> QED BY <2>1, <2>2
<1>8. ASSUME RetryTime PROVE Kept(s)
  BY <1>8 DEF RetryTime, Kept, Outstanding
<1> QED BY <1>2, <1>3, <1>4, <1>5, <1>6, <1>7, <1>8 DEF MonitoringNext, MonitoringStep

(* Readiness is only gained when nothing is owed, on a marked store.          *)
LEMMA ReadyStep ==
    ASSUME MonitoringTypeOK, MarkedBefore, MonitoringNext, readiness' = "ready"
    PROVE  \/ readiness = "ready"
           \/ /\ legacyMarked /\ reanalyzed' = reanalyzed
              /\ \A s \in Sessions : dirty[s] \notin Outstanding
<1> USE DEF Queues
<1>1. ASSUME NEW p \in Processes, Complete(p), readiness # "ready"
      PROVE  /\ legacyMarked /\ reanalyzed' = reanalyzed
             /\ \A s \in Sessions : dirty[s] \notin Outstanding
  <2>1. NothingOutstanding
    BY <1>1 DEF Complete
  <2>2. legacyMarked
    BY <1>1 DEF Complete, MarkedBefore, PastMarking
  <2> QED BY <1>1, <2>1, <2>2 DEF NothingOutstanding, Complete
<1>2. ASSUME NEW p \in Processes, PrepareCatchup(p) PROVE readiness = "ready"
  BY <1>2 DEF PrepareCatchup
<1>3. ASSUME NEW p \in Processes, RecordFailure(p) PROVE FALSE
  BY <1>3 DEF RecordFailure
<1>4. ASSUME NEW p \in Processes,
             \/ Start(p) \/ MarkLegacy(p) \/ ClaimSession(p) \/ Publish(p) \/ ClaimJob(p)
             \/ ProcessJob(p) \/ DrainEnds(p) \/ Check(p) \/ Recover(p)
             \/ ItemFails(p) \/ Errs(p) \/ Stop(p)
      PROVE  readiness = "ready"
  BY <1>4 DEF Start, MarkLegacy, ClaimSession, Publish, ClaimJob, ProcessJob, DrainEnds, Check,
              Recover, ItemFails, Errs, Stop
<1>5. ASSUME NEW s \in Sessions, Import(s) PROVE readiness = "ready"
  BY <1>5 DEF Import
<1>6. ASSUME RetryTime PROVE readiness = "ready"
  BY <1>6 DEF RetryTime
<1> QED BY <1>1, <1>2, <1>3, <1>4, <1>5, <1>6 DEF MonitoringNext, MonitoringStep

-----------------------------------------------------------------------------
LEMMA MonitoringStepSound ==
    ASSUME MonitoringInv, [MonitoringNext]_monitoringVars PROVE MonitoringInv'
<1>1. CASE UNCHANGED monitoringVars
  BY <1>1 DEF monitoringVars, MonitoringInv, MonitoringTypeOK, MarkedBefore, Owed, Room,
              UnmarkedCount, OwedCount, LegacyReanalyzed
<1>2. CASE MonitoringNext
  <2>1. MonitoringTypeOK /\ MarkedBefore /\ Owed /\ Room /\ LegacyReanalyzed
    BY DEF MonitoringInv
  <2>2. MonitoringTypeOK'
    BY <1>2, <2>1, TypeStep
  <2>3. MarkedBefore'
    BY <1>2, <2>1, MarkedStep
  <2>4. \A s \in Sessions : Kept(s) \/ Published(s) \/ Imported(s) \/ Marked(s)
    BY <1>2, <2>1, SessionStep
  <2>5. Owed'
    BY <2>1, <2>4, FixMonitoringAssumption
       DEF Owed, MonitoringTypeOK, Kept, Published, Imported, Marked
  <2>6. Room'
    <3> SUFFICES ASSUME NEW s \in Sessions
                 PROVE  (revision[s] + UnmarkedCount(s) + OwedCount(s) <= MaxRevision)'
      BY DEF Room
    <3>1. revision[s] + UnmarkedCount(s) + OwedCount(s) <= MaxRevision
      BY <2>1 DEF Room
    <3>2. revision[s] \in Nat /\ MaxRevision \in Nat /\ legacyMarked \in BOOLEAN
      BY <2>1, FixMonitoringAssumption DEF MonitoringTypeOK
    <3>3. CASE Kept(s)
      BY <3>1, <3>2, <3>3 DEF Kept, UnmarkedCount, OwedCount
    <3>4. CASE Published(s)
      BY <3>1, <3>2, <3>4 DEF Published, UnmarkedCount, OwedCount
    <3>5. CASE Imported(s)
      BY <3>1, <3>2, <3>5 DEF Imported, UnmarkedCount, OwedCount
    <3>6. CASE Marked(s)
      BY <3>1, <3>2, <3>6 DEF Marked, UnmarkedCount, OwedCount
    <3> QED BY <2>4, <3>3, <3>4, <3>5, <3>6
  <2>7. LegacyReanalyzed'
    <3> SUFFICES ASSUME readiness' = "ready" PROVE Legacy \subseteq reanalyzed'
      BY DEF LegacyReanalyzed
    <3>1. CASE readiness = "ready"
      <4>1. Legacy \subseteq reanalyzed
        BY <2>1, <3>1 DEF LegacyReanalyzed
      <4>2. Sessions # {} => reanalyzed \subseteq reanalyzed'
        BY <2>4 DEF Kept, Published, Imported, Marked
      <4> QED BY <4>1, <4>2, FixMonitoringAssumption
    <3>2. CASE readiness # "ready"
      BY <1>2, <2>1, <3>2, ReadyStep, FixMonitoringAssumption DEF Owed
    <3> QED BY <3>1, <3>2
  <2> QED BY <2>2, <2>3, <2>5, <2>6, <2>7 DEF MonitoringInv
<1> QED BY <1>1, <1>2

-----------------------------------------------------------------------------
(* The rows of the queue, the claims and the revisions stay within their      *)
(* types and bounds, whichever processes start, fail and stop.                *)
THEOREM MonitoringInvariant == MonitoringSpec => []MonitoringInv
<1>1. MonitoringInit => MonitoringInv
  BY MonitoringInitSound
<1>2. MonitoringInv /\ [MonitoringNext]_monitoringVars => MonitoringInv'
  BY MonitoringStepSound
<1> QED BY <1>1, <1>2, PTL DEF MonitoringSpec

(* Monitoring is not served before every old analysis has been made anew, for *)
(* any number of processes that mark, fail, stop and declare the store ready. *)
THEOREM ReadyMeansReanalyzed == MonitoringSpec => []LegacyReanalyzed
<1>1. MonitoringInv => LegacyReanalyzed
  BY DEF MonitoringInv
<1> QED BY <1>1, MonitoringInvariant, PTL

-----------------------------------------------------------------------------
(* The summaries: what every state of the tables, of the opening process and   *)
(* of a reader is like.  A refresh is of a few issues only, so the invariant   *)
(* says that all the others add up already; a build is of a generation, so it  *)
(* says how far it is if that generation is still the current one; and a page  *)
(* is of a generation, so it says what is still kept of that one.              *)

Codes == {"known", "none"}
Statuses == {"current", "failed", "pending"}
Occurrences == [id : Nat \ {0}, session : KnownSessions, issue : Issues, from : Nat, until : Nat,
                code : Codes]
Analyses == [session : KnownSessions, status : Statuses, from : Nat, until : Nat]
Values == [sessions : SUBSET KnownSessions, code : Codes, status : Statuses]
Summaries == [issue : Issues, from : Nat, until : Nat, value : Values]
Counts == [current : Nat, failed : Nat, pending : Nat]
Coverages == [from : Nat, until : Nat, value : Counts]

Databases ==
    [generation : Nat, retention : Nat, epoch : Nat,
     readiness : {"building", "ready"}, build : Nat, materialized : Nat, oldest : Nat,
     rows : SUBSET Occurrences, events : SUBSET KnownSessions, findings : SUBSET KnownSessions,
     analyses : SUBSET Analyses, summaries : SUBSET Summaries, coverage : SUBSET Coverages,
     times : SUBSET (Nat \X Nat),
     prepared12 : BOOLEAN, after12 : Nat, summarised12 : BOOLEAN, covered12 : BOOLEAN,
     ready12 : BOOLEAN,
     prepared13 : BOOLEAN, after13 : Nat, filled13 : BOOLEAN, ready13 : BOOLEAN]

RowsSane(d) ==
    /\ IsFiniteSet(d.rows) /\ \E n \in Nat : \A r \in d.rows : r.id <= n
    /\ \A r \in d.rows : r.session \in d.events

StoreSane(d, now) ==
    /\ d \in Databases /\ d.generation > 0
    /\ d.build <= d.generation /\ d.oldest <= d.generation
    /\ RowsSane(d)
    /\ \A t \in d.times : t[1] <= d.generation /\ t[2] <= now

(* What SummariesAgree says, of a database.                                   *)
Agrees(d) ==
    d.readiness = "ready" =>
        /\ d.materialized = d.generation
        /\ \A i \in Issues : Stored(d, i) = Aggregate(d, i)
        /\ {c.value : c \in Active(d.coverage)} = {Coverage(d)}

(* What the progress of the two migrations says.                              *)
ProgressSound(d) ==
    /\ d.prepared13 /\ ~d.filled13 => d.readiness = "building" /\ ~d.prepared12
    /\ d.ready13 => d.prepared13 /\ d.filled13 /\ d.readiness = "ready"
    /\ d.ready12 => d.readiness = "ready"
    /\ d.prepared12 => d.build > 0

(* A build of the generation that is still current has done what it has done. *)
InBuild(d) == d.readiness = "building" /\ d.prepared12 /\ d.build = d.generation

BuildSound(d) ==
    InBuild(d) =>
        /\ \A i \in Issues : \/ Stored(d, i) = Aggregate(d, i)
                             \/ Stored(d, i) = {} /\ \A r \in RowsOf(d, i) : r.id > d.after12
        /\ d.summarised12 => \A i \in Issues : Stored(d, i) = Aggregate(d, i)
        /\ d.covered12 => {c.value : c \in Active(d.coverage)} = {Coverage(d)}

FillSteps == {"fill", "filled"}
BuildSteps == {"summaries", "summarise", "summarised", "coverage", "finish"}
LateSteps == {"state", "reset", "verify", "finishValueFirst"}
Steps == {"closed", "open", "resetProgress", "prepare", "backfill"}
             \cup FillSteps \cup BuildSteps \cup LateSteps

BuilderTyped(b) ==
    /\ b = [step |-> b.step, read |-> b.read, last |-> b.last, attempts |-> b.attempts,
            build |-> b.build]
    /\ b.step \in Steps /\ b.last \in Nat /\ b.attempts \in Nat /\ b.build \in Nat

PlaceSound(step, read, last, d) ==
    /\ step = "prepare" => ~d.ready13
    /\ step = "backfill" => d.prepared13 /\ ~d.ready13
    /\ step \in FillSteps => d.prepared13 /\ ~d.filled13
    /\ step = "fill" => \A x \in read : x.code \in Codes
    /\ step \in BuildSteps \cup LateSteps => d.prepared13 /\ d.filled13
    /\ step = "reset" => d.readiness = "building"
    /\ step \in BuildSteps => d.readiness = "building" /\ d.prepared12
    /\ step = "summarise" => read \subseteq Issues
    /\ step \in {"coverage", "finish"} => d.summarised12
    /\ step = "finish" => d.covered12
    /\ InBuild(d) =>
        /\ step = "summarise" => \A r \in Active(d.rows) :
                r.id > d.after12 /\ r.id <= last => r.issue \in read
        /\ step = "summarised" => \A r \in Active(d.rows) : r.id <= d.after12

BuilderSound(b, d) == BuilderTyped(b) /\ PlaceSound(b.step, b.read, b.last, d)

PageSound(p, d, now) ==
    p # NoPage =>
        /\ p.snapshot \in Nat /\ p.issuedAt \in Nat /\ p.epoch \in Nat /\ p.retention \in Nat
        /\ p.issuedAt <= now /\ p.epoch <= d.epoch /\ p.retention <= d.retention
        /\ d.ready13 /\ p.epoch = d.epoch /\ p.retention = d.retention
           /\ now <= p.issuedAt + CursorLifetime =>
                /\ d.oldest <= p.snapshot /\ p.snapshot <= d.generation
                /\ SeenAt(d, p.snapshot) = p.shown
                /\ \A t \in d.times : t[2] < p.issuedAt => t[1] <= p.snapshot

Sound(d, b, p, now) ==
    /\ now \in Nat /\ StoreSane(d, now)
    /\ Agrees(d) /\ ProgressSound(d) /\ BuildSound(d)
    /\ BuilderSound(b, d)
    /\ PageSound(p, d, now)

SummaryInv == Sound(db, builder, page, minute)

-----------------------------------------------------------------------------
(* Rows that have a span. *)

(* y is x with another end.                                                   *)
SameBut(x, y) == \E u \in Nat : y = [x EXCEPT !.until = u]

Spanned(S) ==
    \A x \in S : /\ x.from \in Nat /\ x.until \in Nat /\ x = [x EXCEPT !.until = x.until]
                 /\ \A u \in Nat : /\ [x EXCEPT !.until = u].from = x.from
                                   /\ [x EXCEPT !.until = u].until = u

LEMMA TablesAreSpanned ==
    ASSUME NEW d \in Databases
    PROVE  Spanned(d.rows) /\ Spanned(d.analyses) /\ Spanned(d.summaries) /\ Spanned(d.coverage)
<1>1. d.rows \in SUBSET Occurrences /\ d.analyses \in SUBSET Analyses
      /\ d.summaries \in SUBSET Summaries /\ d.coverage \in SUBSET Coverages
  BY DEF Databases
<1>2. Spanned(d.rows)
  BY <1>1 DEF Spanned, Occurrences
<1>3. Spanned(d.analyses)
  BY <1>1 DEF Spanned, Analyses
<1>4. Spanned(d.summaries)
  BY <1>1 DEF Spanned, Summaries
<1>5. Spanned(d.coverage)
  BY <1>1 DEF Spanned, Coverages
<1> QED
  BY <1>2, <1>3, <1>4, <1>5

LEMMA EndedActive ==
    ASSUME NEW S, Spanned(S), NEW W, NEW g \in Nat, g > 0
    PROVE  Active(Ended(S, W, g)) = {x \in Active(S) : x \notin W}
<1>1. ASSUME NEW y \in Active(Ended(S, W, g)) PROVE y \in Active(S) /\ y \notin W
  <2>1. PICK x \in S : y = IF x \in W THEN [x EXCEPT !.until = g] ELSE x
    BY DEF Active, Ended
  <2>2. y.until = 0
    BY DEF Active, Open
  <2>3. x \notin W
    BY <2>1, <2>2 DEF Spanned
  <2> QED
    BY <2>1, <2>2, <2>3 DEF Active, Open
<1>2. ASSUME NEW x \in Active(S), x \notin W PROVE x \in Active(Ended(S, W, g))
  <2>1. x \in S /\ x.until = Open
    BY DEF Active
  <2>2. x \in Ended(S, W, g)
    BY <1>2, <2>1 DEF Ended
  <2> QED
    BY <2>1, <2>2 DEF Active
<1> QED
  BY <1>1, <1>2

(* Two tables show the same at h, up to when what they show ends.             *)
Continues(S, T, h) ==
    /\ \A x \in VisibleAt(S, h) : \E y \in VisibleAt(T, h) : SameBut(x, y)
    /\ \A y \in VisibleAt(T, h) : \E x \in VisibleAt(S, h) : SameBut(x, y)

LEMMA EndedContinues ==
    ASSUME NEW S, Spanned(S), NEW W, W \subseteq Active(S), NEW g \in Nat, NEW h \in Nat, h < g,
           NEW Later, \A x \in Later : x.from > h /\ x.from \in Nat
    PROVE  Continues(S, Ended(S, W, g) \cup Later, h)
<1> DEFINE T == Ended(S, W, g) \cup Later
<1>1. ASSUME NEW x \in VisibleAt(S, h) PROVE \E y \in VisibleAt(T, h) : SameBut(x, y)
  <2>1. x \in S /\ x.from <= h /\ (x.until = Open \/ x.until > h)
    BY DEF VisibleAt
  <2>2. CASE x \in W
    <3>1. PICK y : y = [x EXCEPT !.until = g]
      OBVIOUS
    <3>2. y \in T
      BY <2>1, <2>2, <3>1 DEF Ended
    <3>3. y.from = x.from /\ y.until = g
      BY <2>1, <3>1 DEF Spanned
    <3>4. y \in VisibleAt(T, h)
      BY <2>1, <3>2, <3>3 DEF VisibleAt
    <3> QED
      BY <3>1, <3>4 DEF SameBut
  <2>3. CASE x \notin W
    <3>1. x \in T
      BY <2>1, <2>3 DEF Ended
    <3>2. x \in VisibleAt(T, h)
      BY <2>1, <3>1 DEF VisibleAt
    <3>3. SameBut(x, x)
      BY <2>1 DEF Spanned, SameBut
    <3> QED
      BY <3>2, <3>3
  <2> QED
    BY <2>2, <2>3
<1>2. ASSUME NEW y \in VisibleAt(T, h) PROVE \E x \in VisibleAt(S, h) : SameBut(x, y)
  <2>1. y \in T /\ y.from <= h /\ (y.until = Open \/ y.until > h)
    BY DEF VisibleAt
  <2>2. y \notin Later
    BY <2>1
  <2>3. PICK x \in S : y = IF x \in W THEN [x EXCEPT !.until = g] ELSE x
    BY <2>1, <2>2 DEF Ended
  <2>4. CASE x \in W
    <3>1. x.until = Open
      BY <2>4 DEF Active
    <3>2. y = [x EXCEPT !.until = g] /\ y.from = x.from
      BY <2>3, <2>4 DEF Spanned
    <3>3. x \in VisibleAt(S, h)
      BY <2>1, <3>1, <3>2 DEF VisibleAt
    <3> QED
      BY <3>2, <3>3 DEF SameBut
  <2>5. CASE x \notin W
    <3>1. y = x
      BY <2>3, <2>5
    <3>2. x \in VisibleAt(S, h)
      BY <2>1, <3>1 DEF VisibleAt
    <3>3. SameBut(x, x)
      BY DEF Spanned, SameBut
    <3> QED
      BY <3>1, <3>2, <3>3
  <2> QED
    BY <2>4, <2>5
<1> QED
  BY <1>1, <1>2 DEF Continues

LEMMA SameContinues ==
    ASSUME NEW S, Spanned(S), NEW h
    PROVE  Continues(S, S, h)
<1>1. \A x \in VisibleAt(S, h) : SameBut(x, x)
  BY DEF VisibleAt, Spanned, SameBut
<1> QED
  BY <1>1 DEF Continues

(* What a table no longer keeps was not visible at h.                         *)
LEMMA KeptContinues ==
    ASSUME NEW S, NEW T, NEW h \in Nat, NEW k \in Nat, k <= h, Spanned(T), Continues(S, T, h)
    PROVE  Continues(S, {x \in T : x.until = Open \/ x.until > k}, h)
<1>1. VisibleAt({x \in T : x.until = Open \/ x.until > k}, h) = VisibleAt(T, h)
  <2>1. \A x \in T : x.until \in Nat
    BY DEF Spanned
  <2>2. \A x \in T : x.until > h => x.until > k
    BY <2>1
  <2> QED
    BY <2>2 DEF VisibleAt
<1> QED
  BY <1>1 DEF Continues

LEMMA SeenTheSame ==
    ASSUME NEW d \in Databases, NEW e \in Databases, NEW h \in Nat,
           Continues(d.rows, e.rows, h), Continues(d.analyses, e.analyses, h),
           Continues(d.summaries, e.summaries, h), Continues(d.coverage, e.coverage, h)
    PROVE  SeenAt(e, h) = SeenAt(d, h)
<1> DEFINE SummariesOf(x) == {<<v.issue, v.value>> : v \in VisibleAt(x.summaries, h)}
           CoverageSeen(x) == {c.value : c \in VisibleAt(x.coverage, h)}
           Both(x) == Joined(x, h)
           Shows(z) == <<z[1].issue, z[1].session, z[1].code, z[2].status>>
<1>1. /\ d.rows \in SUBSET Occurrences /\ d.analyses \in SUBSET Analyses
      /\ d.summaries \in SUBSET Summaries /\ d.coverage \in SUBSET Coverages
  BY DEF Databases
<1>2. \A x \in Occurrences : \A y : SameBut(x, y) =>
          y.issue = x.issue /\ y.session = x.session /\ y.code = x.code
  BY DEF SameBut, Occurrences
<1>3. \A x \in Analyses : \A y : SameBut(x, y) => y.session = x.session /\ y.status = x.status
  BY DEF SameBut, Analyses
<1>4. \A x \in Summaries : \A y : SameBut(x, y) => y.issue = x.issue /\ y.value = x.value
  BY DEF SameBut, Summaries
<1>5. \A x \in Coverages : \A y : SameBut(x, y) => y.value = x.value
  BY DEF SameBut, Coverages
<1>6. SummariesOf(e) = SummariesOf(d)
  <2>1. \A v \in VisibleAt(d.summaries, h) : v \in Summaries
    BY <1>1 DEF VisibleAt
  <2>2. ASSUME NEW v \in VisibleAt(d.summaries, h) PROVE <<v.issue, v.value>> \in SummariesOf(e)
    <3>1. PICK y \in VisibleAt(e.summaries, h) : SameBut(v, y)
      BY DEF Continues
    <3> QED
      BY <1>4, <2>1, <3>1
  <2>3. ASSUME NEW y \in VisibleAt(e.summaries, h) PROVE <<y.issue, y.value>> \in SummariesOf(d)
    <3>1. PICK v \in VisibleAt(d.summaries, h) : SameBut(v, y)
      BY DEF Continues
    <3> QED
      BY <1>4, <2>1, <3>1
  <2> QED
    BY <2>2, <2>3
<1>7. CoverageSeen(e) = CoverageSeen(d)
  <2>1. \A v \in VisibleAt(d.coverage, h) : v \in Coverages
    BY <1>1 DEF VisibleAt
  <2>2. ASSUME NEW v \in VisibleAt(d.coverage, h) PROVE v.value \in CoverageSeen(e)
    <3>1. PICK y \in VisibleAt(e.coverage, h) : SameBut(v, y)
      BY DEF Continues
    <3> QED
      BY <1>5, <2>1, <3>1
  <2>3. ASSUME NEW y \in VisibleAt(e.coverage, h) PROVE y.value \in CoverageSeen(d)
    <3>1. PICK v \in VisibleAt(d.coverage, h) : SameBut(v, y)
      BY DEF Continues
    <3> QED
      BY <1>5, <2>1, <3>1
  <2> QED
    BY <2>2, <2>3
<1>8. {Shows(z) : z \in Both(e)} = {Shows(z) : z \in Both(d)}
  <2>1. \A r \in VisibleAt(d.rows, h) : r \in Occurrences
    BY <1>1 DEF VisibleAt
  <2>2. \A a \in VisibleAt(d.analyses, h) : a \in Analyses
    BY <1>1 DEF VisibleAt
  <2>3. ASSUME NEW r \in VisibleAt(d.rows, h), NEW a \in VisibleAt(d.analyses, h),
               r.session = a.session
        PROVE  \E z \in Both(e) : Shows(z) = Shows(<<r, a>>)
    <3>1. PICK q \in VisibleAt(e.rows, h) : SameBut(r, q)
      BY DEF Continues
    <3>2. PICK b \in VisibleAt(e.analyses, h) : SameBut(a, b)
      BY DEF Continues
    <3>3. q.issue = r.issue /\ q.session = r.session /\ q.code = r.code
      BY <1>2, <2>1, <3>1
    <3>4. b.session = a.session /\ b.status = a.status
      BY <1>3, <2>2, <3>2
    <3>5. <<q, b>> \in Both(e)
      BY <2>3, <3>3, <3>4 DEF Joined
    <3>6. Shows(<<q, b>>) = Shows(<<r, a>>)
      BY <3>3, <3>4
    <3> QED
      BY <3>5, <3>6
  <2>4. ASSUME NEW q \in VisibleAt(e.rows, h), NEW b \in VisibleAt(e.analyses, h),
               q.session = b.session
        PROVE  \E z \in Both(d) : Shows(z) = Shows(<<q, b>>)
    <3>1. PICK r \in VisibleAt(d.rows, h) : SameBut(r, q)
      BY DEF Continues
    <3>2. PICK a \in VisibleAt(d.analyses, h) : SameBut(a, b)
      BY DEF Continues
    <3>3. q.issue = r.issue /\ q.session = r.session /\ q.code = r.code
      BY <1>2, <2>1, <3>1
    <3>4. b.session = a.session /\ b.status = a.status
      BY <1>3, <2>2, <3>2
    <3>5. <<r, a>> \in Both(d)
      BY <2>4, <3>3, <3>4 DEF Joined
    <3>6. Shows(<<r, a>>) = Shows(<<q, b>>)
      BY <3>3, <3>4
    <3> QED
      BY <3>5, <3>6
  <2>5. \A z \in Both(d) : \E y \in Both(e) : Shows(y) = Shows(z)
    BY <2>3 DEF Joined
  <2>6. \A z \in Both(e) : \E y \in Both(d) : Shows(y) = Shows(z)
    BY <2>4 DEF Joined
  <2> HIDE DEF Both, Shows
  <2> QED
    BY <2>5, <2>6
<1>9. ASSUME NEW x \in Databases
      PROVE  SeenAt(x, h) = [summaries |-> SummariesOf(x), coverage |-> CoverageSeen(x),
                             occurrences |-> {Shows(z) : z \in Both(x)}]
  BY DEF SeenAt
<1> HIDE DEF SummariesOf, CoverageSeen, Both, Shows
<1> QED
  BY <1>6, <1>7, <1>8, <1>9

-----------------------------------------------------------------------------
(* What a refresh does. *)

LEMMA NatHasLeast ==
    ASSUME NEW S \in SUBSET Nat, S # {}
    PROVE  \E k \in S : \A e \in S : k <= e
<1> DEFINE Less == {xy \in Nat \X Nat : xy[1] < xy[2]}
<1>1. IsWellFoundedOn(Less, Nat)
  BY Zenon, NatLessThanWellFounded DEF OpToRel
<1>2. PICK k \in S : \A e \in S : <<e, k>> \notin Less
  <2> HIDE DEF Less
  <2> QED
    BY <1>1, WFMin
<1>3. ASSUME NEW e \in S PROVE k <= e
  <2>1. <<e, k>> \notin Less
    BY <1>2
  <2> QED
    BY <2>1
<1> QED
  BY <1>3

LEMMA BoundedHasMax ==
    ASSUME NEW n \in Nat, NEW S \in SUBSET Nat, S # {}, \A k \in S : k <= n
    PROVE  Max(S) \in S /\ \A k \in S : k <= Max(S)
<1>1. \E k \in S : \A e \in S : e <= k
  <2> DEFINE T == {n - k : k \in S}
  <2>1. T \in SUBSET Nat /\ T # {}
    <3>1. \A k \in S : n - k \in Nat
      OBVIOUS
    <3>2. PICK k \in S : TRUE
      OBVIOUS
    <3>3. n - k \in T
      BY <3>2
    <3> QED
      BY <3>1, <3>3
  <2>2. \E m \in T : \A e \in T : m <= e
    <3> HIDE DEF T
    <3> QED
      BY <2>1, NatHasLeast
  <2>3. PICK m \in T : \A e \in T : m <= e
    BY <2>2
  <2>4. PICK k \in S : m = n - k
    BY <2>3
  <2>5. ASSUME NEW e \in S PROVE e <= k
    <3>1. n - e \in T
      OBVIOUS
    <3>2. n - k <= n - e
      BY <2>3, <2>4, <3>1
    <3>3. n \in Nat /\ k \in Nat /\ e \in Nat
      OBVIOUS
    <3> HIDE DEF T
    <3> QED
      BY <3>2, <3>3
  <2> QED
    BY <2>5
<1>2. \E x \in S : \A y \in S : x >= y
  BY <1>1
<1>3. Max(S) = CHOOSE x \in S : \A y \in S : x >= y
  BY DEF Max
<1>4. Max(S) \in S /\ \A y \in S : Max(S) >= y
  BY <1>2, <1>3
<1> QED
  BY <1>4

LEMMA AggregateTyped ==
    ASSUME NEW d \in Databases, NEW i
    PROVE  Aggregate(d, i) \in SUBSET Values
<1> DEFINE rows == RowsOf(d, i)
           analysed == AnalysesOf(d, rows)
           visible == {r \in rows : \E a \in analysed : a.session = r.session}
<1>1. d.rows \in SUBSET Occurrences
  BY DEF Databases
<1>2. \A r \in rows : r \in Occurrences
  BY <1>1 DEF RowsOf, Active
<1>3. {r.session : r \in visible} \in SUBSET KnownSessions
  BY <1>2 DEF Occurrences
<1>4. Worst({a.status : a \in analysed}) \in Statuses
  BY DEF Worst, Statuses
<1>5. (IF {r.code : r \in visible} = {"known"} THEN "known" ELSE "none") \in Codes
  BY DEF Codes
<1> HIDE DEF rows, analysed
<1>6. SummaryOf(rows, analysed) \in SUBSET Values
  BY <1>3, <1>4, <1>5 DEF SummaryOf, Values
<1> QED
  BY <1>6 DEF Aggregate, rows, analysed

LEMMA CoverageTyped ==
    ASSUME IssueSummaryAssumption, NEW d \in Databases
    PROVE  Coverage(d) \in Counts
<1> DEFINE analyses == Active(d.analyses)
<1>1. d.events \in SUBSET KnownSessions /\ IsFiniteSet(KnownSessions)
  BY DEF Databases, IssueSummaryAssumption
<1>2. \A S \in SUBSET d.events : Cardinality(S) \in Nat
  BY <1>1, FS_Subset, FS_CardinalityType
<1> HIDE DEF analyses
<1>3. CoverageOf(d.events, analyses) \in Counts
  BY <1>2 DEF CoverageOf, Counts
<1> QED
  BY <1>3 DEF Coverage, analyses

LEMMA EndedTyped ==
    ASSUME NEW g \in Nat, NEW W
    PROVE  /\ \A S \in SUBSET Occurrences : Ended(S, W, g) \in SUBSET Occurrences
           /\ \A S \in SUBSET Analyses : Ended(S, W, g) \in SUBSET Analyses
           /\ \A S \in SUBSET Summaries : Ended(S, W, g) \in SUBSET Summaries
           /\ \A S \in SUBSET Coverages : Ended(S, W, g) \in SUBSET Coverages
<1>1. \A x \in Occurrences : [x EXCEPT !.until = g] \in Occurrences
  BY DEF Occurrences
<1>2. \A x \in Analyses : [x EXCEPT !.until = g] \in Analyses
  BY DEF Analyses
<1>3. \A x \in Summaries : [x EXCEPT !.until = g] \in Summaries
  BY DEF Summaries
<1>4. \A x \in Coverages : [x EXCEPT !.until = g] \in Coverages
  BY DEF Coverages
<1>5. \A S \in SUBSET Occurrences : Ended(S, W, g) \in SUBSET Occurrences
  BY <1>1 DEF Ended
<1>6. \A S \in SUBSET Analyses : Ended(S, W, g) \in SUBSET Analyses
  BY <1>2 DEF Ended
<1>7. \A S \in SUBSET Summaries : Ended(S, W, g) \in SUBSET Summaries
  BY <1>3 DEF Ended
<1>8. \A S \in SUBSET Coverages : Ended(S, W, g) \in SUBSET Coverages
  BY <1>4 DEF Ended
<1> QED
  BY <1>5, <1>6, <1>7, <1>8

(* The values of an issue's summaries that are not ended.                     *)
ValuesIn(S, i) == {v.value : v \in {v \in Active(S) : v.issue = i}}

LEMMA RefreshedSummariesMean ==
    ASSUME NEW d \in Databases, NEW issues \in SUBSET Issues, NEW g \in Nat, g > 0
    PROVE  /\ RefreshedSummaries(d, issues, g) \in SUBSET Summaries
           /\ \A i \in Issues : ValuesIn(RefreshedSummaries(d, issues, g), i) =
                                    IF i \in issues THEN Aggregate(d, i) ELSE Stored(d, i)
           /\ \A h \in Nat : h < g =>
                 Continues(d.summaries, RefreshedSummaries(d, issues, g), h)
<1> DEFINE changed == ChangedIssues(d, issues)
           ended == {v \in Active(d.summaries) : v.issue \in changed}
           New(i) == {[issue |-> i, from |-> g, until |-> Open, value |-> x]
                         : x \in Aggregate(d, i)}
           later == UNION {New(i) : i \in changed}
           S == Ended(d.summaries, ended, g)
<1>1. RefreshedSummaries(d, issues, g) = S \cup later
  BY DEF RefreshedSummaries
<1>2. d.summaries \in SUBSET Summaries /\ Spanned(d.summaries)
  BY TablesAreSpanned DEF Databases
<1>3. /\ changed \in SUBSET Issues
      /\ \A i \in issues : i \notin changed => Stored(d, i) = Aggregate(d, i)
  BY DEF ChangedIssues
<1>4. \A i \in changed : \A v \in New(i) :
         /\ v \in Summaries /\ v.issue = i /\ v.from = g /\ v.until = Open
         /\ v.value \in Aggregate(d, i)
  <2>1. \A i \in changed : Aggregate(d, i) \in SUBSET Values
    BY AggregateTyped
  <2> QED
    BY <1>3, <2>1 DEF Summaries, Open
<1>5. ASSUME NEW i \in changed, NEW x \in Aggregate(d, i) PROVE \E v \in New(i) : v.value = x
  <2>1. [issue |-> i, from |-> g, until |-> Open, value |-> x] \in New(i)
    OBVIOUS
  <2> QED
    BY <2>1
<1> HIDE DEF New, changed
<1>6. later \in SUBSET Summaries /\ \A v \in later : v.from = g /\ v.until = Open
  BY <1>4
<1>7. S \in SUBSET Summaries
  BY <1>2, EndedTyped
<1>8. Active(S) = {v \in Active(d.summaries) : v.issue \notin changed}
  <2>1. Active(S) = {v \in Active(d.summaries) : v \notin ended}
    <3> HIDE DEF ended
    <3> QED
      BY <1>2, EndedActive
  <2> QED
    BY <2>1
<1>9. Active(S \cup later) = Active(S) \cup later
  BY <1>6 DEF Active
<1>10. ASSUME NEW i \in Issues
       PROVE  ValuesIn(S \cup later, i) = IF i \in issues THEN Aggregate(d, i) ELSE Stored(d, i)
  <2>1. CASE i \in changed
    <3>1. {v \in Active(S \cup later) : v.issue = i} = New(i)
      <4>1. \A v \in Active(S) : v.issue # i
        BY <1>8, <2>1
      <4>2. \A v \in New(i) : v \in later /\ v.issue = i
        BY <1>4, <2>1
      <4>3. \A v \in later : v.issue = i => v \in New(i)
        BY <1>4
      <4> HIDE DEF S, later
      <4> QED
        BY <1>9, <4>1, <4>2, <4>3
    <3>2. {v.value : v \in New(i)} = Aggregate(d, i)
      BY <1>4, <1>5, <2>1
    <3>3. i \in issues
      BY <2>1 DEF changed, ChangedIssues
    <3> QED
      BY <3>1, <3>2, <3>3 DEF ValuesIn
  <2>2. CASE i \notin changed
    <3>1. {v \in Active(S \cup later) : v.issue = i} = {v \in Active(d.summaries) : v.issue = i}
      <4>1. \A v \in later : v.issue # i
        BY <1>4, <2>2
      <4> HIDE DEF S, later
      <4> QED
        BY <1>8, <1>9, <2>2, <4>1
    <3>2. ValuesIn(S \cup later, i) = Stored(d, i)
      BY <3>1 DEF ValuesIn, Stored
    <3> QED
      BY <1>3, <2>2, <3>2
  <2> QED
    BY <2>1, <2>2
<1>11. ASSUME NEW h \in Nat, h < g PROVE Continues(d.summaries, S \cup later, h)
  <2>1. ended \subseteq Active(d.summaries)
    OBVIOUS
  <2>2. \A v \in later : v.from > h /\ v.from \in Nat
    BY <1>6, <1>11
  <2> HIDE DEF ended, later
  <2> QED
    BY <1>2, <1>11, <2>1, <2>2, EndedContinues
<1> HIDE DEF S, later
<1> QED
  BY <1>1, <1>6, <1>7, <1>10, <1>11

LEMMA RefreshedCoverageMeans ==
    ASSUME IssueSummaryAssumption, NEW d \in Databases, NEW g \in Nat, g > 0,
           \A b, c \in Active(d.coverage) : b.value = c.value
    PROVE  /\ RefreshedCoverage(d, g) \in SUBSET Coverages
           /\ {c.value : c \in Active(RefreshedCoverage(d, g))} = {Coverage(d)}
           /\ \A h \in Nat : h < g => Continues(d.coverage, RefreshedCoverage(d, g), h)
<1>1. d.coverage \in SUBSET Coverages /\ Spanned(d.coverage)
  BY TablesAreSpanned DEF Databases
<1>2. PICK x \in Counts : x = Coverage(d)
  BY CoverageTyped
<1>3. CASE \E c \in Active(d.coverage) : c.value = x
  <2>1. RefreshedCoverage(d, g) = d.coverage
    BY <1>2, <1>3 DEF RefreshedCoverage
  <2>2. {c.value : c \in Active(d.coverage)} = {x}
    BY <1>3
  <2> QED
    BY <1>1, <1>2, <2>1, <2>2, SameContinues
<1>4. CASE ~ \E c \in Active(d.coverage) : c.value = x
  <2> DEFINE S == Ended(d.coverage, Active(d.coverage), g)
             new == [from |-> g, until |-> Open, value |-> x]
  <2>1. RefreshedCoverage(d, g) = S \cup {new}
    BY <1>2, <1>4 DEF RefreshedCoverage
  <2>2. S \in SUBSET Coverages
    BY <1>1, EndedTyped
  <2>3. new \in Coverages /\ new.from = g /\ new.until = Open /\ new.value = x
    BY DEF Coverages, Open
  <2>4. Active(S) = {}
    <3>1. Active(S) = {c \in Active(d.coverage) : c \notin Active(d.coverage)}
      BY <1>1, EndedActive
    <3> QED
      BY <3>1
  <2> HIDE DEF new
  <2>5. Active(S \cup {new}) = {new}
    <3> HIDE DEF S
    <3> QED
      BY <2>3, <2>4 DEF Active
  <2>6. ASSUME NEW h \in Nat, h < g PROVE Continues(d.coverage, S \cup {new}, h)
    <3>1. \A c \in {new} : c.from > h /\ c.from \in Nat
      BY <2>3, <2>6
    <3> QED
      BY <1>1, <2>6, <3>1, EndedContinues
  <2>7. {c.value : c \in Active(S \cup {new})} = {x}
    BY <2>3, <2>5
  <2> HIDE DEF S
  <2>8. S \cup {new} \in SUBSET Coverages
    BY <2>2, <2>3
  <2> QED
    BY <1>2, <2>1, <2>6, <2>7, <2>8
<1> QED
  BY <1>3, <1>4

(* What a refresh leaves alone.                                               *)
Rest(d) ==
    <<d.generation, d.retention, d.epoch, d.readiness, d.build, d.rows, d.events, d.findings,
      d.analyses, d.prepared12, d.after12, d.summarised12, d.covered12, d.ready12,
      d.prepared13, d.after13, d.filled13, d.ready13>>

(* What is kept of a table by a compaction through k.                         *)
KeptAfter(S, k) == {x \in S : x.until = Open \/ x.until > k}

Dated(d) == \A t \in d.times : t[1] <= d.generation
OneCoverage(d) == \A b, c \in Active(d.coverage) : b.value = c.value

\* e is m after a compaction through some k.
CompactedBy(m, e, now) ==
    \E k \in Nat :
        /\ k = 0 \/ \E t \in m.times : t[1] = k /\ t[2] + CursorLifetime < now
        /\ e.oldest = m.oldest \/ e.oldest = k
        /\ e.summaries = KeptAfter(m.summaries, k)
        /\ e.coverage = KeptAfter(m.coverage, k)

LEMMA CompactionMeans ==
    ASSUME IssueSummaryAssumption, NEW m \in Databases, NEW now \in Nat,
           Dated(m), NEW e, e = Compacted(m, now)
    PROVE  /\ e \in Databases /\ Rest(e) = Rest(m) /\ e.materialized = m.materialized
           /\ e.times \subseteq m.times
           /\ CompactedBy(m, e, now)
<1> DEFINE past == {t \in m.times : t[2] + CursorLifetime < now}
           old == {t[1] : t \in past}
           through == CompactThrough(m, now)
<1>1. m.times \in SUBSET (Nat \X Nat) /\ m.generation \in Nat /\ m.oldest \in Nat
      /\ m.summaries \in SUBSET Summaries /\ m.coverage \in SUBSET Coverages
  BY DEF Databases
<1>2. CASE through <= m.oldest
  <2>1. e = m
    BY <1>2 DEF Compacted
  <2>2. \A x \in m.summaries \cup m.coverage : x.until \in Nat
    BY <1>1 DEF Summaries, Coverages
  <2>3. \A x \in m.summaries \cup m.coverage : x.until = Open \/ x.until > 0
    BY <2>2 DEF Open
  <2>4. /\ m.summaries = KeptAfter(m.summaries, 0)
        /\ m.coverage = KeptAfter(m.coverage, 0)
    BY <2>3 DEF KeptAfter
  <2> QED
    BY <2>1, <2>4 DEF CompactedBy
<1>3. CASE ~(through <= m.oldest)
  <2>1. through = 0 \/ through \in old
    <3>1. CASE old = {}
      BY <3>1 DEF CompactThrough
    <3>2. CASE old # {}
      <4>1. through = Max(old)
        BY <3>2 DEF CompactThrough
      <4>2. old \in SUBSET Nat /\ \A k \in old : k <= m.generation
        BY <1>1 DEF Dated
      <4> HIDE DEF old, through
      <4> QED
        BY <1>1, <3>2, <4>1, <4>2, BoundedHasMax
    <3> QED
      BY <3>1, <3>2
  <2>2. through \in Nat /\ (through = 0 \/ \E t \in m.times : t[1] = through
                                              /\ t[2] + CursorLifetime < now)
    <3> HIDE DEF through
    <3> QED
      BY <1>1, <2>1
  <2>3. e = [m EXCEPT !.summaries = KeptAfter(m.summaries, through),
                      !.coverage = KeptAfter(m.coverage, through),
                      !.times = {t \in m.times : t[1] >= through}, !.oldest = through]
    BY <1>3 DEF Compacted, KeptAfter
  <2>4. /\ KeptAfter(m.summaries, through) \in SUBSET Summaries
        /\ KeptAfter(m.coverage, through) \in SUBSET Coverages
        /\ {t \in m.times : t[1] >= through} \in SUBSET (Nat \X Nat)
    BY <1>1 DEF KeptAfter
  <2> HIDE DEF through, old
  <2>5. PICK k \in Nat : k = through
    BY <2>2
  <2>6. e \in Databases
    BY <2>2, <2>3, <2>4 DEF Databases
  <2>7. /\ e.summaries = KeptAfter(m.summaries, through)
        /\ e.coverage = KeptAfter(m.coverage, through) /\ e.oldest = through
        /\ e.times = {t \in m.times : t[1] >= through} /\ e.materialized = m.materialized
        /\ Rest(e) = Rest(m)
    BY <2>3 DEF Databases, Rest
  <2> QED
    BY <2>2, <2>5, <2>6, <2>7 DEF CompactedBy
<1> QED
  BY <1>2, <1>3

\* What e shows of the generations before that of d is what d shows of them,
\* after a compaction through some k.
Reaches(d, e, now) ==
    \E k \in Nat :
        /\ k = 0 \/ \E t \in d.times : t[1] = k /\ t[2] + CursorLifetime < now
        /\ e.oldest = d.oldest \/ e.oldest = k
        /\ \A h \in Nat : k <= h /\ h < d.generation =>
              /\ Continues(d.summaries, e.summaries, h)
              /\ Continues(d.coverage, e.coverage, h)

LEMMA RefreshedMeans ==
    ASSUME IssueSummaryAssumption, NEW d \in Databases, NEW issues \in SUBSET Issues,
           NEW now \in Nat, d.generation > 0, d.readiness = "ready",
           Dated(d), OneCoverage(d),
           NEW e, e = Refreshed(d, issues, now)
    PROVE  /\ e \in Databases /\ Rest(e) = Rest(d) /\ e.materialized = d.generation
           /\ \A i \in Issues :
                Stored(e, i) = IF i \in issues THEN Aggregate(d, i) ELSE Stored(d, i)
           /\ {c.value : c \in Active(e.coverage)} = {Coverage(d)}
           /\ e.times \subseteq d.times \cup {<<d.generation, now>>}
           /\ Reaches(d, e, now)
<1> DEFINE g == d.generation
           S == RefreshedSummaries(d, issues, g)
           C == RefreshedCoverage(d, g)
<1>1. PICK m : /\ m = [d EXCEPT !.summaries = S, !.coverage = C,
                                 !.times = @ \cup {<<g, now>>}, !.materialized = g]
               /\ e = Compacted(m, now)
  BY DEF Refreshed
<1>2. g \in Nat /\ d.times \in SUBSET (Nat \X Nat)
  BY DEF Databases
<1>3. /\ S \in SUBSET Summaries
      /\ \A i \in Issues : ValuesIn(S, i) = IF i \in issues THEN Aggregate(d, i) ELSE Stored(d, i)
      /\ \A h \in Nat : h < g => Continues(d.summaries, S, h)
  BY <1>2, RefreshedSummariesMean
<1>4. /\ C \in SUBSET Coverages /\ {c.value : c \in Active(C)} = {Coverage(d)}
      /\ \A h \in Nat : h < g => Continues(d.coverage, C, h)
  BY <1>2, RefreshedCoverageMeans DEF OneCoverage
<1> HIDE DEF S, C
<1>5. d.times \cup {<<g, now>>} \in SUBSET (Nat \X Nat)
  BY <1>2
<1>6. m \in Databases
  BY <1>1, <1>2, <1>3, <1>4, <1>5 DEF Databases
<1>7. /\ m.summaries = S /\ m.coverage = C /\ m.times = d.times \cup {<<g, now>>}
      /\ m.materialized = g /\ m.oldest = d.oldest /\ Rest(m) = Rest(d) /\ m.generation = g
  BY <1>1 DEF Databases, Rest
<1>8. Dated(m)
  BY <1>2, <1>7 DEF Dated
<1>9. /\ e \in Databases /\ Rest(e) = Rest(m) /\ e.materialized = m.materialized
      /\ e.times \subseteq m.times
      /\ CompactedBy(m, e, now)
  BY <1>1, <1>6, <1>8, CompactionMeans
<1>10. PICK k \in Nat :
            /\ k = 0 \/ \E t \in m.times : t[1] = k /\ t[2] + CursorLifetime < now
            /\ e.oldest = m.oldest \/ e.oldest = k
            /\ e.summaries = KeptAfter(S, k)
            /\ e.coverage = KeptAfter(C, k)
  BY <1>7, <1>9 DEF CompactedBy
<1>11. k = 0 \/ \E t \in d.times : t[1] = k /\ t[2] + CursorLifetime < now
  <2>1. ~(now + CursorLifetime < now)
    BY DEF IssueSummaryAssumption
  <2>2. ASSUME NEW t \in m.times, t[2] + CursorLifetime < now PROVE t \in d.times
    <3>1. t # <<g, now>>
      BY <2>1, <2>2
    <3> QED
      BY <1>7, <3>1
  <2> QED
    BY <1>10, <2>2
<1>12. ASSUME NEW i \in Issues
       PROVE  Stored(e, i) = IF i \in issues THEN Aggregate(d, i) ELSE Stored(d, i)
  <2>1. Active(e.summaries) = Active(S)
    BY <1>10 DEF Active, KeptAfter
  <2>2. Stored(e, i) = ValuesIn(S, i)
    BY <2>1 DEF Stored, ValuesIn
  <2> QED
    BY <1>3, <2>2
<1>13. {c.value : c \in Active(e.coverage)} = {Coverage(d)}
  <2>1. Active(e.coverage) = Active(C)
    BY <1>10 DEF Active, KeptAfter
  <2> QED
    BY <1>4, <2>1
<1>14. ASSUME NEW h \in Nat, k <= h, h < g
       PROVE  Continues(d.summaries, e.summaries, h) /\ Continues(d.coverage, e.coverage, h)
  <2>1. Spanned(S) /\ Spanned(C)
    BY <1>6, <1>7, TablesAreSpanned
  <2>2. Continues(d.summaries, S, h) /\ Continues(d.coverage, C, h)
    BY <1>3, <1>4, <1>14
  <2>3. Continues(d.summaries, KeptAfter(S, k), h)
    BY <1>14, <2>1, <2>2, KeptContinues DEF KeptAfter
  <2>4. Continues(d.coverage, KeptAfter(C, k), h)
    BY <1>14, <2>1, <2>2, KeptContinues DEF KeptAfter
  <2> QED
    BY <1>10, <2>3, <2>4
<1>15. Reaches(d, e, now)
  BY <1>7, <1>10, <1>11, <1>14 DEF Reaches
<1> QED
  BY <1>7, <1>9, <1>12, <1>13, <1>15

-----------------------------------------------------------------------------
(* What a transaction keeps. *)

Progress(d) ==
    <<d.epoch, d.readiness, d.build, d.prepared12, d.after12, d.summarised12, d.covered12,
      d.ready12, d.prepared13, d.after13, d.filled13, d.ready13>>

Materials(d) == <<d.summaries, d.coverage, d.times, d.materialized, d.oldest, d.retention>>

\* d is o with a generation of its own, before the summaries are refreshed.
Follows(d, o) ==
    /\ d \in Databases /\ RowsSane(d)
    /\ d.generation = o.generation + 1
    /\ Progress(d) = Progress(o) /\ Materials(d) = Materials(o)

\* Only the summaries of these issues can be others.
Touches(d, o, issues) == \A i \in Issues \ issues : Aggregate(d, i) = Aggregate(o, i)

LEMMA RestMeans ==
    ASSUME NEW d, NEW e, Rest(e) = Rest(d)
    PROVE  /\ e.generation = d.generation /\ e.retention = d.retention
           /\ Progress(e) = Progress(d) /\ e.rows = d.rows /\ e.analyses = d.analyses
           /\ e.events = d.events /\ e.findings = d.findings
           /\ \A i \in Issues : Aggregate(e, i) = Aggregate(d, i)
           /\ Coverage(e) = Coverage(d)
<1>1. /\ e.generation = d.generation /\ e.retention = d.retention
      /\ Progress(e) = Progress(d) /\ e.rows = d.rows /\ e.analyses = d.analyses
      /\ e.events = d.events /\ e.findings = d.findings
  BY DEF Rest, Progress
<1>2. \A i \in Issues : Aggregate(e, i) = Aggregate(d, i)
  <2>1. \A i \in Issues : RowsOf(e, i) = RowsOf(d, i)
    BY <1>1 DEF RowsOf
  <2>2. \A R : AnalysesOf(e, R) = AnalysesOf(d, R)
    BY <1>1 DEF AnalysesOf
  <2> QED
    BY <2>1, <2>2 DEF Aggregate
<1>3. Coverage(e) = Coverage(d)
  BY <1>1 DEF Coverage
<1> QED
  BY <1>1, <1>2, <1>3

(* A refresh of the issues that a transaction touched makes the summaries     *)
(* agree again.                                                               *)
LEMMA RefreshKeeps ==
    ASSUME IssueSummaryAssumption, NEW now \in Nat,
           NEW o, StoreSane(o, now), Agrees(o),
           NEW d, Follows(d, o), NEW issues \in SUBSET Issues, Touches(d, o, issues),
           NEW e, e = Refreshed(d, issues, now)
    PROVE  /\ StoreSane(e, now) /\ Agrees(e) /\ Progress(e) = Progress(o)
           /\ e.generation = o.generation + 1 /\ e.retention = o.retention
           /\ e.rows = d.rows /\ e.analyses = d.analyses
           /\ e.events = d.events /\ e.findings = d.findings
<1>1. /\ d \in Databases /\ o \in Databases /\ RowsSane(d) /\ d.generation = o.generation + 1
      /\ d.build = o.build /\ d.readiness = o.readiness /\ d.retention = o.retention
      /\ d.times = o.times /\ d.oldest = o.oldest /\ d.coverage = o.coverage
      /\ d.summaries = o.summaries /\ Progress(d) = Progress(o)
  BY DEF Follows, Progress, Materials, StoreSane
<1>2. /\ o.generation \in Nat /\ o.generation > 0 /\ o.build \in Nat /\ o.oldest \in Nat
      /\ o.build <= o.generation /\ o.oldest <= o.generation
      /\ o.times \in SUBSET (Nat \X Nat)
      /\ \A t \in o.times : t[1] <= o.generation /\ t[2] <= now
  BY DEF StoreSane, Databases
<1>3. CASE d.readiness = "building"
  <2>1. e = d
    BY <1>3 DEF Refreshed
  <2>2. StoreSane(d, now)
    BY <1>1, <1>2 DEF StoreSane
  <2>3. Agrees(d)
    BY <1>3 DEF Agrees
  <2> QED
    BY <1>1, <2>1, <2>2, <2>3
<1>4. CASE d.readiness # "building"
  <2>1. d.readiness = "ready" /\ d.generation > 0
    BY <1>1, <1>2, <1>4 DEF Databases
  <2>2. Dated(d)
    BY <1>1, <1>2 DEF Dated
  <2>3. OneCoverage(d)
    <3>1. {c.value : c \in Active(o.coverage)} = {Coverage(o)}
      BY <1>1, <2>1 DEF Agrees
    <3> QED
      BY <1>1, <3>1 DEF OneCoverage
  <2>4. /\ e \in Databases /\ Rest(e) = Rest(d) /\ e.materialized = d.generation
        /\ \A i \in Issues : Stored(e, i) = IF i \in issues THEN Aggregate(d, i) ELSE Stored(d, i)
        /\ {c.value : c \in Active(e.coverage)} = {Coverage(d)}
        /\ e.times \subseteq d.times \cup {<<d.generation, now>>}
        /\ Reaches(d, e, now)
    BY <1>1, <2>1, <2>2, <2>3, RefreshedMeans
  <2>5. /\ e.generation = d.generation /\ e.retention = d.retention
        /\ Progress(e) = Progress(d) /\ e.rows = d.rows /\ e.analyses = d.analyses
        /\ e.events = d.events /\ e.findings = d.findings
        /\ \A i \in Issues : Aggregate(e, i) = Aggregate(d, i)
        /\ Coverage(e) = Coverage(d)
    BY <2>4, RestMeans
  <2>6. RowsSane(e)
    BY <1>1, <2>5 DEF RowsSane
  <2>7. e.oldest <= e.generation
    BY <1>1, <1>2, <2>4, <2>5 DEF Reaches
  <2>8. \A t \in e.times : t[1] <= e.generation /\ t[2] <= now
    BY <1>1, <1>2, <2>4, <2>5
  <2>9. e.generation > 0 /\ e.build <= e.generation
    BY <1>1, <1>2, <2>5 DEF Progress
  <2>10. StoreSane(e, now)
    BY <2>4, <2>6, <2>7, <2>8, <2>9 DEF StoreSane
  <2>11. \A i \in Issues : Stored(e, i) = Aggregate(e, i)
    <3>1. \A i \in Issues : Stored(d, i) = Stored(o, i)
      BY <1>1 DEF Stored
    <3>2. \A i \in Issues : Stored(o, i) = Aggregate(o, i)
      BY <1>1, <2>1 DEF Agrees
    <3> QED
      BY <2>4, <2>5, <3>1, <3>2 DEF Touches
  <2>12. Agrees(e)
    BY <2>4, <2>5, <2>11 DEF Agrees
  <2> QED
    BY <1>1, <2>5, <2>10, <2>12
<1> QED
  BY <1>3, <1>4

(* A page whose cursors are still accepted shows what it showed.              *)
LEMMA RefreshStands ==
    ASSUME IssueSummaryAssumption, NEW now \in Nat,
           NEW o, StoreSane(o, now), Agrees(o), ProgressSound(o),
           NEW d, Follows(d, o), NEW issues \in SUBSET Issues,
           \A h \in Nat : h < d.generation =>
               Continues(o.rows, d.rows, h) /\ Continues(o.analyses, d.analyses, h),
           NEW e, e = Refreshed(d, issues, now), e \in Databases,
           NEW p, PageSound(p, o, now)
    PROVE  PageSound(p, e, now)
<1>1. /\ d \in Databases /\ o \in Databases /\ d.generation = o.generation + 1
      /\ d.epoch = o.epoch /\ d.ready13 = o.ready13
      /\ d.readiness = o.readiness /\ d.retention = o.retention
      /\ d.times = o.times /\ d.oldest = o.oldest /\ d.coverage = o.coverage
      /\ d.summaries = o.summaries
  BY DEF Follows, Progress, Materials, StoreSane
<1>2. /\ o.generation \in Nat /\ o.generation > 0 /\ o.oldest \in Nat
      /\ o.times \in SUBSET (Nat \X Nat) /\ CursorLifetime \in Nat
      /\ \A t \in o.times : t[1] <= o.generation /\ t[2] <= now
  BY DEF StoreSane, Databases, IssueSummaryAssumption
<1> SUFFICES ASSUME p # NoPage PROVE PageSound(p, e, now)
  BY DEF PageSound
<1>3. /\ p.snapshot \in Nat /\ p.issuedAt \in Nat /\ p.epoch \in Nat /\ p.retention \in Nat
      /\ p.issuedAt <= now /\ p.epoch <= o.epoch /\ p.retention <= o.retention
  BY DEF PageSound
<1>4. CASE d.readiness = "building"
  <2>1. e = d
    BY <1>4 DEF Refreshed
  <2>2. ~o.ready13
    BY <1>1, <1>4 DEF ProgressSound
  <2> QED
    BY <1>1, <1>3, <2>1, <2>2 DEF PageSound
<1>5. CASE d.readiness # "building"
  <2>1. d.readiness = "ready" /\ d.generation > 0
    BY <1>1, <1>2, <1>5 DEF Databases
  <2>2. Dated(d)
    BY <1>1, <1>2 DEF Dated
  <2>3. OneCoverage(d)
    <3>1. {c.value : c \in Active(o.coverage)} = {Coverage(o)}
      BY <1>1, <2>1 DEF Agrees
    <3> QED
      BY <1>1, <3>1 DEF OneCoverage
  <2>4. /\ Rest(e) = Rest(d) /\ e.times \subseteq d.times \cup {<<d.generation, now>>}
        /\ Reaches(d, e, now)
    BY <1>1, <2>1, <2>2, <2>3, RefreshedMeans
  <2>5. /\ e.generation = d.generation /\ e.retention = d.retention
        /\ Progress(e) = Progress(d) /\ e.rows = d.rows /\ e.analyses = d.analyses
    BY <2>4, RestMeans
  <2>6. e.epoch = o.epoch /\ e.ready13 = o.ready13 /\ e.retention = o.retention
    BY <1>1, <2>5 DEF Progress
  <2>7. ASSUME o.ready13, p.epoch = o.epoch, p.retention = o.retention,
               now <= p.issuedAt + CursorLifetime
        PROVE  /\ e.oldest <= p.snapshot /\ p.snapshot <= e.generation
               /\ SeenAt(e, p.snapshot) = p.shown
               /\ \A t \in e.times : t[2] < p.issuedAt => t[1] <= p.snapshot
    <3>1. /\ o.oldest <= p.snapshot /\ p.snapshot <= o.generation
          /\ SeenAt(o, p.snapshot) = p.shown
          /\ \A t \in o.times : t[2] < p.issuedAt => t[1] <= p.snapshot
      BY <2>7 DEF PageSound
    <3>2. PICK k \in Nat :
             /\ k = 0 \/ \E t \in d.times : t[1] = k /\ t[2] + CursorLifetime < now
             /\ e.oldest = d.oldest \/ e.oldest = k
             /\ \A h \in Nat : k <= h /\ h < d.generation =>
                   /\ Continues(d.summaries, e.summaries, h)
                   /\ Continues(d.coverage, e.coverage, h)
      BY <2>4 DEF Reaches
    <3>3. k <= p.snapshot
      <4>1. CASE k = 0
        BY <1>3, <4>1
      <4>2. CASE k # 0
        <5>1. PICK t \in o.times : t[1] = k /\ t[2] + CursorLifetime < now
          BY <1>1, <3>2, <4>2
        <5>2. t[2] \in Nat
          BY <1>2
        <5>3. t[2] < p.issuedAt
          BY <1>2, <1>3, <2>7, <5>1, <5>2
        <5> QED
          BY <3>1, <5>1, <5>3
      <4> QED
        BY <4>1, <4>2
    <3>4. p.snapshot < d.generation
      BY <1>1, <1>2, <1>3, <3>1
    <3>5. /\ Continues(o.summaries, e.summaries, p.snapshot)
          /\ Continues(o.coverage, e.coverage, p.snapshot)
      BY <1>1, <1>3, <3>2, <3>3, <3>4
    <3>6. Continues(o.rows, e.rows, p.snapshot) /\ Continues(o.analyses, e.analyses, p.snapshot)
      BY <1>3, <2>5, <3>4
    <3>7. SeenAt(e, p.snapshot) = SeenAt(o, p.snapshot)
      BY <1>1, <1>3, <3>5, <3>6, SeenTheSame
    <3>8. ASSUME NEW t \in e.times, t[2] < p.issuedAt PROVE t[1] <= p.snapshot
      <4>1. t # <<d.generation, now>>
        BY <1>3, <3>8
      <4>2. t \in o.times
        BY <1>1, <2>4, <4>1
      <4> QED
        BY <3>1, <3>8, <4>2
    <3>9. e.oldest <= p.snapshot
      BY <1>1, <3>1, <3>2, <3>3
    <3>10. p.snapshot <= e.generation
      BY <1>1, <1>2, <1>3, <2>5, <3>4
    <3> QED
      BY <3>1, <3>7, <3>8, <3>9, <3>10
  <2> QED
    BY <1>3, <2>6, <2>7 DEF PageSound
<1> QED
  BY <1>4, <1>5

(* A transaction leaves a build behind.                                       *)
LEMMA TransactionKeeps ==
    ASSUME NEW o, NEW b, NEW p, NEW now, Sound(o, b, p, now),
           NEW e, StoreSane(e, now), Agrees(e), Progress(e) = Progress(o),
           e.generation > o.generation, PageSound(p, e, now)
    PROVE  Sound(e, b, p, now)
<1>1. /\ e.epoch = o.epoch /\ e.readiness = o.readiness /\ e.build = o.build
      /\ e.prepared12 = o.prepared12 /\ e.after12 = o.after12 /\ e.summarised12 = o.summarised12
      /\ e.covered12 = o.covered12 /\ e.ready12 = o.ready12 /\ e.prepared13 = o.prepared13
      /\ e.after13 = o.after13 /\ e.filled13 = o.filled13 /\ e.ready13 = o.ready13
  BY DEF Progress
<1>2. ~InBuild(e)
  <2>1. o.build \in Nat /\ o.generation \in Nat /\ e.generation \in Nat /\ o.build <= o.generation
    BY DEF Sound, StoreSane, Databases
  <2>2. e.build # e.generation
    BY <1>1, <2>1
  <2> QED
    BY <2>2 DEF InBuild
<1>3. ProgressSound(e)
  BY <1>1 DEF Sound, ProgressSound
<1>4. BuildSound(e)
  BY <1>2 DEF BuildSound
<1>5. BuilderSound(b, e)
  BY <1>1, <1>2 DEF Sound, BuilderSound, PlaceSound
<1> QED
  BY <1>3, <1>4, <1>5 DEF Sound

-----------------------------------------------------------------------------
(* What a transaction about one session changes.                             *)

Others(S, s) == {x \in Active(S) : x.session # s}

LEMMA SessionReplaced ==
    ASSUME NEW S, Spanned(S), NEW s, NEW g \in Nat, g > 0,
           NEW New, \A x \in New : x.session = s /\ x.from = g /\ x.until = Open,
           NEW W, W = {x \in Active(S) : x.session = s},
           NEW T, T = Ended(S, W, g) \cup New
    PROVE  /\ Others(T, s) = Others(S, s)
           /\ \A h \in Nat : h < g => Continues(S, T, h)
<1>1. Active(Ended(S, W, g)) = {x \in Active(S) : x \notin W}
  BY EndedActive
<1>2. Active(T) = Active(Ended(S, W, g)) \cup New
  BY DEF Active
<1>3. Others(T, s) = Others(S, s)
  BY <1>1, <1>2 DEF Others
<1>4. ASSUME NEW h \in Nat, h < g PROVE Continues(S, T, h)
  <2>1. W \subseteq Active(S) /\ \A x \in New : x.from > h /\ x.from \in Nat
    BY <1>4
  <2> QED
    BY <1>4, <2>1, EndedContinues
<1> QED
  BY <1>3, <1>4

LEMMA FinitelyEnded ==
    ASSUME NEW S, IsFiniteSet(S), NEW W, NEW g
    PROVE  IsFiniteSet(Ended(S, W, g))
<1> DEFINE f == [x \in S |-> IF x \in W THEN [x EXCEPT !.until = g] ELSE x]
<1>1. f \in Surjection(S, Ended(S, W, g))
  BY DEF Surjection, Ended
<1> QED
  BY <1>1, FS_Surjection

(* The summaries of issues that a session does not have do not change with it. *)
LEMMA OthersAggregate ==
    ASSUME NEW o, NEW d, NEW s, Others(d.rows, s) = Others(o.rows, s),
           Others(d.analyses, s) = Others(o.analyses, s),
           NEW issues, IssuesOf(o, s) \cup IssuesOf(d, s) \subseteq issues
    PROVE  Touches(d, o, issues)
<1> SUFFICES ASSUME NEW i \in Issues \ issues PROVE Aggregate(d, i) = Aggregate(o, i)
  BY DEF Touches
<1> DEFINE R == {r \in Others(o.rows, s) : r.issue = i}
<1>1. RowsOf(o, i) = R
  <2>1. \A r \in RowsOf(o, i) : r.session # s
    BY DEF RowsOf, IssuesOf
  <2> QED
    BY <2>1 DEF RowsOf, Others
<1>2. RowsOf(d, i) = R
  <2>1. \A r \in RowsOf(d, i) : r.session # s
    BY DEF RowsOf, IssuesOf
  <2> QED
    BY <2>1 DEF RowsOf, Others
<1>3. AnalysesOf(d, R) = AnalysesOf(o, R)
  <2>1. \A r \in R : r.session # s
    BY DEF Others
  <2>2. AnalysesOf(d, R) = {a \in Others(d.analyses, s) : \E r \in R : r.session = a.session}
    BY <2>1 DEF AnalysesOf, Others
  <2>3. AnalysesOf(o, R) = {a \in Others(o.analyses, s) : \E r \in R : r.session = a.session}
    BY <2>1 DEF AnalysesOf, Others
  <2> QED
    BY <2>2, <2>3
<1> HIDE DEF R
<1> QED
  BY <1>1, <1>2, <1>3 DEF Aggregate

LEMMA IssuesTyped ==
    ASSUME NEW d \in Databases, NEW s
    PROVE  IssuesOf(d, s) \in SUBSET Issues
<1>1. d.rows \in SUBSET Occurrences
  BY DEF Databases
<1> QED
  BY <1>1 DEF IssuesOf, Active, Occurrences

\* b is o with other events or findings.
Beside(b, o) ==
    /\ b \in Databases /\ RowsSane(b) /\ b.generation = o.generation
    /\ Progress(b) = Progress(o) /\ Materials(b) = Materials(o)
    /\ b.rows = o.rows /\ b.analyses = o.analyses

LEMMA AnalysisMeans ==
    ASSUME NEW now, NEW o, StoreSane(o, now), NEW b, Beside(b, o),
           NEW s \in KnownSessions, NEW status \in Statuses,
           NEW d, d = WithAnalysis(Advanced(b), s, status)
    PROVE  /\ Follows(d, o) /\ d.rows = o.rows /\ d.events = b.events /\ d.findings = b.findings
           /\ Others(d.analyses, s) = Others(o.analyses, s)
           /\ \A h \in Nat : h < d.generation =>
                 Continues(o.rows, d.rows, h) /\ Continues(o.analyses, d.analyses, h)
<1> DEFINE g == b.generation + 1
           W == {a \in Active(b.analyses) : a.session = s}
           new == [session |-> s, status |-> status, from |-> g, until |-> Open]
           T == Ended(b.analyses, W, g) \cup {new}
<1>1. b \in Databases /\ b.generation = o.generation /\ b.rows = o.rows /\ b.analyses = o.analyses
      /\ o \in Databases
  BY DEF Beside, StoreSane
<1>2. g \in Nat /\ g > 0 /\ b.analyses \in SUBSET Analyses /\ Spanned(b.analyses)
      /\ Spanned(b.rows)
  BY <1>1, TablesAreSpanned DEF Databases
<1>3. new \in Analyses /\ new.session = s /\ new.from = g /\ new.until = Open
  BY <1>2 DEF Analyses, Open
<1> HIDE DEF new, g
<1>4. T \in SUBSET Analyses
  BY <1>2, <1>3, EndedTyped
<1>5. Others(T, s) = Others(b.analyses, s) /\ \A h \in Nat : h < g => Continues(b.analyses, T, h)
  <2>1. \A x \in {new} : x.session = s /\ x.from = g /\ x.until = Open
    BY <1>3
  <2> QED
    BY <1>2, <2>1, SessionReplaced
<1> HIDE DEF T, W
<1>6. Advanced(b) \in Databases /\ Advanced(b).generation = g
      /\ Advanced(b) = [b EXCEPT !.generation = g] /\ Advanced(b).analyses = b.analyses
  BY <1>1 DEF Advanced, g, Databases
<1>7. d = [Advanced(b) EXCEPT !.analyses = T]
  BY <1>6 DEF WithAnalysis, T, W, new
<1>8. /\ d \in Databases /\ d.generation = g /\ d.analyses = T /\ d.rows = b.rows
      /\ d.events = b.events /\ d.findings = b.findings
      /\ Progress(d) = Progress(b) /\ Materials(d) = Materials(b)
  <2>1. PICK a \in Databases : a = Advanced(b)
    BY <1>6
  <2>2. /\ a.generation = g /\ a.rows = b.rows /\ a.events = b.events /\ a.findings = b.findings
        /\ Progress(a) = Progress(b) /\ Materials(a) = Materials(b)
    BY <1>1, <1>6, <2>1 DEF Databases, Progress, Materials
  <2>3. d = [a EXCEPT !.analyses = T]
    BY <1>7, <2>1
  <2>4. d \in Databases
    BY <1>4, <2>3 DEF Databases
  <2>5. /\ d.generation = a.generation /\ d.analyses = T /\ d.rows = a.rows
        /\ d.events = a.events /\ d.findings = a.findings
        /\ Progress(d) = Progress(a) /\ Materials(d) = Materials(a)
    BY <2>3 DEF Databases, Progress, Materials
  <2> QED
    BY <2>2, <2>4, <2>5
<1>9. RowsSane(d)
  BY <1>8 DEF Beside, RowsSane
<1>10. Follows(d, o)
  BY <1>1, <1>8, <1>9 DEF Follows, Beside, g
<1>11. \A h \in Nat : Continues(o.rows, d.rows, h)
  BY <1>1, <1>2, <1>8, SameContinues
<1> QED
  BY <1>1, <1>5, <1>8, <1>10, <1>11

(* markSessionDirtyTx and the other transactions that only analyse a session. *)
LEMMA AnalysisKeeps ==
    ASSUME IssueSummaryAssumption, NEW now \in Nat,
           NEW o, StoreSane(o, now), Agrees(o), ProgressSound(o), NEW b, Beside(b, o),
           NEW s \in KnownSessions, NEW status \in Statuses,
           NEW e, e = Refreshed(WithAnalysis(Advanced(b), s, status), IssuesOf(b, s), now)
    PROVE  /\ StoreSane(e, now) /\ Agrees(e) /\ Progress(e) = Progress(o)
           /\ e.generation = o.generation + 1 /\ e.retention = o.retention
           /\ e.rows = o.rows /\ e.events = b.events /\ e.findings = b.findings
           /\ \A p : PageSound(p, o, now) => PageSound(p, e, now)
<1>1. PICK d : d = WithAnalysis(Advanced(b), s, status)
  OBVIOUS
<1>2. /\ Follows(d, o) /\ d.rows = o.rows /\ d.events = b.events /\ d.findings = b.findings
      /\ Others(d.analyses, s) = Others(o.analyses, s)
      /\ \A h \in Nat : h < d.generation =>
            Continues(o.rows, d.rows, h) /\ Continues(o.analyses, d.analyses, h)
  BY <1>1, AnalysisMeans
<1>3. PICK issues \in SUBSET Issues : issues = IssuesOf(b, s)
  BY IssuesTyped DEF Beside
<1>4. IssuesOf(o, s) = issues /\ IssuesOf(d, s) = issues
  BY <1>2, <1>3 DEF IssuesOf, Beside
<1>5. Touches(d, o, issues)
  BY <1>2, <1>4, OthersAggregate
<1>6. e = Refreshed(d, issues, now)
  BY <1>1, <1>3
<1>7. /\ StoreSane(e, now) /\ Agrees(e) /\ Progress(e) = Progress(o)
      /\ e.generation = o.generation + 1 /\ e.retention = o.retention
      /\ e.rows = d.rows /\ e.events = d.events /\ e.findings = d.findings
  BY <1>2, <1>5, <1>6, RefreshKeeps
<1>8. ASSUME NEW p, PageSound(p, o, now) PROVE PageSound(p, e, now)
  <2>1. e \in Databases
    BY <1>7 DEF StoreSane
  <2> QED
    BY <1>2, <1>6, <1>8, <2>1, RefreshStands
<1> QED
  BY <1>2, <1>7, <1>8

-----------------------------------------------------------------------------
(* Import, analysis and prune.                                               *)

LEMMA BesideItself ==
    ASSUME NEW now, NEW o, StoreSane(o, now)
    PROVE  Beside(o, o)
BY DEF Beside, StoreSane

LEMMA AnalysisStep ==
    ASSUME IssueSummaryAssumption, SummaryInv, UNCHANGED <<builder, page, minute>>,
           NEW b, Beside(b, db), NEW s \in KnownSessions, NEW status \in Statuses,
           db' = Refreshed(WithAnalysis(Advanced(b), s, status), IssuesOf(b, s), minute)
    PROVE  SummaryInv'
<1>1. PICK o, now, u, p : o = db /\ now = minute /\ u = builder /\ p = page
  OBVIOUS
<1>2. PICK e : e = db'
  OBVIOUS
<1>3. Sound(o, u, p, now)
  BY <1>1 DEF SummaryInv
<1>4. now \in Nat /\ StoreSane(o, now) /\ Agrees(o) /\ ProgressSound(o) /\ PageSound(p, o, now)
  BY <1>3 DEF Sound
<1>5. e = Refreshed(WithAnalysis(Advanced(b), s, status), IssuesOf(b, s), now) /\ Beside(b, o)
  BY <1>1, <1>2
<1>6. /\ StoreSane(e, now) /\ Agrees(e) /\ Progress(e) = Progress(o)
      /\ e.generation = o.generation + 1 /\ PageSound(p, e, now)
  BY <1>4, <1>5, AnalysisKeeps
<1>7. e.generation > o.generation
  BY <1>4, <1>6 DEF StoreSane, Databases
<1>8. Sound(e, u, p, now)
  BY <1>3, <1>6, <1>7, TransactionKeeps
<1> QED
  BY <1>1, <1>2, <1>8 DEF SummaryInv

LEMMA ImportKeeps ==
    ASSUME IssueSummaryAssumption, SummaryInv,
           NEW s \in KnownSessions, NEW finding \in BOOLEAN, ImportEvents(s, finding)
    PROVE  SummaryInv'
<1>1. PICK o, now : o = db /\ now = minute /\ StoreSane(o, now)
  BY DEF SummaryInv, Sound
<1> DEFINE F == IF finding THEN o.findings \cup {s} ELSE o.findings
<1>2. PICK b : b = [o EXCEPT !.events = o.events \cup {s}, !.findings = F]
  OBVIOUS
<1>3. b = [db EXCEPT !.events = @ \cup {s},
                     !.findings = IF finding THEN @ \cup {s} ELSE @]
  BY <1>1, <1>2
<1>4. o \in Databases /\ o.events \cup {s} \in SUBSET KnownSessions /\ F \in SUBSET KnownSessions
  BY <1>1 DEF StoreSane, Databases
<1>5. Beside(b, o)
  <2> HIDE DEF F
  <2>1. b \in Databases
    BY <1>2, <1>4 DEF Databases
  <2>2. /\ b.generation = o.generation /\ b.rows = o.rows /\ b.analyses = o.analyses
        /\ Progress(b) = Progress(o) /\ Materials(b) = Materials(o)
        /\ b.events = o.events \cup {s}
    BY <1>2, <1>4 DEF Databases, Progress, Materials
  <2>3. RowsSane(b)
    BY <1>1, <2>2 DEF StoreSane, RowsSane
  <2> QED
    BY <2>1, <2>2, <2>3 DEF Beside
<1>6. /\ db' = Refreshed(WithAnalysis(Advanced(b), s, "pending"), IssuesOf(b, s), minute)
      /\ UNCHANGED <<builder, page, minute>>
  BY <1>3 DEF ImportEvents, MarkedDirty
<1>7. "pending" \in Statuses /\ Beside(b, db)
  BY <1>1, <1>5 DEF Statuses
<1> QED
  BY <1>6, <1>7, AnalysisStep

LEMMA FailureKeeps ==
    ASSUME IssueSummaryAssumption, SummaryInv, NEW s \in KnownSessions, AnalysisFails(s)
    PROVE  SummaryInv'
<1>1. PICK b : b = db
  OBVIOUS
<1>2. Beside(b, db)
  BY <1>1, BesideItself DEF SummaryInv, Sound
<1>3. /\ db' = Refreshed(WithAnalysis(Advanced(b), s, "failed"), IssuesOf(b, s), minute)
      /\ UNCHANGED <<builder, page, minute>>
  BY <1>1 DEF AnalysisFails
<1>4. "failed" \in Statuses
  BY DEF Statuses
<1> QED
  BY <1>2, <1>3, <1>4, AnalysisStep

LEMMA NewRowTyped ==
    ASSUME NEW d \in Databases, NEW s \in KnownSessions, NEW i \in Issues, NEW n \in Nat, n > 0,
           NEW r, r = NewRow(d, s, i, n)
    PROVE  /\ r \in Occurrences /\ r.session = s /\ r.from = d.generation
           /\ r.until = Open /\ r.id = n
<1>1. d.generation \in Nat
  BY DEF Databases
<1>2. CodeOf(d, [issue |-> i, session |-> s]) \in Codes
  BY DEF CodeOf, Codes
<1>3. PICK c \in Codes : c = CodeOf(d, [issue |-> i, session |-> s])
  BY <1>2
<1>4. r = [id |-> n, session |-> s, issue |-> i, from |-> d.generation, until |-> Open, code |-> c]
  BY <1>3 DEF NewRow
<1> QED
  BY <1>1, <1>4 DEF Occurrences, Open

LEMMA ReplacementMeans ==
    ASSUME NEW now, NEW o, StoreSane(o, now), NEW s \in o.events, NEW belay \in BOOLEAN,
           NEW a, a = WithAnalysis(Advanced(o), s, "current"), NEW d, d = Replaced(a, s, belay)
    PROVE  /\ Follows(d, o)
           /\ Others(d.rows, s) = Others(o.rows, s) /\ Others(d.analyses, s) = Others(o.analyses, s)
           /\ \A h \in Nat : h < d.generation =>
                 Continues(o.rows, d.rows, h) /\ Continues(o.analyses, d.analyses, h)
<1>1. o \in Databases /\ s \in KnownSessions /\ RowsSane(o)
  BY DEF StoreSane, Databases
<1>2. "current" \in Statuses /\ Beside(o, o)
  BY BesideItself DEF Statuses
<1>3. /\ Follows(a, o) /\ a.rows = o.rows /\ a.events = o.events
      /\ Others(a.analyses, s) = Others(o.analyses, s)
      /\ \A h \in Nat : h < a.generation => Continues(o.analyses, a.analyses, h)
  BY <1>1, <1>2, AnalysisMeans
<1>4. a \in Databases
  BY <1>3 DEF Follows
<1>5. a.generation \in Nat /\ a.generation > 0
  BY <1>1, <1>3, <1>4 DEF Follows, Databases
<1> DEFINE g == a.generation
           ids == {0} \cup {r.id : r \in a.rows}
           top == Max(ids)
           W == {r \in Active(a.rows) : r.session = s}
           New == (IF belay THEN {NewRow(a, s, "belay", top + 1)} ELSE {})
                  \cup (IF s \in a.findings
                        THEN {NewRow(a, s, Numbat, top + (IF belay THEN 2 ELSE 1))} ELSE {})
           T == Ended(a.rows, W, g) \cup New
<1>6. PICK n \in Nat : \A r \in a.rows : r.id <= n
  BY <1>1, <1>3 DEF RowsSane
<1>7. a.rows \in SUBSET Occurrences
  BY <1>4 DEF Databases
<1>8. top \in Nat /\ \A r \in a.rows : r.id <= top
  <2>1. ids \in SUBSET Nat /\ ids # {} /\ \A k \in ids : k <= n
    BY <1>6, <1>7 DEF Occurrences
  <2>2. Max(ids) \in ids /\ \A k \in ids : k <= Max(ids)
    <3> HIDE DEF ids
    <3> QED
      BY <2>1, BoundedHasMax
  <2>3. \A r \in a.rows : r.id \in ids
    OBVIOUS
  <2> HIDE DEF ids
  <2> QED
    BY <2>1, <2>2, <2>3
<1> HIDE DEF top, ids
<1>9. \A r \in New : /\ r \in Occurrences /\ r.session = s /\ r.from = g /\ r.until = Open
                     /\ r.id <= top + 2
  <2>1. "belay" \in Issues /\ Numbat \in Issues
    BY DEF Issues, Numbat
  <2>2. /\ top + 1 \in Nat /\ top + 1 > 0 /\ top + 2 \in Nat /\ top + 2 > 0
        /\ top + 1 <= top + 2
    BY <1>8
  <2>3. \A i \in Issues : \A k \in {top + 1, top + 2} :
           LET r == NewRow(a, s, i, k)
           IN  /\ r \in Occurrences /\ r.session = s /\ r.from = g /\ r.until = Open
               /\ r.id <= top + 2
    BY <1>1, <1>4, <2>2, NewRowTyped
  <2>4. \A r \in New : \E i \in Issues : \E k \in {top + 1, top + 2} : r = NewRow(a, s, i, k)
    BY <2>1
  <2> HIDE DEF New
  <2> QED
    BY <2>3, <2>4
<1>10. IsFiniteSet(New)
  <2>1. \A x : IsFiniteSet({x})
    BY FS_Singleton
  <2>2. IsFiniteSet({})
    BY FS_EmptySet
  <2> QED
    BY <2>1, <2>2, FS_Union
<1> HIDE DEF New
<1>11. T \in SUBSET Occurrences
  BY <1>5, <1>7, <1>9, EndedTyped
<1>12. Others(T, s) = Others(a.rows, s) /\ \A h \in Nat : h < g => Continues(a.rows, T, h)
  <2>1. Spanned(a.rows)
    BY <1>4, TablesAreSpanned
  <2>2. g \in Nat /\ g > 0 /\ \A x \in New : x.session = s /\ x.from = g /\ x.until = Open
    BY <1>5, <1>9
  <2> HIDE DEF g
  <2> QED
    BY <2>1, <2>2, SessionReplaced
<1>13. /\ IsFiniteSet(T) /\ \A r \in T : r.id <= top + 2
       /\ \A r \in T : r.session \in a.events
  <2>1. IsFiniteSet(Ended(a.rows, W, g))
    BY <1>1, <1>3, FinitelyEnded DEF RowsSane
  <2>2. IsFiniteSet(T)
    <3> HIDE DEF W
    <3> QED
      BY <1>10, <2>1, FS_Union
  <2>3. \A r \in Ended(a.rows, W, g) : \E x \in a.rows : r.id = x.id /\ r.session = x.session
    BY <1>7 DEF Ended, Occurrences
  <2>4. \A x \in a.rows : x.id \in Nat /\ x.session \in a.events /\ x.id <= top
    BY <1>1, <1>3, <1>7, <1>8 DEF RowsSane, Occurrences
  <2>5. \A r \in Ended(a.rows, W, g) : r.id <= top + 2 /\ r.session \in a.events
    BY <1>8, <2>3, <2>4
  <2>6. \A r \in New : r.id <= top + 2 /\ r.session \in a.events
    BY <1>3, <1>9
  <2> QED
    BY <2>2, <2>5, <2>6
<1>14. d = [a EXCEPT !.rows = T]
  BY DEF Replaced, New, W, top, ids
<1> HIDE DEF T, g
<1>15. /\ d \in Databases /\ d.generation = a.generation /\ d.rows = T /\ d.analyses = a.analyses
       /\ d.events = a.events /\ Progress(d) = Progress(a) /\ Materials(d) = Materials(a)
  BY <1>4, <1>11, <1>14 DEF Databases, Progress, Materials
<1>16. RowsSane(d)
  <2>1. top + 2 \in Nat
    BY <1>8
  <2> QED
    BY <1>13, <1>15, <2>1 DEF RowsSane
<1>17. Follows(d, o)
  BY <1>3, <1>15, <1>16 DEF Follows
<1> QED
  BY <1>3, <1>12, <1>15, <1>17 DEF g

LEMMA PublicationKeeps ==
    ASSUME IssueSummaryAssumption, SummaryInv,
           NEW s \in KnownSessions, NEW belay \in BOOLEAN, PublishProjection(s, belay)
    PROVE  SummaryInv'
<1>1. PICK o, now, u, p : o = db /\ now = minute /\ u = builder /\ p = page
  OBVIOUS
<1>2. PICK e : e = db'
  OBVIOUS
<1>3. Sound(o, u, p, now)
  BY <1>1 DEF SummaryInv
<1>4. now \in Nat /\ StoreSane(o, now) /\ Agrees(o) /\ ProgressSound(o) /\ PageSound(p, o, now)
  BY <1>3 DEF Sound
<1>5. PICK a : a = WithAnalysis(Advanced(o), s, "current")
  OBVIOUS
<1>6. PICK d : d = Replaced(a, s, belay)
  OBVIOUS
<1>7. s \in o.events
  BY <1>1 DEF PublishProjection
<1>8. /\ Follows(d, o)
      /\ Others(d.rows, s) = Others(o.rows, s) /\ Others(d.analyses, s) = Others(o.analyses, s)
      /\ \A h \in Nat : h < d.generation =>
            Continues(o.rows, d.rows, h) /\ Continues(o.analyses, d.analyses, h)
  BY <1>4, <1>5, <1>6, <1>7, ReplacementMeans
<1>9. PICK issues \in SUBSET Issues : issues = IssuesOf(o, s) \cup IssuesOf(d, s)
  <2>1. o \in Databases /\ d \in Databases
    BY <1>4, <1>8 DEF Follows, StoreSane
  <2> QED
    BY <2>1, IssuesTyped
<1>10. Touches(d, o, issues)
  BY <1>8, <1>9, OthersAggregate
<1>11. e = Refreshed(d, issues, now)
  BY <1>1, <1>2, <1>5, <1>6, <1>9 DEF PublishProjection, Affected
<1>12. /\ StoreSane(e, now) /\ Agrees(e) /\ Progress(e) = Progress(o)
       /\ e.generation = o.generation + 1
  BY <1>4, <1>8, <1>10, <1>11, RefreshKeeps
<1>13. PageSound(p, e, now)
  <2>1. e \in Databases
    BY <1>12 DEF StoreSane
  <2> QED
    BY <1>4, <1>8, <1>11, <2>1, RefreshStands
<1>14. e.generation > o.generation
  BY <1>4, <1>12 DEF StoreSane, Databases
<1>15. Sound(e, u, p, now)
  BY <1>3, <1>12, <1>13, <1>14, TransactionKeeps
<1>16. builder' = u /\ page' = p /\ minute' = now
  BY <1>1 DEF PublishProjection
<1> QED
  BY <1>2, <1>15, <1>16 DEF SummaryInv

LEMMA SameAggregates ==
    ASSUME NEW o, NEW d, d.rows = o.rows, d.analyses = o.analyses
    PROVE  \A i \in Issues : Aggregate(d, i) = Aggregate(o, i)
<1>1. \A i \in Issues : RowsOf(d, i) = RowsOf(o, i)
  BY DEF RowsOf
<1>2. \A R : AnalysesOf(d, R) = AnalysesOf(o, R)
  BY DEF AnalysesOf
<1> QED
  BY <1>1, <1>2 DEF Aggregate

\* e is m with other findings, and without cursors.
Retires(e, m) ==
    \E F \in SUBSET KnownSessions : \E n \in Nat :
        n = m.retention + 1 /\ e = [m EXCEPT !.findings = F, !.retention = n]

(* The boundary of retention and the findings are not what summaries are of.  *)
LEMMA RetentionKeeps ==
    ASSUME NEW now, NEW m, StoreSane(m, now), Agrees(m), NEW e, Retires(e, m)
    PROVE  /\ StoreSane(e, now) /\ Agrees(e) /\ Progress(e) = Progress(m)
           /\ e.generation = m.generation /\ e.retention = m.retention + 1
<1>0. PICK F \in SUBSET KnownSessions, n \in Nat :
          n = m.retention + 1 /\ e = [m EXCEPT !.findings = F, !.retention = n]
  BY DEF Retires
<1>1. m \in Databases
  BY DEF StoreSane
<1>2. /\ e \in Databases /\ e.generation = m.generation /\ e.retention = n
      /\ e.build = m.build /\ e.oldest = m.oldest /\ e.readiness = m.readiness
      /\ e.materialized = m.materialized /\ e.rows = m.rows /\ e.events = m.events
      /\ e.analyses = m.analyses /\ e.summaries = m.summaries /\ e.coverage = m.coverage
      /\ e.times = m.times /\ Progress(e) = Progress(m)
  BY <1>0, <1>1 DEF Databases, Progress
<1>3. StoreSane(e, now)
  BY <1>2 DEF StoreSane, RowsSane
<1>4. Agrees(e)
  <2>1. \A i \in Issues : Aggregate(e, i) = Aggregate(m, i)
    BY <1>2, SameAggregates
  <2>2. \A i \in Issues : Stored(e, i) = Stored(m, i)
    BY <1>2 DEF Stored
  <2>3. Coverage(e) = Coverage(m)
    BY <1>2 DEF Coverage
  <2> QED
    BY <1>2, <2>1, <2>2, <2>3 DEF Agrees
<1> QED
  BY <1>0, <1>2, <1>3, <1>4

(* A prune ends the cursors there are.                                        *)
LEMMA PageEnds ==
    ASSUME NEW now, NEW o \in Databases, NEW p, PageSound(p, o, now),
           NEW e \in Databases, e.epoch >= o.epoch, e.retention >= o.retention,
           e.epoch # o.epoch \/ e.retention # o.retention
    PROVE  PageSound(p, e, now)
<1>1. o.epoch \in Nat /\ e.epoch \in Nat /\ o.retention \in Nat /\ e.retention \in Nat
  BY DEF Databases
<1> SUFFICES ASSUME p # NoPage PROVE PageSound(p, e, now)
  BY DEF PageSound
<1>2. /\ p.snapshot \in Nat /\ p.issuedAt \in Nat /\ p.epoch \in Nat /\ p.retention \in Nat
      /\ p.issuedAt <= now /\ p.epoch <= o.epoch /\ p.retention <= o.retention
  BY DEF PageSound
<1>3. p.epoch <= e.epoch /\ p.retention <= e.retention
  BY <1>1, <1>2
<1>4. ~(p.epoch = e.epoch /\ p.retention = e.retention)
  BY <1>1, <1>2
<1> QED
  BY <1>2, <1>3, <1>4 DEF PageSound

LEMMA PruneStep ==
    ASSUME IssueSummaryAssumption, SummaryInv, UNCHANGED <<builder, page, minute>>,
           NEW e, e = db', StoreSane(e, minute), Agrees(e), Progress(e) = Progress(db),
           e.generation > db.generation, e.retention > db.retention
    PROVE  SummaryInv'
<1>1. PICK o, now, u, p : o = db /\ now = minute /\ u = builder /\ p = page
  OBVIOUS
<1>2. Sound(o, u, p, now) /\ StoreSane(o, now) /\ PageSound(p, o, now)
  BY <1>1 DEF SummaryInv, Sound
<1>3. o \in Databases /\ e \in Databases
  BY <1>2 DEF StoreSane
<1>4. /\ o.epoch \in Nat /\ e.epoch = o.epoch
      /\ o.retention \in Nat /\ e.retention \in Nat /\ e.retention > o.retention
  BY <1>1, <1>3 DEF Progress, Databases
<1>5. PageSound(p, e, now)
  BY <1>2, <1>3, <1>4, PageEnds
<1>6. Sound(e, u, p, now)
  BY <1>1, <1>2, <1>5, TransactionKeeps
<1> QED
  BY <1>1, <1>6 DEF SummaryInv

\* d is m without some of what a prune may take.
Loses(d, m) ==
    /\ d \in Databases /\ RowsSane(d) /\ d.generation = m.generation
    /\ Progress(d) = Progress(m) /\ Materials(d) = Materials(m)

LEMMA FinallyPrunedKeeps ==
    ASSUME IssueSummaryAssumption, NEW now \in Nat, NEW m, StoreSane(m, now), Agrees(m),
           NEW d, Loses(d, m), NEW issues \in SUBSET Issues, Touches(d, m, issues),
           NEW e, e = FinallyPruned(d, issues, now)
    PROVE  /\ StoreSane(e, now) /\ Agrees(e) /\ Progress(e) = Progress(m)
           /\ e.generation = m.generation + 1 /\ e.retention = m.retention + 1
<1>1. PICK a : a = Advanced(d)
  OBVIOUS
<1>2. d \in Databases /\ d.generation + 1 \in Nat
  BY DEF Loses, Databases
<1>3. /\ a \in Databases /\ a.generation = d.generation + 1 /\ Progress(a) = Progress(d)
      /\ Materials(a) = Materials(d) /\ a.rows = d.rows /\ a.events = d.events
      /\ a.analyses = d.analyses
  BY <1>1, <1>2 DEF Advanced, Databases, Progress, Materials
<1>4. Follows(a, m)
  BY <1>3 DEF Follows, RowsSane, Loses
<1>5. Touches(a, m, issues)
  BY <1>3, SameAggregates DEF Touches
<1>6. PICK f : f = Refreshed(a, issues, now)
  OBVIOUS
<1>7. /\ StoreSane(f, now) /\ Agrees(f) /\ Progress(f) = Progress(m)
      /\ f.generation = m.generation + 1 /\ f.retention = m.retention
  BY <1>4, <1>5, <1>6, RefreshKeeps
<1>8. e = [f EXCEPT !.retention = @ + 1]
  BY <1>1, <1>6 DEF FinallyPruned
<1>9. f \in Databases
  BY <1>7 DEF StoreSane
<1>10. PICK F \in SUBSET KnownSessions : F = f.findings
  BY <1>9 DEF Databases
<1>11. Retires(e, f)
  <2>1. PICK n \in Nat : n = f.retention + 1
    BY <1>9 DEF Databases
  <2>2. e = [f EXCEPT !.retention = n]
    BY <1>8, <2>1
  <2>3. e = [f EXCEPT !.findings = F, !.retention = n]
    BY <1>9, <1>10, <2>2 DEF Databases
  <2> QED
    BY <1>10, <2>1, <2>3 DEF Retires
<1>12. /\ StoreSane(e, now) /\ Agrees(e) /\ Progress(e) = Progress(f)
       /\ e.generation = f.generation /\ e.retention = f.retention + 1
  BY <1>7, <1>11, RetentionKeeps
<1> QED
  BY <1>7, <1>12

(* What each part of a prune begins with.                                     *)
LEMMA MarkedMeans ==
    ASSUME IssueSummaryAssumption, NEW now \in Nat,
           NEW o, StoreSane(o, now), Agrees(o), ProgressSound(o),
           NEW s \in KnownSessions, NEW m, m = MarkedDirty(o, s, now)
    PROVE  /\ StoreSane(m, now) /\ Agrees(m) /\ Progress(m) = Progress(o)
           /\ m.generation = o.generation + 1 /\ m.retention = o.retention
           /\ m.rows = o.rows /\ m.events = o.events /\ m.findings = o.findings
<1>1. Beside(o, o) /\ "pending" \in Statuses
  BY BesideItself DEF Statuses
<1>2. m = Refreshed(WithAnalysis(Advanced(o), s, "pending"), IssuesOf(o, s), now)
  BY DEF MarkedDirty
<1> QED
  BY <1>1, <1>2, AnalysisKeeps

LEMMA PruneFindingKeeps ==
    ASSUME IssueSummaryAssumption, SummaryInv, NEW s \in KnownSessions, PruneFinding(s)
    PROVE  SummaryInv'
<1>1. PICK o, now, e : o = db /\ now = minute /\ e = db'
  OBVIOUS
<1>2. now \in Nat /\ StoreSane(o, now) /\ Agrees(o) /\ ProgressSound(o)
  BY <1>1 DEF SummaryInv, Sound
<1>3. PICK m : m = MarkedDirty(o, s, now)
  OBVIOUS
<1>4. /\ StoreSane(m, now) /\ Agrees(m) /\ Progress(m) = Progress(o)
      /\ m.generation = o.generation + 1 /\ m.retention = o.retention
  BY <1>2, <1>3, MarkedMeans
<1>5. m \in Databases /\ o \in Databases
  BY <1>2, <1>4 DEF StoreSane
<1>6. PICK F \in SUBSET KnownSessions : F = m.findings \ {s}
  BY <1>5 DEF Databases
<1>7. Retires(e, m)
  <2>1. PICK n \in Nat : n = m.retention + 1
    BY <1>5 DEF Databases
  <2>2. e = [m EXCEPT !.findings = F, !.retention = n]
    BY <1>1, <1>3, <1>6, <2>1 DEF PruneFinding
  <2> QED
    BY <2>1, <2>2 DEF Retires
<1>8. /\ StoreSane(e, now) /\ Agrees(e) /\ Progress(e) = Progress(m)
      /\ e.generation = m.generation /\ e.retention = m.retention + 1
  BY <1>4, <1>7, RetentionKeeps
<1>9. e.generation > o.generation /\ e.retention > o.retention
  <2>1. o.generation \in Nat /\ o.retention \in Nat
    BY <1>5 DEF Databases
  <2> QED
    BY <1>4, <1>8, <2>1
<1>10. UNCHANGED <<builder, page, minute>>
  BY DEF PruneFinding, Pruning
<1> QED
  BY <1>1, <1>4, <1>8, <1>9, <1>10, PruneStep

(* A session is marked, and loses some or all of what is stored of it.        *)
LEMMA SessionPruned ==
    ASSUME IssueSummaryAssumption, SummaryInv, UNCHANGED <<builder, page, minute>>,
           NEW s \in KnownSessions, NEW m, m = MarkedDirty(db, s, minute),
           NEW R, R \subseteq m.rows, \A r \in m.rows \ R : r.session = s,
           NEW E, E \subseteq m.events, \A r \in R : r.session \in E,
           NEW F, F \subseteq m.findings,
           NEW d, d = [m EXCEPT !.rows = R, !.events = E, !.findings = F],
           db' = FinallyPruned(d, IssuesOf(db, s), minute)
    PROVE  SummaryInv'
<1>1. PICK o, now, e : o = db /\ now = minute /\ e = db'
  OBVIOUS
<1>2. now \in Nat /\ StoreSane(o, now) /\ Agrees(o) /\ ProgressSound(o)
  BY <1>1 DEF SummaryInv, Sound
<1>3. /\ StoreSane(m, now) /\ Agrees(m) /\ Progress(m) = Progress(o)
      /\ m.generation = o.generation + 1 /\ m.retention = o.retention
      /\ m.rows = o.rows
  BY <1>1, <1>2, MarkedMeans
<1>4. m \in Databases /\ o \in Databases /\ RowsSane(m)
  BY <1>2, <1>3 DEF StoreSane
<1>5. R \in SUBSET Occurrences /\ E \in SUBSET KnownSessions /\ F \in SUBSET KnownSessions
  BY <1>4 DEF Databases
<1>6. /\ d \in Databases /\ d.generation = m.generation /\ d.rows = R /\ d.events = E
      /\ d.analyses = m.analyses /\ Progress(d) = Progress(m) /\ Materials(d) = Materials(m)
  BY <1>4, <1>5 DEF Databases, Progress, Materials
<1>7. RowsSane(d)
  <2>1. IsFiniteSet(R)
    BY <1>4, FS_Subset DEF RowsSane
  <2> QED
    BY <1>4, <1>6, <2>1 DEF RowsSane
<1>8. PICK issues \in SUBSET Issues : issues = IssuesOf(o, s)
  BY <1>4, IssuesTyped
<1>9. Touches(d, m, issues)
  <2>1. Others(d.rows, s) = Others(m.rows, s) /\ Others(d.analyses, s) = Others(m.analyses, s)
    BY <1>6 DEF Others, Active
  <2>2. IssuesOf(m, s) \cup IssuesOf(d, s) \subseteq issues
    BY <1>3, <1>6, <1>8 DEF IssuesOf, Active
  <2> QED
    BY <2>1, <2>2, OthersAggregate
<1>10. e = FinallyPruned(d, issues, now)
  BY <1>1, <1>8
<1>11. /\ StoreSane(e, now) /\ Agrees(e) /\ Progress(e) = Progress(m)
       /\ e.generation = m.generation + 1 /\ e.retention = m.retention + 1
  <2>1. Loses(d, m)
    BY <1>6, <1>7 DEF Loses
  <2> QED
    BY <1>2, <1>3, <1>9, <1>10, <2>1, FinallyPrunedKeeps
<1>12. e.generation > o.generation /\ e.retention > o.retention
  <2>1. o.generation \in Nat /\ o.retention \in Nat
    BY <1>4 DEF Databases
  <2> QED
    BY <1>3, <1>11, <2>1
<1> QED
  BY <1>1, <1>3, <1>11, <1>12, PruneStep

LEMMA PruneOccurrenceKeeps ==
    ASSUME IssueSummaryAssumption, SummaryInv, NEW row \in db.rows, PruneOccurrence(row)
    PROVE  SummaryInv'
<1>1. PICK o, now : o = db /\ now = minute
  OBVIOUS
<1>2. now \in Nat /\ StoreSane(o, now) /\ Agrees(o) /\ ProgressSound(o)
  BY <1>1 DEF SummaryInv, Sound
<1>3. PICK s \in KnownSessions : s = row.session
  BY <1>1, <1>2 DEF StoreSane, Databases, Occurrences
<1>4. PICK m : m = MarkedDirty(o, s, now)
  OBVIOUS
<1>5. StoreSane(m, now)
  BY <1>2, <1>4, MarkedMeans
<1>6. m \in Databases /\ RowsSane(m)
  BY <1>5 DEF StoreSane
<1>7. PICK d : d = [m EXCEPT !.rows = m.rows \ {row}]
  OBVIOUS
<1>8. d = [m EXCEPT !.rows = m.rows \ {row}, !.events = m.events, !.findings = m.findings]
  BY <1>6, <1>7 DEF Databases
<1>9. /\ db' = FinallyPruned(d, IssuesOf(db, s), minute)
      /\ m = MarkedDirty(db, s, minute) /\ UNCHANGED <<builder, page, minute>>
  BY <1>1, <1>3, <1>4, <1>7 DEF PruneOccurrence, Pruning
<1>10. /\ m.rows \ {row} \subseteq m.rows
       /\ \A r \in m.rows \ (m.rows \ {row}) : r.session = s
       /\ \A r \in m.rows \ {row} : r.session \in m.events
  BY <1>3, <1>6 DEF RowsSane
<1>11. PICK R, E, F : R = m.rows \ {row} /\ E = m.events /\ F = m.findings
  OBVIOUS
<1>12. d = [m EXCEPT !.rows = R, !.events = E, !.findings = F]
  BY <1>8, <1>11
<1> QED
  BY <1>9, <1>10, <1>11, <1>12, SessionPruned

LEMMA PruneSessionKeeps ==
    ASSUME IssueSummaryAssumption, SummaryInv, NEW s \in KnownSessions, PruneSession(s)
    PROVE  SummaryInv'
<1>1. PICK o, now : o = db /\ now = minute
  OBVIOUS
<1>2. now \in Nat /\ StoreSane(o, now) /\ Agrees(o) /\ ProgressSound(o)
  BY <1>1 DEF SummaryInv, Sound
<1>3. PICK m : m = MarkedDirty(o, s, now)
  OBVIOUS
<1>4. StoreSane(m, now)
  BY <1>2, <1>3, MarkedMeans
<1>5. m \in Databases /\ RowsSane(m)
  BY <1>4 DEF StoreSane
<1>6. PICK R, E, F : /\ R = {r \in m.rows : r.session # s}
                     /\ E = m.events \ {s} /\ F = m.findings \ {s}
  OBVIOUS
<1>7. PICK d : d = [m EXCEPT !.rows = R, !.events = E, !.findings = F]
  OBVIOUS
<1>8. d = [m EXCEPT !.events = E, !.findings = F, !.rows = R]
  BY <1>5, <1>7 DEF Databases
<1>9. /\ db' = FinallyPruned(d, IssuesOf(db, s), minute)
      /\ m = MarkedDirty(db, s, minute) /\ UNCHANGED <<builder, page, minute>>
  BY <1>1, <1>3, <1>6, <1>8 DEF PruneSession, Pruning
<1>10. /\ R \subseteq m.rows /\ \A r \in m.rows \ R : r.session = s
       /\ E \subseteq m.events /\ F \subseteq m.findings
       /\ \A r \in R : r.session \in E
  BY <1>5, <1>6 DEF RowsSane
<1> QED
  BY <1>7, <1>9, <1>10, SessionPruned

LEMMA PruneAnalysesKeeps ==
    ASSUME IssueSummaryAssumption, SummaryInv, PruneAnalyses
    PROVE  SummaryInv'
<1>1. PICK o, now, e : o = db /\ now = minute /\ e = db'
  OBVIOUS
<1>2. now \in Nat /\ StoreSane(o, now) /\ Agrees(o)
  BY <1>1 DEF SummaryInv, Sound
<1>3. o \in Databases /\ RowsSane(o)
  BY <1>2 DEF StoreSane
<1>4. PICK A : A = {a \in o.analyses : a.session \in o.events}
  OBVIOUS
<1>5. A \in SUBSET Analyses
  BY <1>3, <1>4 DEF Databases
<1>6. PICK d : d = [o EXCEPT !.analyses = A]
  OBVIOUS
<1>7. /\ d \in Databases /\ d.generation = o.generation /\ d.rows = o.rows
      /\ d.events = o.events /\ d.analyses = A
      /\ Progress(d) = Progress(o) /\ Materials(d) = Materials(o)
  BY <1>3, <1>5, <1>6 DEF Databases, Progress, Materials
<1>8. RowsSane(d)
  BY <1>3, <1>7 DEF RowsSane
<1>9. PICK issues \in SUBSET Issues : issues = {}
  OBVIOUS
<1>10. Touches(d, o, issues)
  <2> SUFFICES ASSUME NEW i \in Issues PROVE Aggregate(d, i) = Aggregate(o, i)
    BY DEF Touches
  <2>1. RowsOf(d, i) = RowsOf(o, i)
    BY <1>7 DEF RowsOf
  <2>2. \A r \in RowsOf(o, i) : r.session \in o.events
    BY <1>3 DEF RowsOf, Active, RowsSane
  <2>3. AnalysesOf(d, RowsOf(o, i)) = AnalysesOf(o, RowsOf(o, i))
    <3>1. PICK R : R = RowsOf(o, i)
      OBVIOUS
    <3>2. \A a \in Active(o.analyses), r \in R : r.session = a.session => a \in Active(A)
      BY <1>4, <2>2, <3>1 DEF Active
    <3>3. Active(A) \subseteq Active(o.analyses)
      BY <1>4 DEF Active
    <3> QED
      BY <1>7, <3>1, <3>2, <3>3 DEF AnalysesOf
  <2> QED
    BY <2>1, <2>3 DEF Aggregate
<1>11. e = FinallyPruned(d, issues, now)
  BY <1>1, <1>4, <1>6, <1>9 DEF PruneAnalyses
<1>12. /\ StoreSane(e, now) /\ Agrees(e) /\ Progress(e) = Progress(o)
       /\ e.generation = o.generation + 1 /\ e.retention = o.retention + 1
  <2>1. Loses(d, o)
    BY <1>7, <1>8 DEF Loses
  <2> QED
    BY <1>2, <1>10, <1>11, <2>1, FinallyPrunedKeeps
<1>13. e.generation > o.generation /\ e.retention > o.retention
  <2>1. o.generation \in Nat /\ o.retention \in Nat
    BY <1>3 DEF Databases
  <2> QED
    BY <1>12, <2>1
<1>14. UNCHANGED <<builder, page, minute>>
  BY DEF PruneAnalyses, Pruning
<1> QED
  BY <1>1, <1>12, <1>13, <1>14, PruneStep

-----------------------------------------------------------------------------
(* Reading, and the end of a process.                                        *)

LEMMA FirstPageKeeps ==
    ASSUME SummaryInv, FirstPage
    PROVE  SummaryInv'
<1>1. PICK o, now, u : o = db /\ now = minute /\ u = builder
  OBVIOUS
<1>2. PICK q : q = page'
  OBVIOUS
<1>3. now \in Nat /\ StoreSane(o, now)
  BY <1>1 DEF SummaryInv, Sound
<1>4. /\ o \in Databases /\ o.oldest <= o.generation
      /\ \A t \in o.times : t[1] <= o.generation /\ t[2] <= now
  BY <1>3 DEF StoreSane
<1>5. q = [epoch |-> o.epoch, retention |-> o.retention, snapshot |-> o.generation,
           issuedAt |-> now, shown |-> SeenAt(o, o.generation)]
  BY <1>1, <1>2 DEF FirstPage
<1>6. /\ o.epoch \in Nat /\ o.retention \in Nat /\ o.generation \in Nat /\ o.oldest \in Nat
  BY <1>4 DEF Databases
<1>7. PageSound(q, o, now)
  BY <1>3, <1>4, <1>5, <1>6 DEF PageSound
<1>8. db' = o /\ builder' = u /\ minute' = now
  BY <1>1 DEF FirstPage
<1> QED
  BY <1>1, <1>2, <1>7, <1>8 DEF SummaryInv, Sound

LEMMA TickKeeps ==
    ASSUME IssueSummaryAssumption, SummaryInv, Tick
    PROVE  SummaryInv'
<1>1. PICK o, now, u, p : o = db /\ now = minute /\ u = builder /\ p = page
  OBVIOUS
<1>2. /\ now \in Nat /\ StoreSane(o, now) /\ PageSound(p, o, now)
  BY <1>1 DEF SummaryInv, Sound
<1>3. now + 1 \in Nat /\ CursorLifetime \in Nat
  BY <1>2 DEF IssueSummaryAssumption
<1>4. StoreSane(o, now + 1)
  <2>1. o.times \in SUBSET (Nat \X Nat)
    BY <1>2 DEF StoreSane, Databases
  <2>2. \A t \in o.times : t[2] <= now => t[2] <= now + 1
    BY <1>2, <2>1
  <2> QED
    BY <1>2, <2>2 DEF StoreSane
<1>5. PageSound(p, o, now + 1)
  BY <1>2, <1>3 DEF PageSound
<1>6. db' = o /\ builder' = u /\ minute' = now + 1 /\ page' = p
  BY <1>1 DEF Tick
<1> QED
  BY <1>1, <1>3, <1>4, <1>5, <1>6 DEF SummaryInv, Sound

-----------------------------------------------------------------------------
(* The opening of a store.                                                   *)

LEMMA ReadsMeans ==
    ASSUME NEW u, BuilderTyped(u), NEW step \in Steps, NEW d, NEW read, NEW last \in Nat,
           PlaceSound(step, read, last, d),
           NEW w, w = [u EXCEPT !.step = step, !.read = read, !.last = last]
    PROVE  BuilderSound(w, d)
<1>1. PICK a, b, c, n, k :
         a = u.step /\ b = u.read /\ c = u.last /\ n = u.attempts /\ k = u.build
  OBVIOUS
<1>2. u = [step |-> a, read |-> b, last |-> c, attempts |-> n, build |-> k]
      /\ n \in Nat /\ k \in Nat
  BY <1>1 DEF BuilderTyped
<1>3. w = [step |-> step, read |-> read, last |-> last, attempts |-> n, build |-> k]
  BY <1>2
<1> QED
  BY <1>2, <1>3 DEF BuilderSound, BuilderTyped

LEMMA GoesToMeans ==
    ASSUME NEW u, BuilderTyped(u), NEW step \in Steps, NEW d, PlaceSound(step, {}, 0, d),
           NEW w, w = [u EXCEPT !.step = step, !.read = {}, !.last = 0]
    PROVE  BuilderSound(w, d)
<1>1. \A read, last : last \in Nat /\ PlaceSound(step, read, last, d)
         /\ w = [u EXCEPT !.step = step, !.read = read, !.last = last] => BuilderSound(w, d)
  BY ReadsMeans
<1> QED
  BY <1>1

\* The steps that are no part of an opening.
LEMMA OutsideIsSound ==
    ASSUME NEW d
    PROVE  /\ "closed" \in Steps /\ PlaceSound("closed", {}, 0, d)
           /\ "open" \in Steps /\ PlaceSound("open", {}, 0, d)
BY DEF Steps, PlaceSound, FillSteps, BuildSteps, LateSteps

LEMMA BuilderStep ==
    ASSUME SummaryInv, UNCHANGED <<db, page, minute>>, NEW w, w = builder', BuilderSound(w, db)
    PROVE  SummaryInv'
BY DEF SummaryInv, Sound

LEMMA FailedKeeps ==
    ASSUME SummaryInv, UNCHANGED <<db, page, minute>>, Failed
    PROVE  SummaryInv'
<1>1. PICK o, u, w : o = db /\ u = builder /\ w = builder'
  OBVIOUS
<1>2. BuilderTyped(u)
  BY <1>1 DEF SummaryInv, Sound, BuilderSound
<1>3. w = [u EXCEPT !.step = "closed", !.read = {}, !.last = 0]
  BY <1>1 DEF Failed, GoesTo
<1>4. BuilderSound(w, o)
  BY <1>2, <1>3, OutsideIsSound, GoesToMeans
<1> QED
  BY <1>1, <1>4, BuilderStep

(* Nothing but where the process is changes.                                  *)
LEMMA GoesToKeeps ==
    ASSUME SummaryInv, UNCHANGED <<db, page, minute>>, NEW step \in Steps, GoesTo(step),
           PlaceSound(step, {}, 0, db)
    PROVE  SummaryInv'
<1>1. PICK o, u, w : o = db /\ u = builder /\ w = builder'
  OBVIOUS
<1>2. BuilderTyped(u)
  BY <1>1 DEF SummaryInv, Sound, BuilderSound
<1>3. w = [u EXCEPT !.step = step, !.read = {}, !.last = 0]
  BY <1>1 DEF GoesTo
<1>4. BuilderSound(w, o)
  BY <1>1, <1>2, <1>3, GoesToMeans
<1> QED
  BY <1>1, <1>4, BuilderStep

LEMMA ReadsKeeps ==
    ASSUME SummaryInv, UNCHANGED <<db, page, minute>>, NEW step \in Steps, NEW read,
           NEW last \in Nat, Reads(step, read, last), PlaceSound(step, read, last, db)
    PROVE  SummaryInv'
<1>1. PICK o, u, w : o = db /\ u = builder /\ w = builder'
  OBVIOUS
<1>2. BuilderTyped(u)
  BY <1>1 DEF SummaryInv, Sound, BuilderSound
<1>3. w = [u EXCEPT !.step = step, !.read = read, !.last = last]
  BY <1>1 DEF Reads
<1>4. BuilderSound(w, o)
  BY <1>1, <1>2, <1>3, ReadsMeans
<1> QED
  BY <1>1, <1>4, BuilderStep

\* While a store is opened its cursors are not used.
LEMMA ClosedPage ==
    ASSUME NEW now, NEW o, NEW p, PageSound(p, o, now),
           NEW e, ~e.ready13, e.epoch = o.epoch, e.retention = o.retention
    PROVE  PageSound(p, e, now)
BY DEF PageSound

(* What a step of an opening leaves is sound, and it goes on from there.      *)
LEMMA BuildStep ==
    ASSUME SummaryInv, UNCHANGED <<page, minute>>, NEW e, e = db',
           StoreSane(e, minute), Agrees(e), ProgressSound(e), BuildSound(e),
           ~e.ready13, e.epoch = db.epoch, e.retention = db.retention,
           NEW step \in Steps, GoesTo(step), PlaceSound(step, {}, 0, e)
    PROVE  SummaryInv'
<1>1. PICK o, now, p, u, w : o = db /\ now = minute /\ p = page /\ u = builder /\ w = builder'
  OBVIOUS
<1>2. now \in Nat /\ BuilderTyped(u) /\ PageSound(p, o, now)
  BY <1>1 DEF SummaryInv, Sound, BuilderSound
<1>3. w = [u EXCEPT !.step = step, !.read = {}, !.last = 0]
  BY <1>1 DEF GoesTo
<1>4. BuilderSound(w, e)
  BY <1>2, <1>3, GoesToMeans
<1>5. PageSound(p, e, now)
  BY <1>1, <1>2, ClosedPage
<1> QED
  BY <1>1, <1>2, <1>4, <1>5 DEF SummaryInv, Sound

LEMMA BeginOpeningKeeps ==
    ASSUME SummaryInv, BeginOpening
    PROVE  SummaryInv'
<1>1. PICK o, w : o = db /\ w = builder'
  OBVIOUS
<1>2. ProgressSound(o) /\ StoreSane(o, minute)
  BY <1>1 DEF SummaryInv, Sound
<1>3. PICK step : /\ step = CASE o.ready13 /\ RepairRequired -> "resetProgress"
                              [] o.ready13 /\ ~RepairRequired -> "state"
                              [] ~o.ready13 /\ o.prepared13 -> "backfill"
                              [] OTHER -> "prepare"
                  /\ w = [step |-> step, read |-> {}, last |-> 0, attempts |-> 0, build |-> 0]
  BY <1>1 DEF BeginOpening
<1>4. PICK required : required = RepairRequired
  OBVIOUS
<1>5. \/ o.ready13 /\ step \in {"resetProgress", "state"}
      \/ ~o.ready13 /\ o.prepared13 /\ step = "backfill"
      \/ ~o.ready13 /\ step = "prepare"
  BY <1>2, <1>3 DEF StoreSane, Databases
<1>6. step \in Steps /\ PlaceSound(step, {}, 0, o)
  BY <1>2, <1>5 DEF Steps, PlaceSound, FillSteps, BuildSteps, LateSteps, ProgressSound
<1>7. BuilderSound(w, o)
  BY <1>3, <1>6 DEF BuilderSound, BuilderTyped
<1>8. UNCHANGED <<db, page, minute>>
  BY DEF BeginOpening, At
<1> QED
  BY <1>1, <1>7, <1>8, BuilderStep

\* The tables, and the build of them, are as they were.
Tables(d) ==
    <<d.generation, d.retention, d.epoch, d.readiness, d.build, d.materialized, d.oldest,
      d.rows, d.events, d.analyses, d.summaries, d.coverage, d.times>>

SameSummaries(e, o) ==
    /\ \A i \in Issues : Aggregate(e, i) = Aggregate(o, i) /\ Stored(e, i) = Stored(o, i)
    /\ Coverage(e) = Coverage(o) /\ e.coverage = o.coverage

LEMMA SameTables ==
    ASSUME NEW now, NEW o, NEW e, StoreSane(o, now), Agrees(o), e \in Databases,
           Tables(e) = Tables(o)
    PROVE  /\ StoreSane(e, now) /\ Agrees(e)
           /\ e.epoch = o.epoch /\ e.retention = o.retention /\ e.readiness = o.readiness
           /\ e.build = o.build /\ e.generation = o.generation /\ e.rows = o.rows
           /\ SameSummaries(e, o)
<1>1. /\ e.generation = o.generation /\ e.retention = o.retention /\ e.epoch = o.epoch
      /\ e.readiness = o.readiness /\ e.build = o.build /\ e.materialized = o.materialized
      /\ e.oldest = o.oldest /\ e.rows = o.rows /\ e.events = o.events
      /\ e.analyses = o.analyses /\ e.summaries = o.summaries /\ e.coverage = o.coverage
      /\ e.times = o.times
  BY DEF Tables
<1>2. \A i \in Issues : Aggregate(e, i) = Aggregate(o, i) /\ Stored(e, i) = Stored(o, i)
  BY <1>1, SameAggregates DEF Stored
<1>3. Coverage(e) = Coverage(o)
  BY <1>1 DEF Coverage
<1>4. StoreSane(e, now)
  BY <1>1 DEF StoreSane, RowsSane
<1>5. Agrees(e)
  BY <1>1, <1>2, <1>3 DEF Agrees
<1> QED
  BY <1>1, <1>2, <1>3, <1>4, <1>5 DEF SameSummaries

LEMMA ResetProgressKeeps ==
    ASSUME SummaryInv, ResetProgress
    PROVE  SummaryInv'
<1>1. PICK o, now, e : o = db /\ now = minute /\ e = db'
  OBVIOUS
<1>2. /\ StoreSane(o, now) /\ Agrees(o) /\ ProgressSound(o) /\ BuildSound(o)
  BY <1>1 DEF SummaryInv, Sound
<1>3. o \in Databases
  BY <1>2 DEF StoreSane
<1>4. e = [o EXCEPT !.prepared13 = FALSE, !.after13 = 0, !.filled13 = FALSE, !.ready13 = FALSE]
  BY <1>1 DEF ResetProgress, NoProgress13
<1>5. /\ e \in Databases /\ Tables(e) = Tables(o) /\ e.prepared13 = FALSE /\ e.ready13 = FALSE
      /\ e.prepared12 = o.prepared12 /\ e.after12 = o.after12
      /\ e.summarised12 = o.summarised12 /\ e.covered12 = o.covered12 /\ e.ready12 = o.ready12
  BY <1>3, <1>4 DEF Databases, Tables
<1>6. /\ StoreSane(e, now) /\ Agrees(e)
      /\ e.epoch = o.epoch /\ e.retention = o.retention /\ e.readiness = o.readiness
      /\ e.build = o.build /\ e.generation = o.generation /\ e.rows = o.rows
      /\ SameSummaries(e, o)
  BY <1>2, <1>5, SameTables
<1>7. ProgressSound(e)
  BY <1>2, <1>5, <1>6 DEF ProgressSound
<1>8. BuildSound(e)
  BY <1>2, <1>5, <1>6 DEF BuildSound, InBuild, RowsOf, SameSummaries
<1>9. "prepare" \in Steps /\ PlaceSound("prepare", {}, 0, e)
  BY <1>5 DEF Steps, PlaceSound, FillSteps, BuildSteps, LateSteps
<1>10. UNCHANGED <<page, minute>> /\ GoesTo("prepare")
  BY DEF ResetProgress, At
<1> QED
  BY <1>1, <1>5, <1>6, <1>7, <1>8, <1>9, <1>10, BuildStep

LEMMA EmptiedMeans ==
    ASSUME NEW o \in Databases, NEW e, e = NoProgress12(Emptied(o))
    PROVE  /\ e \in Databases /\ e.summaries = {} /\ e.coverage = {} /\ e.times = {}
           /\ e.readiness = "building" /\ e.oldest = 0
           /\ e.prepared12 = FALSE /\ e.after12 = 0 /\ e.summarised12 = FALSE
           /\ e.covered12 = FALSE /\ e.ready12 = FALSE
           /\ e.generation = o.generation /\ e.retention = o.retention /\ e.epoch = o.epoch
           /\ e.rows = o.rows /\ e.events = o.events /\ e.build = o.build
           /\ e.prepared13 = o.prepared13 /\ e.filled13 = o.filled13 /\ e.ready13 = o.ready13
<1>1. PICK f : f = Emptied(o)
  OBVIOUS
<1>2. /\ f \in Databases /\ f.summaries = {} /\ f.coverage = {} /\ f.times = {}
      /\ f.readiness = "building" /\ f.oldest = 0
      /\ f.generation = o.generation /\ f.retention = o.retention /\ f.epoch = o.epoch
      /\ f.rows = o.rows /\ f.events = o.events /\ f.build = o.build
      /\ f.prepared13 = o.prepared13 /\ f.filled13 = o.filled13 /\ f.ready13 = o.ready13
  BY <1>1 DEF Emptied, Databases
<1>3. e = NoProgress12(f)
  BY <1>1
<1>4. /\ e \in Databases /\ e.summaries = f.summaries /\ e.coverage = f.coverage
      /\ e.times = f.times /\ e.readiness = f.readiness /\ e.oldest = f.oldest
      /\ e.prepared12 = FALSE /\ e.after12 = 0 /\ e.summarised12 = FALSE
      /\ e.covered12 = FALSE /\ e.ready12 = FALSE
      /\ e.generation = f.generation /\ e.retention = f.retention /\ e.epoch = f.epoch
      /\ e.rows = f.rows /\ e.events = f.events /\ e.build = f.build
      /\ e.prepared13 = f.prepared13 /\ e.filled13 = f.filled13 /\ e.ready13 = f.ready13
  BY <1>2, <1>3 DEF NoProgress12, Databases
<1> QED
  BY <1>2, <1>4

LEMMA PrepareKeeps ==
    ASSUME SummaryInv, PrepareValueFirst
    PROVE  SummaryInv'
<1>1. PICK o, now, e : o = db /\ now = minute /\ e = db'
  OBVIOUS
<1>2. StoreSane(o, now)
  BY <1>1 DEF SummaryInv, Sound
<1>3. o \in Databases /\ RowsSane(o) /\ o.generation > 0 /\ o.generation \in Nat
  BY <1>2 DEF StoreSane, Databases
<1>4. PICK f : f = Emptied(o)
  OBVIOUS
<1>5. f \in Databases
  BY <1>3, <1>4 DEF Emptied, Databases
<1>6. PICK h : h = NoProgress13(f)
  OBVIOUS
<1>7. PICK k : k = NoProgress12(h)
  OBVIOUS
<1>8. e = [k EXCEPT !.build = o.generation, !.prepared13 = TRUE]
  BY <1>1, <1>4, <1>6, <1>7 DEF PrepareValueFirst
<1>9. /\ f.times = {} /\ f.readiness = "building" /\ f.oldest = 0
      /\ f.generation = o.generation /\ f.retention = o.retention /\ f.epoch = o.epoch
      /\ f.rows = o.rows /\ f.events = o.events
  BY <1>3, <1>4 DEF Emptied, Databases
<1>10. /\ h \in Databases /\ h.times = {} /\ h.readiness = "building" /\ h.oldest = 0
       /\ h.generation = o.generation /\ h.retention = o.retention /\ h.epoch = o.epoch
       /\ h.rows = o.rows /\ h.events = o.events /\ h.ready13 = FALSE
  BY <1>5, <1>6, <1>9 DEF NoProgress13, Databases
<1>11. /\ k \in Databases /\ k.times = {} /\ k.readiness = "building" /\ k.oldest = 0
       /\ k.generation = o.generation /\ k.retention = o.retention /\ k.epoch = o.epoch
       /\ k.rows = o.rows /\ k.events = o.events /\ k.ready13 = FALSE
       /\ k.prepared12 = FALSE /\ k.ready12 = FALSE
  BY <1>7, <1>10 DEF NoProgress12, Databases
<1>12. /\ e \in Databases /\ e.times = {} /\ e.readiness = "building" /\ e.oldest = 0
       /\ e.generation = o.generation /\ e.retention = o.retention /\ e.epoch = o.epoch
       /\ e.rows = o.rows /\ e.events = o.events /\ e.ready13 = FALSE
       /\ e.prepared12 = FALSE /\ e.ready12 = FALSE
       /\ e.build = o.generation /\ e.prepared13 = TRUE
  BY <1>3, <1>8, <1>11 DEF Databases
<1>13. StoreSane(e, now)
  BY <1>3, <1>12 DEF StoreSane, RowsSane
<1>14. Agrees(e) /\ ProgressSound(e) /\ BuildSound(e)
  BY <1>12 DEF Agrees, ProgressSound, BuildSound, InBuild
<1>15. "backfill" \in Steps /\ PlaceSound("backfill", {}, 0, e)
  BY <1>12 DEF Steps, PlaceSound, FillSteps, BuildSteps, LateSteps
<1>16. UNCHANGED <<page, minute>> /\ GoesTo("backfill")
  BY DEF PrepareValueFirst, At
<1> QED
  BY <1>1, <1>12, <1>13, <1>14, <1>15, <1>16, BuildStep

\* The last row of a batch.
LEMMA LastTyped ==
    ASSUME NEW d \in Databases, RowsSane(d), NEW batch, batch \subseteq d.rows, batch # {},
           NEW last, last = Max({r.id : r \in batch})
    PROVE  last \in Nat
<1>1. PICK n \in Nat : \A r \in d.rows : r.id <= n
  BY DEF RowsSane
<1>2. PICK ids : ids = {r.id : r \in batch}
  OBVIOUS
<1>3. ids \in SUBSET Nat /\ ids # {} /\ \A k \in ids : k <= n
  BY <1>1, <1>2 DEF Databases, Occurrences
<1>4. last \in ids /\ \A k \in ids : k <= last
  BY <1>2, <1>3, BoundedHasMax
<1> QED
  BY <1>2, <1>3, <1>4

LEMMA ReadBackfillKeeps ==
    ASSUME SummaryInv, ReadBackfill
    PROVE  SummaryInv'
<1>1. PICK o : o = db
  OBVIOUS
<1>2. /\ StoreSane(o, minute) /\ builder.step = "backfill"
      /\ PlaceSound(builder.step, builder.read, builder.last, o)
  BY <1>1 DEF SummaryInv, Sound, BuilderSound, ReadBackfill, At
<1>3. o.prepared13
  BY <1>2 DEF PlaceSound
<1>4. UNCHANGED <<db, page, minute>>
  BY DEF ReadBackfill, At
<1>5. PICK batch : batch = BatchAfter(o.rows, o.after13)
  OBVIOUS
<1>6. CASE o.filled13
  <2>1. GoesTo("state")
    BY <1>1, <1>6 DEF ReadBackfill
  <2>2. "state" \in Steps /\ PlaceSound("state", {}, 0, o)
    BY <1>3, <1>6 DEF Steps, PlaceSound, FillSteps, BuildSteps, LateSteps
  <2> QED
    BY <1>1, <1>4, <2>1, <2>2, GoesToKeeps
<1>7. CASE ~o.filled13 /\ batch = {}
  <2>1. GoesTo("filled")
    BY <1>1, <1>5, <1>7 DEF ReadBackfill
  <2>2. "filled" \in Steps /\ PlaceSound("filled", {}, 0, o)
    BY <1>3, <1>7 DEF Steps, PlaceSound, FillSteps, BuildSteps, LateSteps
  <2> QED
    BY <1>1, <1>4, <2>1, <2>2, GoesToKeeps
<1>8. CASE ~o.filled13 /\ batch # {}
  <2>1. PICK last : last = Max({r.id : r \in batch})
    OBVIOUS
  <2>2. last \in Nat
    <3>1. o \in Databases /\ RowsSane(o) /\ batch \subseteq o.rows
      BY <1>2, <1>5 DEF StoreSane, BatchAfter
    <3> QED
      BY <1>8, <2>1, <3>1, LastTyped
  <2> DEFINE ReadOf(r) == [session |-> r.session, issue |-> r.issue, from |-> r.from,
                           code |-> CodeOf(o, r)]
  <2>3. PICK read : read = {ReadOf(r) : r \in batch}
    OBVIOUS
  <2>4. \A x \in read : x.code \in Codes
    BY <2>3 DEF CodeOf, Codes
  <2>5. Reads("fill", read, last)
    BY <1>1, <1>5, <1>8, <2>1, <2>3 DEF ReadBackfill
  <2>6. "fill" \in Steps /\ PlaceSound("fill", read, last, o)
    BY <1>3, <1>8, <2>4 DEF Steps, PlaceSound, FillSteps, BuildSteps, LateSteps
  <2> QED
    BY <1>1, <1>4, <2>2, <2>5, <2>6, ReadsKeeps
<1> QED
  BY <1>6, <1>7, <1>8

LEMMA FillKeeps ==
    ASSUME SummaryInv, Fill
    PROVE  SummaryInv'
<1>1. PICK o, now, e, read, last : /\ o = db /\ now = minute /\ e = db'
                                   /\ read = builder.read /\ last = builder.last
  OBVIOUS
<1>2. /\ StoreSane(o, now) /\ ProgressSound(o) /\ last \in Nat
      /\ PlaceSound("fill", read, last, o)
  BY <1>1 DEF SummaryInv, Sound, BuilderSound, BuilderTyped, Fill, At
<1>3. o.prepared13 /\ ~o.filled13 /\ \A x \in read : x.code \in Codes
  BY <1>2 DEF PlaceSound, FillSteps
<1>4. o.readiness = "building" /\ ~o.prepared12 /\ ~o.ready13 /\ ~o.ready12
  BY <1>2, <1>3 DEF ProgressSound
<1>5. o \in Databases /\ RowsSane(o) /\ o.rows \in SUBSET Occurrences
  BY <1>2 DEF StoreSane, Databases
<1> DEFINE filled(r) == {x \in read : x.session = r.session /\ x.issue = r.issue
                                      /\ x.from = r.from}
           after(r) == IF filled(r) = {} THEN r
                       ELSE [r EXCEPT !.code = (CHOOSE x \in filled(r) : TRUE).code]
           R == {after(r) : r \in o.rows}
<1>6. e = [o EXCEPT !.rows = R, !.after13 = last]
  BY <1>1 DEF Fill
<1>7. \A r \in o.rows : after(r) \in Occurrences /\ after(r).id = r.id
                        /\ after(r).session = r.session
  <2> SUFFICES ASSUME NEW r \in o.rows PROVE after(r) \in Occurrences /\ after(r).id = r.id
                                             /\ after(r).session = r.session
    OBVIOUS
  <2>1. r \in Occurrences
    BY <1>5
  <2>2. CASE filled(r) = {}
    BY <2>1, <2>2
  <2>3. CASE filled(r) # {}
    <3>1. PICK y : y = CHOOSE x \in filled(r) : TRUE
      OBVIOUS
    <3>2. y \in filled(r)
      BY <2>3, <3>1
    <3>3. y.code \in Codes
      BY <1>3, <3>2
    <3>4. after(r) = [r EXCEPT !.code = y.code]
      BY <2>3, <3>1
    <3> QED
      BY <2>1, <3>3, <3>4 DEF Occurrences
  <2> QED
    BY <2>2, <2>3
<1>8. IsFiniteSet(R)
  <2> DEFINE f == [r \in o.rows |-> after(r)]
  <2>1. f \in Surjection(o.rows, R)
    BY DEF Surjection
  <2> QED
    BY <1>5, <2>1, FS_Surjection DEF RowsSane
<1> HIDE DEF after
<1>9. /\ R \in SUBSET Occurrences
      /\ \A x \in R : \E r \in o.rows : x.id = r.id /\ x.session = r.session
  BY <1>7
<1> HIDE DEF R
<1>10. /\ e \in Databases /\ e.rows = R /\ e.events = o.events /\ e.times = o.times
       /\ e.generation = o.generation /\ e.retention = o.retention /\ e.epoch = o.epoch
       /\ e.oldest = o.oldest /\ e.build = o.build /\ e.readiness = o.readiness
       /\ e.prepared12 = o.prepared12 /\ e.prepared13 = o.prepared13
       /\ e.filled13 = o.filled13 /\ e.ready13 = o.ready13 /\ e.ready12 = o.ready12
  BY <1>2, <1>5, <1>6, <1>9 DEF Databases
<1>11. RowsSane(e)
  BY <1>5, <1>8, <1>9, <1>10 DEF RowsSane
<1>12. StoreSane(e, now)
  BY <1>2, <1>10, <1>11 DEF StoreSane
<1>13. Agrees(e) /\ ProgressSound(e) /\ BuildSound(e)
  BY <1>2, <1>4, <1>10 DEF Agrees, ProgressSound, BuildSound, InBuild
<1>14. "backfill" \in Steps /\ PlaceSound("backfill", {}, 0, e)
  BY <1>3, <1>4, <1>10 DEF Steps, PlaceSound, FillSteps, BuildSteps, LateSteps
<1>15. UNCHANGED <<page, minute>> /\ GoesTo("backfill") /\ ~e.ready13
  BY <1>4, <1>10 DEF Fill, At
<1> QED
  BY <1>1, <1>10, <1>12, <1>13, <1>14, <1>15, BuildStep

LEMMA FilledKeeps ==
    ASSUME SummaryInv, Filled
    PROVE  SummaryInv'
<1>1. PICK o, now, e : o = db /\ now = minute /\ e = db'
  OBVIOUS
<1>2. /\ StoreSane(o, now) /\ Agrees(o) /\ ProgressSound(o)
      /\ PlaceSound("filled", builder.read, builder.last, o)
  BY <1>1 DEF SummaryInv, Sound, BuilderSound, Filled, At
<1>3. o.prepared13 /\ ~o.filled13
  BY <1>2 DEF PlaceSound, FillSteps
<1>4. o.readiness = "building" /\ ~o.prepared12 /\ ~o.ready13 /\ ~o.ready12
  BY <1>2, <1>3 DEF ProgressSound
<1>5. o \in Databases
  BY <1>2 DEF StoreSane
<1>6. e = [o EXCEPT !.filled13 = TRUE]
  BY <1>1 DEF Filled
<1>7. /\ e \in Databases /\ Tables(e) = Tables(o) /\ e.prepared12 = o.prepared12
      /\ e.prepared13 = o.prepared13 /\ e.ready13 = o.ready13 /\ e.ready12 = o.ready12
  BY <1>5, <1>6 DEF Databases, Tables
<1>8. /\ StoreSane(e, now) /\ Agrees(e)
      /\ e.epoch = o.epoch /\ e.retention = o.retention /\ e.readiness = o.readiness
  BY <1>2, <1>7, SameTables
<1>9. ProgressSound(e) /\ BuildSound(e)
  BY <1>4, <1>7, <1>8 DEF ProgressSound, BuildSound, InBuild
<1>10. "backfill" \in Steps /\ PlaceSound("backfill", {}, 0, e)
  BY <1>3, <1>4, <1>7 DEF Steps, PlaceSound, FillSteps, BuildSteps, LateSteps
<1>11. UNCHANGED <<page, minute>> /\ GoesTo("backfill") /\ ~e.ready13
  BY <1>4, <1>7 DEF Filled, At
<1> QED
  BY <1>1, <1>8, <1>9, <1>10, <1>11, BuildStep

LEMMA ReadStateKeeps ==
    ASSUME SummaryInv, ReadState
    PROVE  SummaryInv'
<1>1. PICK o, u, w : o = db /\ u = builder /\ w = builder'
  OBVIOUS
<1>2. /\ StoreSane(o, minute) /\ Agrees(o) /\ BuilderTyped(u)
      /\ PlaceSound("state", u.read, u.last, o)
  BY <1>1 DEF SummaryInv, Sound, BuilderSound, ReadState, At
<1>3. /\ o.prepared13 /\ o.filled13
  BY <1>2 DEF PlaceSound, LateSteps
<1>4. UNCHANGED <<db, page, minute>>
  BY DEF ReadState, At
<1>5. CASE u.attempts = 3
  <2>1. Failed
    BY <1>1, <1>5 DEF ReadState
  <2> QED
    BY <1>4, <2>1, FailedKeeps
<1>6. CASE u.attempts # 3
  <2>1. /\ o.generation \in Nat /\ o.readiness \in {"building", "ready"}
    BY <1>2 DEF StoreSane, Databases
  <2>2. PICK step : step = CASE Ready(o) -> "verify"
                             [] ~Ready(o) /\ (~o.prepared12 \/ o.build # o.generation
                                               \/ o.readiness = "ready") -> "reset"
                             [] OTHER -> "summaries"
    OBVIOUS
  <2>3. w = [u EXCEPT !.build = o.generation, !.step = step]
    BY <1>1, <1>6, <2>2 DEF ReadState
  <2>4. ~Ready(o) => o.readiness = "building"
    BY <1>2, <2>1 DEF Ready, Agrees
  <2>5. \/ step = "verify"
        \/ step = "reset" /\ o.readiness = "building"
        \/ step = "summaries" /\ o.readiness = "building" /\ o.prepared12
    <3>1. CASE Ready(o)
      BY <2>2, <3>1
    <3>2. CASE ~Ready(o) /\ (~o.prepared12 \/ o.build # o.generation \/ o.readiness = "ready")
      BY <2>2, <2>4, <3>2
    <3>3. CASE ~Ready(o) /\ ~(~o.prepared12 \/ o.build # o.generation \/ o.readiness = "ready")
      BY <2>2, <2>4, <3>3
    <3> QED
      BY <3>1, <3>2, <3>3
  <2>6. step \in Steps /\ PlaceSound(step, u.read, u.last, o)
    BY <1>3, <2>5 DEF Steps, PlaceSound, FillSteps, BuildSteps, LateSteps
  <2>7. PICK a, b, c, n, k :
           a = u.step /\ b = u.read /\ c = u.last /\ n = u.attempts /\ k = u.build
    OBVIOUS
  <2>8. u = [step |-> a, read |-> b, last |-> c, attempts |-> n, build |-> k]
        /\ n \in Nat /\ c \in Nat
    BY <1>2, <2>7 DEF BuilderTyped
  <2>9. w = [step |-> step, read |-> b, last |-> c, attempts |-> n, build |-> o.generation]
    BY <2>3, <2>8
  <2>10. BuilderSound(w, o)
    BY <2>1, <2>6, <2>7, <2>8, <2>9 DEF BuilderSound, BuilderTyped
  <2> QED
    BY <1>1, <1>4, <2>10, BuilderStep
<1> QED
  BY <1>5, <1>6

LEMMA ResetBuildKeeps ==
    ASSUME SummaryInv, ResetBuild
    PROVE  SummaryInv'
<1>1. PICK o, now, e : o = db /\ now = minute /\ e = db'
  OBVIOUS
<1>2. /\ now \in Nat /\ StoreSane(o, now) /\ ProgressSound(o)
      /\ PlaceSound("reset", builder.read, builder.last, o)
  BY <1>1 DEF SummaryInv, Sound, BuilderSound, ResetBuild, At
<1>3. o.prepared13 /\ o.filled13 /\ o.readiness = "building"
  BY <1>2 DEF PlaceSound, LateSteps
<1>4. ~o.ready13
  BY <1>2, <1>3 DEF ProgressSound
<1>5. UNCHANGED <<page, minute>>
  BY DEF ResetBuild, At
<1>6. CASE o.generation # builder.build
  <2>1. Failed /\ UNCHANGED db
    BY <1>1, <1>6 DEF ResetBuild
  <2> QED
    BY <1>5, <2>1, FailedKeeps
<1>7. CASE o.generation = builder.build
  <2>1. o \in Databases /\ RowsSane(o) /\ o.generation > 0 /\ o.generation \in Nat
    BY <1>2 DEF StoreSane, Databases
  <2>2. PICK f : f = NoProgress12(Emptied(o))
    OBVIOUS
  <2>3. /\ f \in Databases /\ f.summaries = {} /\ f.coverage = {} /\ f.times = {}
        /\ f.readiness = "building" /\ f.oldest = 0
        /\ f.prepared12 = FALSE /\ f.after12 = 0 /\ f.summarised12 = FALSE
        /\ f.covered12 = FALSE /\ f.ready12 = FALSE
        /\ f.generation = o.generation /\ f.retention = o.retention /\ f.epoch = o.epoch
        /\ f.rows = o.rows /\ f.events = o.events
        /\ f.prepared13 = o.prepared13 /\ f.filled13 = o.filled13 /\ f.ready13 = o.ready13
    BY <2>1, <2>2, EmptiedMeans
  <2>4. /\ e = [f EXCEPT !.times = {<<o.generation, now>>},
                         !.build = o.generation, !.prepared12 = TRUE]
        /\ GoesTo("summaries")
    BY <1>1, <1>7, <2>2 DEF ResetBuild
  <2>5. {<<o.generation, now>>} \in SUBSET (Nat \X Nat)
    BY <1>2, <2>1
  <2>6. /\ e \in Databases /\ e.summaries = {} /\ e.times = {<<o.generation, now>>}
        /\ e.readiness = "building" /\ e.oldest = 0 /\ e.build = o.generation
        /\ e.prepared12 = TRUE /\ e.after12 = 0 /\ e.summarised12 = FALSE
        /\ e.covered12 = FALSE /\ e.ready12 = FALSE
        /\ e.generation = o.generation /\ e.retention = o.retention /\ e.epoch = o.epoch
        /\ e.rows = o.rows /\ e.events = o.events
        /\ e.prepared13 = o.prepared13 /\ e.filled13 = o.filled13 /\ e.ready13 = o.ready13
    BY <2>1, <2>3, <2>4, <2>5 DEF Databases
  <2>7. StoreSane(e, now)
    BY <1>2, <2>1, <2>6 DEF StoreSane, RowsSane
  <2>8. Agrees(e) /\ ProgressSound(e)
    BY <1>3, <1>4, <2>1, <2>6 DEF Agrees, ProgressSound
  <2>9. BuildSound(e)
    <3>1. \A i \in Issues : Stored(e, i) = {}
      BY <2>6 DEF Stored, Active
    <3>2. \A i \in Issues : \A r \in RowsOf(e, i) : r.id > e.after12
      BY <2>6 DEF RowsOf, Active, Databases, Occurrences
    <3> QED
      BY <2>6, <3>1, <3>2 DEF BuildSound
  <2>10. "summaries" \in Steps /\ PlaceSound("summaries", {}, 0, e)
    BY <1>3, <2>6 DEF Steps, PlaceSound, FillSteps, BuildSteps, LateSteps
  <2> QED
    BY <1>1, <1>4, <1>5, <2>4, <2>6, <2>7, <2>8, <2>9, <2>10, BuildStep
<1> QED
  BY <1>6, <1>7

\* A batch begins with the first row that was not done, and has no gap.
LEMMA BatchMeans ==
    ASSUME Batch \in Nat \ {0}, NEW rows, IsFiniteSet(rows), \A r \in rows : r.id \in Nat,
           NEW after \in Nat, NEW batch, batch = BatchAfter(rows, after)
    PROVE  /\ batch \subseteq rows
           /\ batch = {} => \A r \in rows : r.id <= after
           /\ \A m \in batch : \A r \in rows : r.id > after /\ r.id <= m.id => r \in batch
<1> DEFINE Before(r) == {q \in rows : q.id > after /\ q.id < r.id}
<1>1. batch = {r \in rows : r.id > after /\ Cardinality(Before(r)) < Batch}
  BY DEF BatchAfter
<1>2. \A r \in rows : IsFiniteSet(Before(r)) /\ Cardinality(Before(r)) \in Nat
  BY FS_Subset, FS_CardinalityType
<1>3. ASSUME batch = {}, NEW x \in rows, x.id > after PROVE FALSE
  <2> DEFINE ids == {r.id : r \in {r \in rows : r.id > after}}
  <2>1. ids \in SUBSET Nat /\ x.id \in ids
    BY <1>3
  <2>2. PICK k \in ids : \A j \in ids : k <= j
    <3> HIDE DEF ids
    <3> QED
      BY <2>1, NatHasLeast
  <2>3. PICK r \in rows : r.id > after /\ r.id = k
    BY <2>2
  <2>4. Before(r) = {}
    <3>1. ASSUME NEW q \in Before(r) PROVE FALSE
      <4>1. q.id \in ids /\ q.id < k /\ q.id \in Nat /\ k \in Nat
        BY <2>3
      <4> QED
        BY <2>2, <4>1
    <3> QED
      BY <3>1
  <2>5. Cardinality(Before(r)) = 0
    BY <2>4, FS_EmptySet
  <2> HIDE DEF Before
  <2>6. r \in batch
    BY <1>1, <2>3, <2>5
  <2> QED
    BY <1>3, <2>6
<1>4. ASSUME NEW m \in batch, NEW r \in rows, r.id > after, r.id <= m.id PROVE r \in batch
  <2>1. m \in rows /\ Cardinality(Before(m)) < Batch
    BY <1>1
  <2>2. Before(r) \subseteq Before(m)
    <3>1. r.id \in Nat /\ m.id \in Nat /\ \A q \in rows : q.id \in Nat
      BY <2>1
    <3> QED
      BY <1>4, <3>1
  <2>3. Cardinality(Before(r)) <= Cardinality(Before(m))
    <3> HIDE DEF Before
    <3> QED
      BY <1>2, <2>1, <2>2, FS_Subset
  <2>4. Cardinality(Before(r)) \in Nat /\ Cardinality(Before(m)) \in Nat
    BY <1>2, <2>1
  <2> HIDE DEF Before
  <2>5. Cardinality(Before(r)) < Batch
    BY <2>1, <2>3, <2>4
  <2> QED
    BY <1>1, <1>4, <2>5
<1>5. \A r \in rows : r.id \in Nat
  OBVIOUS
<1>6. batch = {} => \A r \in rows : r.id <= after
  <2> HIDE DEF Before
  <2> QED
    BY <1>3, <1>5
<1> HIDE DEF Before
<1> QED
  BY <1>1, <1>4, <1>6

LEMMA ReadSummariesKeeps ==
    ASSUME IssueSummaryAssumption, SummaryInv, ReadSummaries
    PROVE  SummaryInv'
<1>1. PICK o : o = db
  OBVIOUS
<1>2. /\ StoreSane(o, minute) /\ PlaceSound("summaries", builder.read, builder.last, o)
  BY <1>1 DEF SummaryInv, Sound, BuilderSound, ReadSummaries, At
<1>3. o.prepared13 /\ o.filled13 /\ o.readiness = "building" /\ o.prepared12
  BY <1>2 DEF PlaceSound, BuildSteps
<1>4. UNCHANGED <<db, page, minute>>
  BY DEF ReadSummaries, At
<1>5. PICK rows, batch : rows = Active(o.rows) /\ batch = BatchAfter(rows, o.after12)
  OBVIOUS
<1>6. o \in Databases /\ RowsSane(o) /\ o.rows \in SUBSET Occurrences /\ o.after12 \in Nat
  BY <1>2 DEF StoreSane, Databases
<1>7. rows \subseteq o.rows /\ IsFiniteSet(rows) /\ \A r \in rows : r.id \in Nat
  <2>1. rows \subseteq o.rows
    BY <1>5 DEF Active
  <2> QED
    BY <1>6, <2>1, FS_Subset DEF RowsSane, Occurrences
<1>8. /\ batch \subseteq rows
      /\ batch = {} => \A r \in rows : r.id <= o.after12
      /\ \A m \in batch : \A r \in rows : r.id > o.after12 /\ r.id <= m.id => r \in batch
  <2>1. Batch \in Nat \ {0}
    BY DEF IssueSummaryAssumption
  <2> QED
    BY <1>5, <1>6, <1>7, <2>1, BatchMeans
<1>9. CASE o.summarised12
  <2>1. GoesTo("coverage")
    BY <1>1, <1>9 DEF ReadSummaries
  <2>2. "coverage" \in Steps /\ PlaceSound("coverage", {}, 0, o)
    BY <1>3, <1>9 DEF Steps, PlaceSound, FillSteps, BuildSteps, LateSteps
  <2> QED
    BY <1>1, <1>4, <2>1, <2>2, GoesToKeeps
<1>10. CASE ~o.summarised12 /\ batch = {}
  <2>1. GoesTo("summarised")
    BY <1>1, <1>5, <1>10 DEF ReadSummaries
  <2>2. "summarised" \in Steps /\ PlaceSound("summarised", {}, 0, o)
    BY <1>3, <1>5, <1>8, <1>10 DEF Steps, PlaceSound, FillSteps, BuildSteps, LateSteps
  <2> QED
    BY <1>1, <1>4, <2>1, <2>2, GoesToKeeps
<1>11. CASE ~o.summarised12 /\ batch # {}
  <2>1. PICK last : last = Max({r.id : r \in batch})
    OBVIOUS
  <2>9. PICK read : read = {r.issue : r \in batch}
    OBVIOUS
  <2>0. batch \subseteq o.rows /\ batch # {}
    BY <1>7, <1>8, <1>11
  <2>2. last \in Nat /\ \E m \in batch : m.id = last
    <3>1. o \in Databases /\ RowsSane(o)
      BY <1>6
    <3>2. last \in Nat
      BY <2>0, <2>1, <3>1, LastTyped
    <3>3. PICK ids : ids = {r.id : r \in batch}
      OBVIOUS
    <3>4. last \in ids
      <4>1. PICK n \in Nat : \A r \in o.rows : r.id <= n
        BY <3>1 DEF RowsSane
      <4>2. ids \in SUBSET Nat /\ ids # {} /\ \A k \in ids : k <= n
        BY <1>7, <1>8, <2>0, <3>3, <4>1
      <4> QED
        BY <2>1, <3>3, <4>2, BoundedHasMax
    <3> QED
      BY <3>2, <3>3, <3>4
  <2>3. Reads("summarise", read, last)
    BY <1>1, <1>5, <1>11, <2>1, <2>9 DEF ReadSummaries
  <2>4. read \subseteq Issues
    <3>1. \A r \in batch : r.issue \in Issues
      BY <1>6, <2>0 DEF Occurrences
    <3> QED
      BY <2>9, <3>1
  <2>5. \A r \in rows : r.id > o.after12 /\ r.id <= last => r.issue \in read
    BY <1>8, <2>2, <2>9
  <2>6. "summarise" \in Steps /\ PlaceSound("summarise", read, last, o)
    BY <1>3, <1>5, <2>4, <2>5 DEF Steps, PlaceSound, FillSteps, BuildSteps, LateSteps
  <2> QED
    BY <1>1, <1>4, <2>2, <2>3, <2>6, ReadsKeeps
<1> QED
  BY <1>9, <1>10, <1>11

LEMMA SummariseKeeps ==
    ASSUME SummaryInv, Summarise
    PROVE  SummaryInv'
<1>1. PICK o, now, e, read, last : /\ o = db /\ now = minute /\ e = db'
                                   /\ read = builder.read /\ last = builder.last
  OBVIOUS
<1>2. /\ StoreSane(o, now) /\ ProgressSound(o) /\ BuildSound(o) /\ last \in Nat
      /\ PlaceSound("summarise", read, last, o)
  BY <1>1 DEF SummaryInv, Sound, BuilderSound, BuilderTyped, Summarise, At
<1>3. /\ o.prepared13 /\ o.filled13 /\ o.readiness = "building" /\ o.prepared12
      /\ read \in SUBSET Issues
      /\ InBuild(o) => \A r \in Active(o.rows) : r.id > o.after12 /\ r.id <= last
                                                    => r.issue \in read
  BY <1>2 DEF PlaceSound, BuildSteps
<1>4. ~o.ready13 /\ ~o.ready12 /\ o.build > 0
  BY <1>2, <1>3 DEF ProgressSound
<1>5. UNCHANGED <<page, minute>>
  BY DEF Summarise, At
<1>6. CASE o.readiness # "building" \/ ConflictingSummary(o, read, o.build)
  <2>1. Failed /\ UNCHANGED db
    BY <1>1, <1>6 DEF Summarise
  <2> QED
    BY <1>5, <2>1, FailedKeeps
<1>7. CASE ~(o.readiness # "building" \/ ConflictingSummary(o, read, o.build))
  <2>1. o \in Databases /\ RowsSane(o) /\ o.build \in Nat
    BY <1>2 DEF StoreSane, Databases
  <2>2. PICK S : S = RefreshedSummaries(o, read, o.build)
    OBVIOUS
  <2>3. e = [o EXCEPT !.summaries = S, !.after12 = last] /\ GoesTo("summaries")
    BY <1>1, <1>7, <2>2 DEF Summarise
  <2>4. /\ S \in SUBSET Summaries
        /\ \A i \in Issues : ValuesIn(S, i) = IF i \in read THEN Aggregate(o, i) ELSE Stored(o, i)
    BY <1>3, <1>4, <2>1, <2>2, RefreshedSummariesMean
  <2>5. /\ e \in Databases /\ e.summaries = S /\ e.after12 = last
        /\ e.rows = o.rows /\ e.events = o.events /\ e.analyses = o.analyses
        /\ e.coverage = o.coverage /\ e.times = o.times
        /\ e.generation = o.generation /\ e.retention = o.retention /\ e.epoch = o.epoch
        /\ e.oldest = o.oldest /\ e.build = o.build /\ e.readiness = o.readiness
        /\ e.prepared12 = o.prepared12 /\ e.prepared13 = o.prepared13
        /\ e.filled13 = o.filled13 /\ e.ready13 = o.ready13 /\ e.ready12 = o.ready12
        /\ e.summarised12 = o.summarised12 /\ e.covered12 = o.covered12
    BY <1>2, <2>1, <2>3, <2>4 DEF Databases
  <2>6. StoreSane(e, now)
    BY <1>2, <2>5 DEF StoreSane, RowsSane
  <2>7. Agrees(e) /\ ProgressSound(e)
    BY <1>2, <1>3, <1>4, <2>5 DEF Agrees, ProgressSound
  <2>8. BuildSound(e)
    <3> SUFFICES ASSUME InBuild(e) PROVE BuildSound(e)
      BY DEF BuildSound
    <3>1. InBuild(o)
      BY <2>5 DEF InBuild
    <3>2. \A i \in Issues : Aggregate(e, i) = Aggregate(o, i)
      BY <2>5, SameAggregates
    <3>3. \A i \in Issues : Stored(e, i) = IF i \in read THEN Aggregate(o, i) ELSE Stored(o, i)
      BY <2>4, <2>5 DEF Stored, ValuesIn
    <3>4. ASSUME NEW i \in Issues
          PROVE  \/ Stored(e, i) = Aggregate(e, i)
                 \/ Stored(e, i) = {} /\ \A r \in RowsOf(e, i) : r.id > e.after12
      <4>1. CASE i \in read
        BY <3>2, <3>3, <4>1
      <4>2. CASE i \notin read /\ Stored(o, i) = Aggregate(o, i)
        BY <3>2, <3>3, <4>2
      <4>3. CASE i \notin read /\ Stored(o, i) # Aggregate(o, i)
        <5>1. Stored(o, i) = {} /\ \A r \in RowsOf(o, i) : r.id > o.after12
          BY <1>2, <3>1, <4>3 DEF BuildSound
        <5>2. ASSUME NEW r \in RowsOf(e, i) PROVE r.id > e.after12
          <6>1. r \in Active(o.rows) /\ r.issue = i /\ r \in RowsOf(o, i) /\ r.id \in Nat
            BY <2>1, <2>5 DEF RowsOf, Active, Databases, Occurrences
          <6>2. r.id > o.after12 /\ ~(r.id <= last)
            BY <1>3, <3>1, <4>3, <5>1, <6>1
          <6> QED
            BY <1>2, <2>5, <6>1, <6>2
        <5> QED
          BY <3>3, <4>3, <5>1, <5>2
      <4> QED
        BY <4>1, <4>2, <4>3
    <3>5. o.summarised12 => \A i \in Issues : Stored(e, i) = Aggregate(e, i)
      BY <1>2, <3>1, <3>2, <3>3 DEF BuildSound
    <3>6. Coverage(e) = Coverage(o)
      BY <2>5 DEF Coverage
    <3>7. o.covered12 => {c.value : c \in Active(e.coverage)} = {Coverage(e)}
      BY <1>2, <2>5, <3>1, <3>6 DEF BuildSound
    <3> QED
      BY <2>5, <3>4, <3>5, <3>7 DEF BuildSound
  <2>9. "summaries" \in Steps /\ PlaceSound("summaries", {}, 0, e)
    BY <1>3, <2>5 DEF Steps, PlaceSound, FillSteps, BuildSteps, LateSteps
  <2> QED
    BY <1>1, <1>4, <1>5, <2>3, <2>5, <2>6, <2>7, <2>8, <2>9, BuildStep
<1> QED
  BY <1>6, <1>7

LEMMA SummarisedKeeps ==
    ASSUME SummaryInv, Summarised
    PROVE  SummaryInv'
<1>1. PICK o, now, e : o = db /\ now = minute /\ e = db'
  OBVIOUS
<1>2. /\ StoreSane(o, now) /\ Agrees(o) /\ ProgressSound(o) /\ BuildSound(o)
      /\ PlaceSound("summarised", builder.read, builder.last, o)
  BY <1>1 DEF SummaryInv, Sound, BuilderSound, Summarised, At
<1>3. /\ o.prepared13 /\ o.filled13 /\ o.readiness = "building" /\ o.prepared12
      /\ InBuild(o) => \A r \in Active(o.rows) : r.id <= o.after12
  BY <1>2 DEF PlaceSound, BuildSteps
<1>4. ~o.ready13
  BY <1>2, <1>3 DEF ProgressSound
<1>5. o \in Databases
  BY <1>2 DEF StoreSane
<1>6. e = [o EXCEPT !.summarised12 = TRUE]
  BY <1>1 DEF Summarised
<1>7. /\ e \in Databases /\ Tables(e) = Tables(o) /\ e.prepared12 = o.prepared12
      /\ e.prepared13 = o.prepared13 /\ e.filled13 = o.filled13 /\ e.ready13 = o.ready13
      /\ e.ready12 = o.ready12 /\ e.after12 = o.after12 /\ e.covered12 = o.covered12
      /\ e.summarised12 = TRUE
  BY <1>5, <1>6 DEF Databases, Tables
<1>8. /\ StoreSane(e, now) /\ Agrees(e)
      /\ e.epoch = o.epoch /\ e.retention = o.retention /\ e.readiness = o.readiness
      /\ e.build = o.build /\ e.generation = o.generation /\ e.rows = o.rows
      /\ SameSummaries(e, o)
  BY <1>2, <1>7, SameTables
<1>9. ProgressSound(e)
  BY <1>2, <1>7, <1>8 DEF ProgressSound
<1>10. BuildSound(e)
  <2> SUFFICES ASSUME InBuild(e) PROVE BuildSound(e)
    BY DEF BuildSound
  <2>1. InBuild(o)
    BY <1>7, <1>8 DEF InBuild
  <2>2. ASSUME NEW i \in Issues PROVE Stored(o, i) = Aggregate(o, i)
    <3>1. CASE Stored(o, i) = {} /\ \A r \in RowsOf(o, i) : r.id > o.after12
      <4>1. \A r \in RowsOf(o, i) : r.id \in Nat /\ o.after12 \in Nat /\ r.id <= o.after12
        BY <1>3, <1>5, <2>1 DEF RowsOf, Active, Databases, Occurrences
      <4>2. RowsOf(o, i) = {}
        BY <3>1, <4>1
      <4>3. AnalysesOf(o, RowsOf(o, i)) = {}
        BY <4>2 DEF AnalysesOf
      <4>4. Aggregate(o, i) = {}
        BY <4>3 DEF Aggregate, SummaryOf
      <4> QED
        BY <3>1, <4>4
    <3> QED
      BY <1>2, <2>1, <3>1 DEF BuildSound
  <2>3. \A i \in Issues : Stored(e, i) = Aggregate(e, i)
    BY <1>8, <2>2 DEF SameSummaries
  <2>4. e.covered12 => {c.value : c \in Active(e.coverage)} = {Coverage(e)}
    BY <1>2, <1>7, <1>8, <2>1 DEF BuildSound, SameSummaries
  <2> QED
    BY <2>3, <2>4 DEF BuildSound
<1>11. "coverage" \in Steps /\ PlaceSound("coverage", {}, 0, e)
  BY <1>3, <1>7, <1>8 DEF Steps, PlaceSound, FillSteps, BuildSteps, LateSteps
<1>12. UNCHANGED <<page, minute>> /\ GoesTo("coverage") /\ ~e.ready13
  BY <1>4, <1>7 DEF Summarised, At
<1> QED
  BY <1>1, <1>8, <1>9, <1>10, <1>11, <1>12, BuildStep

LEMMA MaterializeCoverageKeeps ==
    ASSUME IssueSummaryAssumption, SummaryInv, MaterializeCoverage
    PROVE  SummaryInv'
<1>1. PICK o, now, e : o = db /\ now = minute /\ e = db'
  OBVIOUS
<1>2. /\ StoreSane(o, now) /\ ProgressSound(o) /\ BuildSound(o)
      /\ PlaceSound("coverage", builder.read, builder.last, o)
  BY <1>1 DEF SummaryInv, Sound, BuilderSound, MaterializeCoverage, At
<1>3. /\ o.prepared13 /\ o.filled13 /\ o.readiness = "building" /\ o.prepared12
      /\ o.summarised12
  BY <1>2 DEF PlaceSound, BuildSteps
<1>4. ~o.ready13 /\ ~o.ready12
  BY <1>2, <1>3 DEF ProgressSound
<1>5. UNCHANGED <<page, minute>>
  BY DEF MaterializeCoverage, At
<1>6. CASE o.covered12
  <2>1. GoesTo("finish") /\ UNCHANGED db
    BY <1>1, <1>6 DEF MaterializeCoverage
  <2>2. "finish" \in Steps /\ PlaceSound("finish", {}, 0, o)
    BY <1>3, <1>6 DEF Steps, PlaceSound, FillSteps, BuildSteps, LateSteps
  <2> QED
    BY <1>1, <1>5, <2>1, <2>2, GoesToKeeps
<1>7. CASE ~o.covered12
  <2>1. o \in Databases /\ RowsSane(o) /\ o.build \in Nat
    BY <1>2 DEF StoreSane, Databases
  <2>2. PICK value \in Counts : value = Coverage(o)
    BY <2>1, CoverageTyped
  <2>3. PICK c : c = [from |-> o.build, until |-> Open, value |-> value]
    OBVIOUS
  <2>4. {c} \in SUBSET Coverages /\ c.value = value /\ c.until = Open
    BY <2>1, <2>3 DEF Coverages, Open
  <2>5. e = [o EXCEPT !.coverage = {c}, !.covered12 = TRUE] /\ GoesTo("finish")
    BY <1>1, <1>3, <1>7, <2>2, <2>3 DEF MaterializeCoverage
  <2>6. /\ e \in Databases /\ e.coverage = {c} /\ e.covered12 = TRUE
        /\ e.rows = o.rows /\ e.events = o.events /\ e.analyses = o.analyses
        /\ e.summaries = o.summaries /\ e.times = o.times
        /\ e.generation = o.generation /\ e.retention = o.retention /\ e.epoch = o.epoch
        /\ e.oldest = o.oldest /\ e.build = o.build /\ e.readiness = o.readiness
        /\ e.prepared12 = o.prepared12 /\ e.prepared13 = o.prepared13
        /\ e.filled13 = o.filled13 /\ e.ready13 = o.ready13 /\ e.ready12 = o.ready12
        /\ e.summarised12 = o.summarised12 /\ e.after12 = o.after12
    BY <2>1, <2>4, <2>5 DEF Databases
  <2>7. StoreSane(e, now)
    BY <1>2, <2>6 DEF StoreSane, RowsSane
  <2>8. Agrees(e) /\ ProgressSound(e)
    BY <1>2, <1>3, <1>4, <2>6 DEF Agrees, ProgressSound
  <2>9. BuildSound(e)
    <3>1. \A i \in Issues : Aggregate(e, i) = Aggregate(o, i) /\ Stored(e, i) = Stored(o, i)
      BY <2>6, SameAggregates DEF Stored
    <3>2. \A i \in Issues : RowsOf(e, i) = RowsOf(o, i)
      BY <2>6 DEF RowsOf
    <3>3. Coverage(e) = value
      BY <2>2, <2>6 DEF Coverage
    <3>4. {x.value : x \in Active(e.coverage)} = {Coverage(e)}
      BY <2>4, <2>6, <3>3 DEF Active
    <3>5. InBuild(e) => InBuild(o)
      BY <2>6 DEF InBuild
    <3> QED
      BY <1>2, <2>6, <3>1, <3>2, <3>4, <3>5 DEF BuildSound
  <2>10. "finish" \in Steps /\ PlaceSound("finish", {}, 0, e)
    BY <1>3, <2>6 DEF Steps, PlaceSound, FillSteps, BuildSteps, LateSteps
  <2> QED
    BY <1>1, <1>4, <1>5, <2>5, <2>6, <2>7, <2>8, <2>9, <2>10, BuildStep
<1> QED
  BY <1>6, <1>7

LEMMA FinishBuildKeeps ==
    ASSUME SummaryInv, FinishBuild
    PROVE  SummaryInv'
<1>1. PICK o, now, e, u, w : o = db /\ now = minute /\ e = db' /\ u = builder /\ w = builder'
  OBVIOUS
<1>2. /\ StoreSane(o, now) /\ ProgressSound(o) /\ BuildSound(o) /\ BuilderTyped(u)
      /\ PlaceSound("finish", u.read, u.last, o)
  BY <1>1 DEF SummaryInv, Sound, BuilderSound, FinishBuild, At
<1>3. /\ o.prepared13 /\ o.filled13 /\ o.readiness = "building" /\ o.prepared12
      /\ o.summarised12 /\ o.covered12
  BY <1>2 DEF PlaceSound, BuildSteps
<1>4. ~o.ready13 /\ ~o.ready12 /\ o.build > 0
  BY <1>2, <1>3 DEF ProgressSound
<1>5. UNCHANGED <<page, minute>>
  BY DEF FinishBuild, At
<1>6. CASE ~BuildIsCurrent(o)
  <2>1. w = [u EXCEPT !.step = "state", !.attempts = @ + 1] /\ UNCHANGED db
    BY <1>1, <1>4, <1>6 DEF FinishBuild
  <2>2. PICK a, b, c, n, k :
           a = u.step /\ b = u.read /\ c = u.last /\ n = u.attempts /\ k = u.build
    OBVIOUS
  <2>3. u = [step |-> a, read |-> b, last |-> c, attempts |-> n, build |-> k]
        /\ n \in Nat /\ c \in Nat /\ k \in Nat
    BY <1>2, <2>2 DEF BuilderTyped
  <2>4. w = [step |-> "state", read |-> b, last |-> c, attempts |-> n + 1, build |-> k]
    BY <2>1, <2>3
  <2>5. "state" \in Steps /\ PlaceSound("state", b, c, o)
    BY <1>3 DEF Steps, PlaceSound, FillSteps, BuildSteps, LateSteps
  <2>6. BuilderSound(w, o)
    BY <2>3, <2>4, <2>5 DEF BuilderSound, BuilderTyped
  <2> QED
    BY <1>1, <1>5, <2>1, <2>6, BuilderStep
<1>7. CASE BuildIsCurrent(o)
  <2>1. o \in Databases /\ RowsSane(o) /\ o.generation \in Nat /\ o.generation > 0
    BY <1>2 DEF StoreSane, Databases
  <2>2. /\ e = [o EXCEPT !.readiness = "ready", !.materialized = o.generation,
                         !.oldest = o.generation, !.ready12 = TRUE]
        /\ GoesTo("verify")
    BY <1>1, <1>4, <1>7 DEF FinishBuild
  <2>3. /\ e \in Databases /\ e.readiness = "ready" /\ e.materialized = o.generation
        /\ e.oldest = o.generation /\ e.ready12 = TRUE
        /\ e.rows = o.rows /\ e.events = o.events /\ e.analyses = o.analyses
        /\ e.summaries = o.summaries /\ e.coverage = o.coverage /\ e.times = o.times
        /\ e.generation = o.generation /\ e.retention = o.retention /\ e.epoch = o.epoch
        /\ e.build = o.build /\ e.prepared12 = o.prepared12 /\ e.prepared13 = o.prepared13
        /\ e.filled13 = o.filled13 /\ e.ready13 = o.ready13
    BY <2>1, <2>2 DEF Databases
  <2>4. StoreSane(e, now)
    BY <1>2, <2>1, <2>3 DEF StoreSane, RowsSane
  <2>5. Agrees(e)
    <3>1. \A i \in Issues : Aggregate(e, i) = Aggregate(o, i) /\ Stored(e, i) = Stored(o, i)
      BY <2>3, SameAggregates DEF Stored
    <3>2. Coverage(e) = Coverage(o)
      BY <2>3 DEF Coverage
    <3>3. InBuild(o)
      BY <1>3, <1>7 DEF InBuild, BuildIsCurrent
    <3>4. \A i \in Issues : Stored(o, i) = Aggregate(o, i)
      BY <1>2, <1>3, <3>3 DEF BuildSound
    <3>5. {c.value : c \in Active(o.coverage)} = {Coverage(o)}
      BY <1>2, <1>3, <3>3 DEF BuildSound
    <3> QED
      BY <2>3, <3>1, <3>2, <3>4, <3>5 DEF Agrees
  <2>6. ProgressSound(e) /\ BuildSound(e)
    BY <1>3, <1>4, <2>3 DEF ProgressSound, BuildSound, InBuild
  <2>7. "verify" \in Steps /\ PlaceSound("verify", {}, 0, e)
    BY <1>3, <2>3 DEF Steps, PlaceSound, FillSteps, BuildSteps, LateSteps
  <2> QED
    BY <1>1, <1>4, <1>5, <2>2, <2>3, <2>4, <2>5, <2>6, <2>7, BuildStep
<1> QED
  BY <1>6, <1>7

LEMMA VerifyKeeps ==
    ASSUME SummaryInv, Verify
    PROVE  SummaryInv'
<1>1. PICK o : o = db
  OBVIOUS
<1>2. PlaceSound("verify", builder.read, builder.last, o)
  BY <1>1 DEF SummaryInv, Sound, BuilderSound, Verify, At
<1>3. o.prepared13 /\ o.filled13
  BY <1>2 DEF PlaceSound, LateSteps
<1>4. UNCHANGED <<db, page, minute>>
  BY DEF Verify, At
<1>5. "finishValueFirst" \in Steps /\ PlaceSound("finishValueFirst", {}, 0, o)
  BY <1>3 DEF Steps, PlaceSound, FillSteps, BuildSteps, LateSteps
<1>6. Failed \/ GoesTo("open") \/ GoesTo("finishValueFirst")
  BY DEF Verify
<1> QED
  BY <1>1, <1>4, <1>5, <1>6, OutsideIsSound, FailedKeeps, GoesToKeeps

LEMMA FinishValueFirstKeeps ==
    ASSUME SummaryInv, FinishValueFirst
    PROVE  SummaryInv'
<1>1. PICK o, now, e, p : o = db /\ now = minute /\ e = db' /\ p = page
  OBVIOUS
<1>2. PICK u, w : u = builder /\ w = builder'
  OBVIOUS
<1>3. /\ now \in Nat /\ StoreSane(o, now) /\ Agrees(o) /\ ProgressSound(o)
      /\ PageSound(p, o, now) /\ BuilderTyped(u)
      /\ PlaceSound("finishValueFirst", u.read, u.last, o)
  BY <1>1, <1>2 DEF SummaryInv, Sound, BuilderSound, FinishValueFirst, At
<1>4. o.prepared13 /\ o.filled13
  BY <1>3 DEF PlaceSound, LateSteps
<1>5. UNCHANGED <<page, minute>>
  BY DEF FinishValueFirst, At
<1>6. CASE ~(Ready(o) /\ BuildIsCurrent(o))
  <2>1. Failed /\ UNCHANGED db
    BY <1>1, <1>6 DEF FinishValueFirst
  <2> QED
    BY <1>5, <2>1, FailedKeeps
<1>7. CASE Ready(o) /\ BuildIsCurrent(o)
  <2>1. o \in Databases /\ o.epoch \in Nat /\ o.retention \in Nat
    BY <1>3 DEF StoreSane, Databases
  <2>2. PICK n \in Nat : n = o.epoch + 1
    BY <2>1
  <2>3. e = [o EXCEPT !.epoch = n, !.ready13 = TRUE] /\ GoesTo("open")
    BY <1>1, <1>7, <2>2 DEF FinishValueFirst
  <2>4. /\ e \in Databases /\ e.epoch = n /\ e.ready13 = TRUE
        /\ e.rows = o.rows /\ e.events = o.events /\ e.analyses = o.analyses
        /\ e.summaries = o.summaries /\ e.coverage = o.coverage /\ e.times = o.times
        /\ e.generation = o.generation /\ e.retention = o.retention
        /\ e.readiness = o.readiness /\ e.materialized = o.materialized /\ e.oldest = o.oldest
        /\ e.build = o.build /\ e.prepared12 = o.prepared12 /\ e.prepared13 = o.prepared13
        /\ e.filled13 = o.filled13 /\ e.ready12 = o.ready12
    BY <2>1, <2>3 DEF Databases
  <2>5. StoreSane(e, now)
    BY <1>3, <2>4 DEF StoreSane, RowsSane
  <2>6. Agrees(e)
    <3>1. \A i \in Issues : Aggregate(e, i) = Aggregate(o, i) /\ Stored(e, i) = Stored(o, i)
      BY <2>4, SameAggregates DEF Stored
    <3>2. Coverage(e) = Coverage(o)
      BY <2>4 DEF Coverage
    <3> QED
      BY <1>3, <2>4, <3>1, <3>2 DEF Agrees
  <2>7. ProgressSound(e) /\ BuildSound(e)
    BY <1>3, <1>4, <1>7, <2>4 DEF ProgressSound, BuildSound, InBuild, Ready
  <2>8. PageSound(p, e, now)
    <3>1. e.epoch >= o.epoch /\ e.retention >= o.retention /\ e.epoch # o.epoch
      BY <2>1, <2>2, <2>4
    <3> QED
      BY <1>3, <2>1, <2>4, <3>1, PageEnds
  <2>9. BuilderSound(w, e)
    <3>1. w = [u EXCEPT !.step = "open", !.read = {}, !.last = 0]
      BY <1>2, <2>3 DEF GoesTo
    <3> QED
      BY <1>3, <3>1, OutsideIsSound, GoesToMeans
  <2> QED
    BY <1>1, <1>2, <1>3, <1>5, <2>5, <2>6, <2>7, <2>8, <2>9 DEF SummaryInv, Sound
<1> QED
  BY <1>6, <1>7

LEMMA CrashKeeps ==
    ASSUME SummaryInv, Crash
    PROVE  SummaryInv'
<1>1. PICK o : o = db
  OBVIOUS
<1>2. UNCHANGED <<db, page, minute>> /\ GoesTo("closed")
  BY DEF Crash
<1> QED
  BY <1>1, <1>2, OutsideIsSound, GoesToKeeps
-----------------------------------------------------------------------------
(* The two stores that it starts with. *)

\* There are as many ids as an old store needs.
LEMMA IdsExist ==
    ASSUME IssueSummaryAssumption
    PROVE  \E f \in [KnownSessions \X Issues -> 1 .. 2 * Cardinality(KnownSessions)] :
              \A x, y \in KnownSessions \X Issues : f[x] = f[y] => x = y
<1> DEFINE n == Cardinality(KnownSessions)
<1>1. n \in Nat /\ ExistsBijection(1 .. n, KnownSessions)
  BY FS_CardinalityType DEF IssueSummaryAssumption
<1>2. Bijection(KnownSessions, 1 .. n) # {}
  BY <1>1, Fun_ExistsBijSymmetric, Fun_ExistsBij
<1>3. PICK b : b \in Bijection(KnownSessions, 1 .. n)
  BY <1>2
<1>4. /\ b \in [KnownSessions -> 1 .. n]
      /\ \A s, t \in KnownSessions : b[s] = b[t] => s = t
  BY <1>3, Fun_BijectionProperties
<1> HIDE DEF n
<1> DEFINE f == [x \in KnownSessions \X Issues |->
                    IF x[2] = "belay" THEN 2 * b[x[1]] - 1 ELSE 2 * b[x[1]]]
<1>5. \A x \in KnownSessions \X Issues :
          b[x[1]] \in 1 .. n /\ x[1] \in KnownSessions /\ x[2] \in Issues
  BY <1>4
<1>6. \A x \in KnownSessions \X Issues : f[x] \in 1 .. 2 * n
  BY <1>1, <1>5
<1>7. ASSUME NEW x \in KnownSessions \X Issues, NEW y \in KnownSessions \X Issues, f[x] = f[y]
      PROVE  x = y
  <2>1. PICK c, d : c = b[x[1]] /\ d = b[y[1]] /\ c \in Nat /\ d \in Nat
    BY <1>1, <1>5
  <2>2. c = d /\ (x[2] = "belay" <=> y[2] = "belay")
    BY <1>7, <2>1
  <2>3. x[1] = y[1]
    BY <1>4, <1>5, <2>1, <2>2
  <2>4. x[2] = y[2]
    BY <1>5, <2>2 DEF Issues
  <2> QED
    BY <2>3, <2>4
<1>8. f \in [KnownSessions \X Issues -> 1 .. 2 * n]
  BY <1>6
<1> QED
  BY <1>7, <1>8 DEF n

LEMMA OldRowsMean ==
    ASSUME IssueSummaryAssumption
    PROVE  /\ OldRows \in SUBSET Occurrences /\ IsFiniteSet(OldRows)
           /\ \E n \in Nat : \A r \in OldRows : r.id <= n
<1> DEFINE n == Cardinality(KnownSessions)
           Pairs == KnownSessions \X Issues
           ids == CHOOSE f \in [Pairs -> 1 .. 2 * n] :
                    \A x, y \in Pairs : f[x] = f[y] => x = y
           row(x) == [id |-> ids[x], session |-> x[1], issue |-> x[2], code |-> "none",
                      from |-> 1, until |-> Open]
           R == {row(x) : x \in Pairs}
<1>1. OldRows = R
  BY DEF OldRows
<1>2. \E f \in [Pairs -> 1 .. 2 * n] : \A x, y \in Pairs : f[x] = f[y] => x = y
  BY IdsExist
<1>3. ids \in [Pairs -> 1 .. 2 * n] /\ \A x, y \in Pairs : ids[x] = ids[y] => x = y
  BY <1>2
<1>4. n \in Nat
  BY FS_CardinalityType DEF IssueSummaryAssumption
<1> HIDE DEF n, ids
<1>5. IsFiniteSet(Pairs)
  <2>1. ids \in Injection(Pairs, 1 .. 2 * n)
    BY <1>3, Fun_IsInj
  <2>2. IsFiniteSet(1 .. 2 * n)
    BY <1>4, FS_Interval
  <2> QED
    BY <2>1, <2>2, FS_Injection
<1>6. IsFiniteSet(R)
  <2> DEFINE g == [x \in Pairs |-> row(x)]
  <2>1. g \in Surjection(Pairs, R)
    BY DEF Surjection
  <2> QED
    BY <1>5, <2>1, FS_Surjection
<1>7. \A x \in Pairs : row(x) \in Occurrences /\ row(x).id <= 2 * n
  <2> SUFFICES ASSUME NEW x \in Pairs PROVE row(x) \in Occurrences /\ row(x).id <= 2 * n
    OBVIOUS
  <2>1. ids[x] \in Nat \ {0} /\ ids[x] <= 2 * n
    BY <1>3, <1>4
  <2> QED
    BY <2>1 DEF Occurrences, Codes, Open
<1>8. R \in SUBSET Occurrences /\ \A r \in R : r.id <= 2 * n
  BY <1>7
<1>9. 2 * n \in Nat
  BY <1>4
<1> QED
  BY <1>1, <1>6, <1>8, <1>9

LEMMA OldStoreIsSound ==
    ASSUME IssueSummaryAssumption
    PROVE  /\ StoreSane(OldStore, 0) /\ Agrees(OldStore) /\ ProgressSound(OldStore)
           /\ BuildSound(OldStore) /\ OldStore.events = KnownSessions
<1> DEFINE analyses == {[session |-> s, status |-> "current", from |-> 1, until |-> Open]
                           : s \in KnownSessions}
<1>1. PICK d, rows, seen : d = OldStore /\ rows = OldRows /\ seen = analyses
  OBVIOUS
<1>2. seen \in SUBSET Analyses
  BY <1>1 DEF Analyses, Statuses, Open
<1>3. /\ rows \in SUBSET Occurrences /\ IsFiniteSet(rows)
      /\ \E n \in Nat : \A r \in rows : r.id <= n
  BY <1>1, OldRowsMean
<1>4. d = [generation |-> 1, retention |-> 1, epoch |-> 1,
           readiness |-> "building", build |-> 0, materialized |-> 0, oldest |-> 0,
           rows |-> rows, events |-> KnownSessions, findings |-> KnownSessions,
           analyses |-> seen, summaries |-> {}, coverage |-> {}, times |-> {},
           prepared12 |-> FALSE, after12 |-> 0, summarised12 |-> FALSE, covered12 |-> FALSE,
           ready12 |-> FALSE,
           prepared13 |-> FALSE, after13 |-> 0, filled13 |-> FALSE, ready13 |-> FALSE]
  BY <1>1 DEF OldStore
<1>5. d \in Databases
  BY <1>2, <1>3, <1>4 DEF Databases
<1>6. RowsSane(d)
  <2>1. \A r \in rows : r.session \in KnownSessions
    BY <1>3 DEF Occurrences
  <2> QED
    BY <1>3, <1>4, <2>1 DEF RowsSane
<1>7. StoreSane(d, 0)
  BY <1>4, <1>5, <1>6 DEF StoreSane
<1>8. Agrees(d) /\ ProgressSound(d) /\ BuildSound(d) /\ d.events = KnownSessions
  BY <1>4 DEF Agrees, ProgressSound, BuildSound, InBuild
<1> QED
  BY <1>1, <1>7, <1>8

LEMMA OpenedStoreIsSound ==
    ASSUME IssueSummaryAssumption
    PROVE  /\ StoreSane(OpenedStore, 0) /\ Agrees(OpenedStore) /\ ProgressSound(OpenedStore)
           /\ BuildSound(OpenedStore)
<1> DEFINE row(r) == [r EXCEPT !.code = CodeOf(OldStore, r)]
           R == {row(r) : r \in OldStore.rows}
<1>1. PICK o, d, top, S : o = OldStore /\ d = OpenedStore
                         /\ top = 2 * Cardinality(KnownSessions) /\ S = R
  OBVIOUS
<1>2. StoreSane(o, 0) /\ o.events = KnownSessions /\ top \in Nat
  BY <1>1, OldStoreIsSound, FS_CardinalityType DEF IssueSummaryAssumption
<1>3. /\ o \in Databases /\ o.generation = 1 /\ o.times = {} /\ o.coverage = {} /\ o.build = 0
      /\ o.rows \in SUBSET Occurrences /\ IsFiniteSet(o.rows)
      /\ \E n \in Nat : \A r \in o.rows : r.id <= n
  BY <1>1, <1>2 DEF StoreSane, RowsSane, OldStore, Databases
<1>4. PICK c, e : /\ c = [o EXCEPT !.rows = S, !.readiness = "ready"]
                  /\ e = Refreshed(c, Issues, 0)
                  /\ d = [e EXCEPT
                            !.epoch = 2, !.build = 1, !.oldest = 1,
                            !.prepared12 = TRUE, !.after12 = top, !.summarised12 = TRUE,
                            !.covered12 = TRUE, !.ready12 = TRUE,
                            !.prepared13 = TRUE, !.after13 = top, !.filled13 = TRUE,
                            !.ready13 = TRUE]
  BY <1>1 DEF OpenedStore
<1>5. \A r \in OldStore.rows : row(r) \in Occurrences /\ row(r).id = r.id
  <2> SUFFICES ASSUME NEW r \in OldStore.rows PROVE row(r) \in Occurrences /\ row(r).id = r.id
    OBVIOUS
  <2>1. PICK code : code = CodeOf(OldStore, r) /\ code \in Codes
    BY DEF CodeOf, Codes
  <2>2. r \in Occurrences
    BY <1>1, <1>3
  <2> QED
    BY <2>1, <2>2 DEF Occurrences
<1>6. IsFiniteSet(R)
  <2> DEFINE g == [r \in OldStore.rows |-> row(r)]
  <2>1. g \in Surjection(OldStore.rows, R)
    BY DEF Surjection
  <2> QED
    BY <1>1, <1>3, <2>1, FS_Surjection
<1>7. R \in SUBSET Occurrences /\ \A x \in R : \E r \in OldStore.rows : x.id = r.id
  BY <1>5
<1> HIDE DEF R, row
<1>8. /\ S \in SUBSET Occurrences /\ IsFiniteSet(S) /\ \A x \in S : \E r \in o.rows : x.id = r.id
  BY <1>1, <1>6, <1>7
<1>9. \E n \in Nat : \A x \in S : x.id <= n
  BY <1>3, <1>8 DEF Occurrences
<1>10. /\ c \in Databases /\ c.generation = 1 /\ c.readiness = "ready" /\ c.times = {}
       /\ c.coverage = {} /\ c.rows = S /\ c.events = KnownSessions
  BY <1>2, <1>3, <1>4, <1>8 DEF Databases
<1>11. Dated(c) /\ OneCoverage(c)
  BY <1>10 DEF Dated, OneCoverage, Active
<1>12. /\ e \in Databases /\ Rest(e) = Rest(c) /\ e.materialized = 1
       /\ \A i \in Issues : Stored(e, i) = Aggregate(c, i)
       /\ {x.value : x \in Active(e.coverage)} = {Coverage(c)}
       /\ e.times \subseteq {<<1, 0>>}
  <2>0. e = Refreshed(c, Issues, 0) /\ c \in Databases /\ c.readiness = "ready"
    BY <1>4, <1>10
  <2>1. 0 \in Nat /\ Issues \in SUBSET Issues /\ c.generation > 0
    BY <1>10
  <2>2. /\ e \in Databases /\ Rest(e) = Rest(c) /\ e.materialized = c.generation
        /\ \A i \in Issues :
              Stored(e, i) = IF i \in Issues THEN Aggregate(c, i) ELSE Stored(c, i)
        /\ {x.value : x \in Active(e.coverage)} = {Coverage(c)}
        /\ e.times \subseteq c.times \cup {<<c.generation, 0>>}
    BY <1>10, <1>11, <2>0, <2>1, RefreshedMeans
  <2> QED
    BY <1>10, <2>2
<1>13. /\ e.generation = 1 /\ e.readiness = "ready" /\ e.rows = S /\ e.events = KnownSessions
       /\ \A i \in Issues : Aggregate(e, i) = Aggregate(c, i)
       /\ Coverage(e) = Coverage(c)
  BY <1>10, <1>12, RestMeans DEF Progress
<1>14. /\ d \in Databases
       /\ d.generation = e.generation /\ d.readiness = e.readiness /\ d.rows = e.rows
       /\ d.events = e.events /\ d.analyses = e.analyses /\ d.summaries = e.summaries
       /\ d.coverage = e.coverage /\ d.times = e.times /\ d.materialized = e.materialized
       /\ d.build = 1 /\ d.oldest = 1 /\ d.prepared13 /\ d.filled13
  BY <1>2, <1>4, <1>12 DEF Databases
<1>15. RowsSane(d)
  <2>1. \A r \in S : r.session \in KnownSessions
    BY <1>8 DEF Occurrences
  <2> QED
    BY <1>8, <1>9, <1>13, <1>14, <2>1 DEF RowsSane
<1>16. StoreSane(d, 0)
  BY <1>12, <1>13, <1>14, <1>15 DEF StoreSane
<1>17. \A i \in Issues : Stored(d, i) = Aggregate(d, i)
  <2>1. \A i \in Issues : Stored(d, i) = Stored(e, i)
    BY <1>14 DEF Stored
  <2>2. \A i \in Issues : Aggregate(d, i) = Aggregate(e, i)
    BY <1>14, SameAggregates
  <2> QED
    BY <1>12, <1>13, <2>1, <2>2
<1>18. Coverage(d) = Coverage(e)
  BY <1>14 DEF Coverage
<1>19. Agrees(d) /\ ProgressSound(d) /\ BuildSound(d)
  BY <1>4, <1>12, <1>13, <1>14, <1>17, <1>18 DEF Agrees, ProgressSound, BuildSound, InBuild
<1> QED
  BY <1>1, <1>16, <1>19

LEMMA InitIsSound ==
    ASSUME IssueSummaryAssumption, IssueSummaryInit
    PROVE  SummaryInv
<1>1. PICK d, b, p, now : d = db /\ b = builder /\ p = page /\ now = minute
  OBVIOUS
<1>2. now = 0 /\ p = NoPage
  BY <1>1 DEF IssueSummaryInit
<1>3. StoreSane(d, 0) /\ Agrees(d) /\ ProgressSound(d) /\ BuildSound(d)
  <2>1. d = OldStore \/ d = OpenedStore
    BY <1>1 DEF IssueSummaryInit
  <2> QED
    BY <2>1, OldStoreIsSound, OpenedStoreIsSound
<1>4. PICK step : /\ step \in {"open", "closed"}
                  /\ b = [step |-> step, read |-> {}, last |-> 0, attempts |-> 0, build |-> 0]
  BY <1>1 DEF IssueSummaryInit
<1>5. BuilderSound(b, d)
  <2>1. step \in Steps /\ PlaceSound(step, {}, 0, d)
    BY <1>4, OutsideIsSound
  <2> QED
    BY <1>4, <2>1 DEF BuilderSound, BuilderTyped
<1>6. PageSound(p, d, now)
  BY <1>2 DEF PageSound
<1> QED
  BY <1>1, <1>2, <1>3, <1>5, <1>6 DEF SummaryInv, Sound

-----------------------------------------------------------------------------
LEMMA OpenStepKeeps ==
    ASSUME IssueSummaryAssumption, SummaryInv, OpenStep
    PROVE  SummaryInv'
<1>1. CASE BeginOpening BY <1>1, BeginOpeningKeeps
<1>2. CASE ResetProgress BY <1>2, ResetProgressKeeps
<1>3. CASE PrepareValueFirst BY <1>3, PrepareKeeps
<1>4. CASE ReadBackfill BY <1>4, ReadBackfillKeeps
<1>5. CASE Fill BY <1>5, FillKeeps
<1>6. CASE Filled BY <1>6, FilledKeeps
<1>7. CASE ReadState BY <1>7, ReadStateKeeps
<1>8. CASE ResetBuild BY <1>8, ResetBuildKeeps
<1>9. CASE ReadSummaries BY <1>9, ReadSummariesKeeps
<1>10. CASE Summarise BY <1>10, SummariseKeeps
<1>11. CASE Summarised BY <1>11, SummarisedKeeps
<1>12. CASE MaterializeCoverage BY <1>12, MaterializeCoverageKeeps
<1>13. CASE FinishBuild BY <1>13, FinishBuildKeeps
<1>14. CASE Verify BY <1>14, VerifyKeeps
<1>15. CASE FinishValueFirst BY <1>15, FinishValueFirstKeeps
<1> QED
  BY <1>1, <1>2, <1>3, <1>4, <1>5, <1>6, <1>7, <1>8, <1>9, <1>10, <1>11, <1>12, <1>13, <1>14,
     <1>15 DEF OpenStep

LEMMA PruneKeeps ==
    ASSUME IssueSummaryAssumption, SummaryInv, Prune
    PROVE  SummaryInv'
<1>1. ASSUME NEW s \in KnownSessions, PruneFinding(s) PROVE SummaryInv'
  BY <1>1, PruneFindingKeeps
<1>2. ASSUME NEW s \in KnownSessions, PruneSession(s) PROVE SummaryInv'
  BY <1>2, PruneSessionKeeps
<1>3. ASSUME NEW row \in db.rows, PruneOccurrence(row) PROVE SummaryInv'
  BY <1>3, PruneOccurrenceKeeps
<1>4. CASE PruneAnalyses
  BY <1>4, PruneAnalysesKeeps
<1> QED
  BY <1>1, <1>2, <1>3, <1>4 DEF Prune

LEMMA SummaryStep ==
    ASSUME IssueSummaryAssumption, SummaryInv, [IssueSummaryNext]_summaryVars
    PROVE  SummaryInv'
<1>1. CASE OpenStep BY <1>1, OpenStepKeeps
<1>2. CASE Crash BY <1>2, CrashKeeps
<1>3. CASE FirstPage BY <1>3, FirstPageKeeps
<1>4. CASE Tick BY <1>4, TickKeeps
<1>5. ASSUME NEW s \in KnownSessions, NEW finding \in BOOLEAN, ImportEvents(s, finding)
      PROVE  SummaryInv'
  BY <1>5, ImportKeeps
<1>6. ASSUME NEW s \in KnownSessions, NEW belay \in BOOLEAN, PublishProjection(s, belay)
      PROVE  SummaryInv'
  BY <1>6, PublicationKeeps
<1>7. ASSUME NEW s \in KnownSessions, AnalysisFails(s) PROVE SummaryInv'
  BY <1>7, FailureKeeps
<1>8. CASE Prune BY <1>8, PruneKeeps
<1>9. CASE UNCHANGED summaryVars
  BY <1>9 DEF summaryVars, SummaryInv
<1> QED
  BY <1>1, <1>2, <1>3, <1>4, <1>5, <1>6, <1>7, <1>8, <1>9 DEF IssueSummaryNext

(* The tables of occurrences, analyses, summaries and coverage, the progress  *)
(* of the opening process and the page a reader holds fit together in every    *)
(* state: whoever publishes, fails, prunes, opens, stops or reads, in any       *)
(* order, for any sessions, batch and lifetime of a cursor.                    *)
THEOREM SummaryInvariant ==
    ASSUME IssueSummaryAssumption
    PROVE  IssueSummarySpec => []SummaryInv
<1>1. IssueSummaryInit => SummaryInv
  BY InitIsSound
<1>2. SummaryInv /\ [IssueSummaryNext]_summaryVars => SummaryInv'
  BY SummaryStep
<1> QED
  BY <1>1, <1>2, PTL DEF IssueSummarySpec

LEMMA SummaryInvSuffices ==
    ASSUME SummaryInv
    PROVE  SummariesSound
<1>1. PICK o, p, now : o = db /\ p = page /\ now = minute
  OBVIOUS
<1>2. StoreSane(o, now) /\ Agrees(o) /\ PageSound(p, o, now)
  BY <1>1 DEF SummaryInv, Sound
<1>3. SummariesAgree
  BY <1>1, <1>2 DEF SummariesAgree, Agrees
<1>4. CursorsHold
  <2> SUFFICES ASSUME db.ready13, Ready(db), Current(page)
               PROVE  Accepted(page) /\ SeenAt(db, page.snapshot) = page.shown
    BY DEF CursorsHold
  <2>1. /\ p # NoPage /\ p.epoch = o.epoch /\ p.retention = o.retention
        /\ now <= p.issuedAt + CursorLifetime
    BY <1>1 DEF Current
  <2>2. o.oldest <= p.snapshot /\ SeenAt(o, p.snapshot) = p.shown /\ p.snapshot \in Nat
    BY <1>1, <1>2, <2>1 DEF PageSound
  <2>3. o.oldest \in Nat
    BY <1>2 DEF StoreSane, Databases
  <2> QED
    BY <1>1, <2>2, <2>3 DEF Accepted
<1> QED
  BY <1>3, <1>4 DEF SummariesSound

(* What is read from the summaries is one snapshot, and a true one: the        *)
(* summaries that are ready add up to the occurrences and analyses of their     *)
(* generation, and a cursor that is of this build, retained and fresh is        *)
(* accepted and shows what its first page was taken from, whatever the store     *)
(* went through since.                                                          *)
THEOREM SummariesAreSound ==
    ASSUME IssueSummaryAssumption
    PROVE  IssueSummarySpec => []SummariesSound
<1>1. SummaryInv => SummariesSound
  BY SummaryInvSuffices
<1> QED
  BY <1>1, SummaryInvariant, PTL
=============================================================================
