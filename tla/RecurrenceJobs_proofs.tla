----------------------- MODULE RecurrenceJobs_proofs -----------------------
(***************************************************************************)
(* Safety of the recurrence jobs and their refinement of the ledger, for   *)
(* any number of jobs, annotations and workers, any batch size and any     *)
(* bounds on the environment.                                              *)
(***************************************************************************)
EXTENDS RecurrenceJobs, FiniteSetTheorems, TLAPS

-----------------------------------------------------------------------------
(* What is true of all reachable states. *)

(* An attempt is a claim: the two counters of a job agree. *)
AttemptsAreClaims == \A j \in Queued : job[j].attempts = job[j].generation

(* A worker holds a claim that was made, and no two hold the same one. *)
ClaimsWereMade ==
    \A w \in Workers : worker[w] # Idle =>
        /\ worker[w].job \in Queued
        /\ worker[w].generation <= job[worker[w].job].generation
        /\ worker[w].attempt = worker[w].generation

ClaimsDiffer ==
    \A v, w \in Workers :
        /\ worker[v] # Idle /\ worker[w] # Idle
        /\ worker[v].job = worker[w].job
        /\ worker[v].generation = worker[w].generation
        => v = w

(* Only a job that failed waits for a retry time. *)
OnlyFailedWait == \A j \in Queued : job[j].cooling => job[j].state = "failed"

SnapshotsExist == \A j \in Queued : job[j].snapshot <= annotations

JobsTyped == TypeOK /\ IsFiniteSet(Queued)

Safe ==
    /\ AttemptsAreClaims
    /\ OnlyFailedWait
    /\ ClaimsWereMade
    /\ ClaimsDiffer
    /\ SnapshotsExist
    /\ CompleteIsComplete
    /\ NoCandidateSkipped

-----------------------------------------------------------------------------
(* The size of a batch. *)

(* The candidates of a batch are the next BatchSize annotations, or the rest:  *)
(* readRecurrenceCandidatesTx orders them by sequence and limits their number. *)
LEMMA BatchIsInterval ==
    ASSUME NEW row \in JobRows, row.cursor <= row.snapshot
    PROVE  /\ NextCursor(row) \in Nat
           /\ Candidates(row) = row.cursor + 1 .. NextCursor(row)
           /\ row.cursor <= NextCursor(row)
           /\ NextCursor(row) <= row.snapshot
           /\ Completed(row) <=> NextCursor(row) = row.snapshot
<1> DEFINE last == IF row.snapshot <= row.cursor + BatchSize
                   THEN row.snapshot ELSE row.cursor + BatchSize
<1>1. row.cursor \in Nat /\ row.snapshot \in Nat /\ BatchSize \in Nat \ {0}
  BY JobsAssumption DEF JobRows
<1>2. Candidates(row) = row.cursor + 1 .. last
  BY <1>1 DEF Candidates
<1>3. Cardinality(Candidates(row)) = last - row.cursor
  <2>1. Cardinality(row.cursor + 1 .. last) =
          IF row.cursor + 1 > last THEN 0 ELSE last - (row.cursor + 1) + 1
    <3>1. row.cursor + 1 \in Int /\ last \in Int
      BY <1>1
    <3> HIDE DEF last
    <3> QED
      BY <3>1, FS_Interval
  <2> QED
    BY <1>1, <1>2, <2>1
<1>4. NextCursor(row) = last
  BY <1>1, <1>3 DEF NextCursor
<1>5. Completed(row) <=> last = row.snapshot
  BY <1>1, <1>3, <1>4 DEF Completed
<1> HIDE DEF last
<1>6. last \in Nat /\ row.cursor <= last /\ last <= row.snapshot
  BY <1>1 DEF last
<1> QED
  BY <1>2, <1>4, <1>5, <1>6

-----------------------------------------------------------------------------
(* What each transaction does to the row of its job. *)

(* The row of a queued job is a row. *)
LEMMA RowTyped ==
    ASSUME TypeOK
    PROVE  /\ \A j \in Queued : j \in Jobs /\ job[j] \in JobRows
           /\ \A j \in Jobs : job[j] \in JobRows => j \in Queued
           /\ \A w \in Workers : worker[w] # Idle => worker[w] \in Claims
  BY DistinctAssumption DEF TypeOK, Queued

(* ClaimRecurrenceJob: the next generation and the next attempt. *)
LEMMA ClaimEffect ==
    ASSUME TypeOK, OnlyFailedWait,
           NEW w \in Workers, NEW j \in Jobs, ClaimRecurrenceJob(w, j)
    PROVE  /\ j \in Queued
           /\ job[j].state # "complete"
           /\ job' = [job EXCEPT ![j] = job'[j]]
           /\ job'[j] \in JobRows
           /\ job'[j].snapshot = job[j].snapshot
           /\ job'[j].cursor = job[j].cursor
           /\ job'[j].state = "claimed"
           /\ job'[j].cooling = FALSE
           /\ job'[j].generation = job[j].generation + 1
           /\ job'[j].attempts = job[j].attempts + 1
           /\ worker' = [worker EXCEPT ![w] = worker'[w]]
           /\ worker'[w] = [job |-> j, generation |-> job[j].generation + 1,
                            attempt |-> job[j].attempts + 1, step |-> "batch"]
<1>1. /\ j \in Queued /\ job[j] \in JobRows
      /\ job[j].state # "complete" /\ job[j].cooling = FALSE
  BY RowTyped DEF ClaimRecurrenceJob, Claimable, OnlyFailedWait, JobRows
<1>2. job' = [job EXCEPT ![j] = [job[j] EXCEPT !.state = "claimed", !.leased = TRUE,
                  !.generation = @ + 1, !.attempts = @ + 1]]
  BY <1>1 DEF ClaimRecurrenceJob, TypeOK
<1>3. job'[j] = [job[j] EXCEPT !.state = "claimed", !.leased = TRUE,
                  !.generation = @ + 1, !.attempts = @ + 1]
  BY <1>2 DEF TypeOK
<1>4. /\ job'[j].sequence = job[j].sequence /\ job'[j].snapshot = job[j].snapshot
      /\ job'[j].cursor = job[j].cursor /\ job'[j].cooling = job[j].cooling
      /\ job'[j].state = "claimed" /\ job'[j].leased = TRUE
      /\ job'[j].generation = job[j].generation + 1
      /\ job'[j].attempts = job[j].attempts + 1
  BY <1>1, <1>3 DEF JobRows
<1>5. job'[j] \in JobRows
  <2>1. job[j].generation + 1 \in Nat /\ job[j].attempts + 1 \in Nat
    BY <1>1 DEF JobRows
  <2> QED
    BY <1>1, <1>3, <2>1 DEF JobRows, States
<1>6. job' = [job EXCEPT ![j] = job'[j]]
  BY <1>2, <1>3
<1> QED
  BY <1>1, <1>4, <1>5, <1>6 DEF ClaimRecurrenceJob, TypeOK

(* ProcessRecurrenceBatch: the cursor advances over the candidates. *)
LEMMA BatchEffect ==
    ASSUME TypeOK, ClaimsWereMade, CompleteIsComplete,
           NEW w \in Workers, ProcessRecurrenceBatch(w),
           NEW j, j = worker[w].job
    PROVE  /\ j \in Queued
           /\ job[j].state = "claimed"
           /\ job' = [job EXCEPT ![j] = job'[j]]
           /\ job'[j] \in JobRows
           /\ job'[j].snapshot = job[j].snapshot
           /\ job'[j].cursor = NextCursor(job[j])
           /\ job'[j].generation = job[j].generation
           /\ job'[j].attempts = job[j].attempts
           /\ job'[j].cooling = job[j].cooling
           /\ job'[j].state = IF Completed(job[j]) THEN "complete" ELSE "claimed"
           /\ worker' \in {worker, [worker EXCEPT ![w] = Idle]}
<1>1. j \in Queued /\ job[j] \in JobRows /\ job[j].state = "claimed"
  BY RowTyped DEF ProcessRecurrenceBatch, ClaimsWereMade, Fenced
<1>2. NextCursor(job[j]) \in Nat
  BY <1>1, BatchIsInterval DEF CompleteIsComplete
<1>3. PICK c \in BOOLEAN : c = Completed(job[j])
  BY DEF Completed
<1>4. job' = [job EXCEPT ![j] = [job[j] EXCEPT !.cursor = NextCursor(job[j]), !.leased = ~c,
                  !.state = IF c THEN "complete" ELSE "claimed"]]
  BY <1>1, <1>3 DEF ProcessRecurrenceBatch, TypeOK
<1>5. job'[j] = [job[j] EXCEPT !.cursor = NextCursor(job[j]), !.leased = ~c,
                  !.state = IF c THEN "complete" ELSE "claimed"]
  BY <1>1, <1>4 DEF TypeOK, Queued
<1>6. job'[j] \in JobRows
  BY <1>1, <1>2, <1>5 DEF JobRows, States
<1> QED
  BY <1>1, <1>3, <1>4, <1>5, <1>6 DEF ProcessRecurrenceBatch, TypeOK, JobRows

(* FailRecurrenceJob: only the state and the times change. *)
LEMMA FailEffect ==
    ASSUME TypeOK, ClaimsWereMade, NEW w \in Workers, FailRecurrenceJob(w),
           NEW j, j = worker[w].job
    PROVE  /\ j \in Queued
           /\ job[j].state = "claimed"
           /\ job' = [job EXCEPT ![j] = job'[j]]
           /\ job'[j] \in JobRows
           /\ job'[j].snapshot = job[j].snapshot
           /\ job'[j].cursor = job[j].cursor
           /\ job'[j].generation = job[j].generation
           /\ job'[j].attempts = job[j].attempts
           /\ job'[j].state = "failed"
<1>1. j \in Queued /\ job[j] \in JobRows /\ job[j].state = "claimed"
  BY RowTyped DEF FailRecurrenceJob, ClaimsWereMade, Fenced
<1>2. job' = [job EXCEPT ![j] = [job[j] EXCEPT !.state = "failed", !.leased = FALSE,
                                               !.cooling = TRUE]]
  BY <1>1 DEF FailRecurrenceJob, TypeOK
<1>3. job'[j] = [job[j] EXCEPT !.state = "failed", !.leased = FALSE, !.cooling = TRUE]
  BY <1>1, <1>2 DEF TypeOK, Queued
<1>4. job'[j] \in JobRows
  BY <1>1, <1>3 DEF JobRows, States
<1>5. job' = [job EXCEPT ![j] = job'[j]]
  BY <1>2, <1>3
<1> QED
  BY <1>1, <1>3, <1>4, <1>5 DEF JobRows

(* A lease that expires, a retry that falls due: only the times change. *)
LEMMA TimeEffect ==
    ASSUME TypeOK, NEW j \in Jobs, LeaseExpires(j) \/ RetryDue(j)
    PROVE  /\ j \in Queued
           /\ job' = [job EXCEPT ![j] = job'[j]]
           /\ job'[j] \in JobRows
           /\ \A f \in {"snapshot", "cursor", "state", "generation", "attempts"} :
                job'[j][f] = job[j][f]
           /\ job'[j].cooling => job[j].cooling
<1>1. j \in Queued /\ job[j] \in JobRows
  BY RowTyped DEF LeaseExpires, RetryDue
<1>2. \/ job' = [job EXCEPT ![j] = [job[j] EXCEPT !.leased = FALSE]]
      \/ job' = [job EXCEPT ![j] = [job[j] EXCEPT !.cooling = FALSE]]
  BY <1>1 DEF LeaseExpires, RetryDue, TypeOK
<1>3. \/ job'[j] = [job[j] EXCEPT !.leased = FALSE]
      \/ job'[j] = [job[j] EXCEPT !.cooling = FALSE]
  BY <1>1, <1>2 DEF TypeOK
<1>4. job'[j] \in JobRows
  BY <1>1, <1>3 DEF JobRows
<1> QED
  BY <1>1, <1>2, <1>3, <1>4 DEF JobRows

(* Enqueue: a new job, with all annotations recorded so far in its snapshot. *)
LEMMA EnqueueEffect ==
    ASSUME JobsTyped, NEW j \in Jobs, Enqueue(j)
    PROVE  /\ j \notin Queued
           /\ job' = [job EXCEPT ![j] = job'[j]]
           /\ job'[j] \in JobRows
           /\ job'[j].snapshot = annotations
           /\ job'[j].cursor = 0
           /\ job'[j].generation = 0
           /\ job'[j].attempts = 0
           /\ job'[j].cooling = FALSE
           /\ job'[j].state = IF annotations = 0 THEN "complete" ELSE "pending"
<1>1. Cardinality(Queued) \in Nat
  BY FS_CardinalityType DEF JobsTyped
<1>2. job' = [job EXCEPT ![j] =
             [sequence |-> Cardinality(Queued), snapshot |-> annotations,
              state |-> IF annotations = 0 THEN "complete" ELSE "pending",
              cursor |-> 0, generation |-> 0, attempts |-> 0,
              leased |-> FALSE, cooling |-> FALSE]]
  BY DEF Enqueue
<1>3. job'[j] = [sequence |-> Cardinality(Queued), snapshot |-> annotations,
              state |-> IF annotations = 0 THEN "complete" ELSE "pending",
              cursor |-> 0, generation |-> 0, attempts |-> 0,
              leased |-> FALSE, cooling |-> FALSE]
  BY <1>2 DEF JobsTyped, TypeOK
<1>4. job'[j] \in JobRows
  BY <1>1, <1>3 DEF JobRows, States, JobsTyped, TypeOK
<1>5. job' = [job EXCEPT ![j] = job'[j]]
  BY <1>2, <1>3
<1> QED
  BY <1>3, <1>4, <1>5 DEF Enqueue, Queued

(* A transaction on one job keeps the table typed and adds at most that job. *)
LEMMA OneJobTyped ==
    ASSUME JobsTyped, NEW j \in Jobs,
           job' = [job EXCEPT ![j] = job'[j]], job'[j] \in JobRows
    PROVE  /\ job' \in [Jobs -> JobRows \cup {NoJob}]
           /\ Queued' = Queued \cup {j}
           /\ IsFiniteSet(Queued')
           /\ \A k \in Jobs \ {j} : job'[k] = job[k]
<1>1. job' \in [Jobs -> JobRows \cup {NoJob}]
  BY DEF JobsTyped, TypeOK
<1>2. \A k \in Jobs \ {j} : job'[k] = job[k]
  BY DEF JobsTyped, TypeOK
<1>3. Queued' = Queued \cup {j}
  BY <1>2, DistinctAssumption DEF Queued
<1>4. IsFiniteSet(Queued')
  BY <1>3, FS_AddElement DEF JobsTyped
<1> QED
  BY <1>1, <1>2, <1>3, <1>4

(* How a step may change the rows of the table. *)
Advanced(k) ==
    /\ job'[k].snapshot = job[k].snapshot
    /\ job[k].cursor <= job'[k].cursor
    /\ job[k].generation <= job'[k].generation
    /\ job'[k].attempts = job'[k].generation
    /\ job'[k].cooling => job'[k].state = "failed"
    /\ job[k].state = "complete" => job'[k] = job[k]
    /\ job'[k].cursor <= job'[k].snapshot
    /\ job'[k].state = "complete" => job'[k].cursor = job'[k].snapshot

Fresh(k) ==
    /\ job'[k].snapshot = annotations
    /\ job'[k].cursor = 0
    /\ job'[k].attempts = job'[k].generation
    /\ job'[k].cooling = FALSE
    /\ job'[k].state = "complete" => annotations = 0

(* An unchanged row has advanced. *)
LEMMA KeptAdvances ==
    ASSUME JobsTyped, Safe, NEW k \in Queued, job'[k] = job[k]
    PROVE  Advanced(k)
<1>1. job[k] \in JobRows
  BY RowTyped DEF JobsTyped
<1> QED
  BY <1>1 DEF Advanced, JobRows, Safe, AttemptsAreClaims, OnlyFailedWait, CompleteIsComplete

(* Every step keeps the jobs, advances those there were and makes fresh ones. *)
LEMMA JobStep ==
    ASSUME JobsTyped, Safe, [Next]_vars
    PROVE  /\ job' \in [Jobs -> JobRows \cup {NoJob}]
           /\ IsFiniteSet(Queued')
           /\ Queued \subseteq Queued'
           /\ \A k \in Queued : Advanced(k)
           /\ \A k \in Queued' \ Queued : Fresh(k)
<1> DEFINE Goal == /\ job' \in [Jobs -> JobRows \cup {NoJob}]
                   /\ IsFiniteSet(Queued')
                   /\ Queued \subseteq Queued'
                   /\ \A k \in Queued : Advanced(k)
                   /\ \A k \in Queued' \ Queued : Fresh(k)
<1> SUFFICES Goal
  OBVIOUS
<1>1. ASSUME job' = job PROVE Goal
  <2>1. Queued' = Queued
    BY <1>1 DEF Queued
  <2> QED
    BY <1>1, <2>1, KeptAdvances DEF JobsTyped, TypeOK
<1>2. ASSUME NEW j \in Queued, job' = [job EXCEPT ![j] = job'[j]], job'[j] \in JobRows,
             Advanced(j)
      PROVE  Goal
  <2>1. j \in Jobs
    BY DEF Queued
  <2>2. /\ job' \in [Jobs -> JobRows \cup {NoJob}]
        /\ Queued' = Queued \cup {j}
        /\ IsFiniteSet(Queued')
        /\ \A k \in Jobs \ {j} : job'[k] = job[k]
    BY <1>2, <2>1, OneJobTyped
  <2>3. ASSUME NEW k \in Queued PROVE Advanced(k)
    <3>1. CASE k = j
      BY <3>1, <1>2
    <3>2. CASE k # j
      BY <3>2, <2>2, KeptAdvances DEF Queued
    <3> QED
      BY <3>1, <3>2
  <2> QED
    BY <2>2, <2>3
<1>3. ASSUME NEW j \in Jobs, Enqueue(j) PROVE Goal
  <2>1. /\ j \notin Queued
        /\ job' = [job EXCEPT ![j] = job'[j]]
        /\ job'[j] \in JobRows
        /\ Fresh(j)
    BY <1>3, EnqueueEffect DEF Fresh
  <2>2. /\ job' \in [Jobs -> JobRows \cup {NoJob}]
        /\ Queued' = Queued \cup {j}
        /\ IsFiniteSet(Queued')
        /\ \A k \in Jobs \ {j} : job'[k] = job[k]
    BY <2>1, OneJobTyped
  <2>3. \A k \in Queued : Advanced(k)
    BY <2>1, <2>2, KeptAdvances DEF Queued
  <2> QED
    BY <2>1, <2>2, <2>3
<1>4. ASSUME NEW j \in Jobs, LeaseExpires(j) \/ RetryDue(j) PROVE Goal
  <2>1. /\ j \in Queued
        /\ job' = [job EXCEPT ![j] = job'[j]]
        /\ job'[j] \in JobRows
        /\ \A f \in {"snapshot", "cursor", "state", "generation", "attempts"} :
             job'[j][f] = job[j][f]
        /\ job'[j].cooling => job[j].cooling
    BY <1>4, TimeEffect DEF JobsTyped
  <2>2. /\ job'[j].snapshot = job[j].snapshot /\ job'[j].cursor = job[j].cursor
        /\ job'[j].state = job[j].state
        /\ job'[j].generation = job[j].generation /\ job'[j].attempts = job[j].attempts
    BY <2>1
  <2>3. job[j].state # "complete"
    BY <1>4, <2>1 DEF LeaseExpires, RetryDue, Safe, OnlyFailedWait
  <2>4. Advanced(j)
    BY <2>1, <2>2, <2>3, RowTyped
       DEF Advanced, JobRows, Safe, AttemptsAreClaims, OnlyFailedWait, CompleteIsComplete, JobsTyped
  <2> QED
    BY <1>2, <2>1, <2>4
<1>5. ASSUME NEW w \in Workers, NEW j \in Jobs, ClaimRecurrenceJob(w, j) PROVE Goal
  <2>1. /\ j \in Queued
        /\ job[j].state # "complete"
        /\ job' = [job EXCEPT ![j] = job'[j]]
        /\ job'[j] \in JobRows
        /\ job'[j].snapshot = job[j].snapshot
        /\ job'[j].cursor = job[j].cursor
        /\ job'[j].state = "claimed"
        /\ job'[j].cooling = FALSE
        /\ job'[j].generation = job[j].generation + 1
        /\ job'[j].attempts = job[j].attempts + 1
    BY <1>5, ClaimEffect DEF JobsTyped, Safe
  <2>2. Advanced(j)
    BY <2>1, RowTyped
       DEF Advanced, JobRows, Safe, AttemptsAreClaims, CompleteIsComplete, JobsTyped
  <2> QED
    BY <1>2, <2>1, <2>2
<1>6. ASSUME NEW w \in Workers, ProcessRecurrenceBatch(w) PROVE Goal
  <2> DEFINE j == worker[w].job
  <2>1. /\ j \in Queued /\ job[j].state = "claimed"
        /\ job' = [job EXCEPT ![j] = job'[j]]
        /\ job'[j] \in JobRows
        /\ job'[j].snapshot = job[j].snapshot
        /\ job'[j].cursor = NextCursor(job[j])
        /\ job'[j].generation = job[j].generation
        /\ job'[j].attempts = job[j].attempts
        /\ job'[j].cooling = job[j].cooling
        /\ job'[j].state = IF Completed(job[j]) THEN "complete" ELSE "claimed"
    BY <1>6, BatchEffect DEF JobsTyped, Safe
  <2>2. job[j] \in JobRows /\ job[j].cursor <= job[j].snapshot
    BY <2>1, RowTyped DEF JobsTyped, Safe, CompleteIsComplete
  <2>3. /\ job[j].cursor <= NextCursor(job[j]) /\ NextCursor(job[j]) <= job[j].snapshot
        /\ Completed(job[j]) <=> NextCursor(job[j]) = job[j].snapshot
    BY <2>2, BatchIsInterval
  <2> HIDE DEF j
  <2>4. Advanced(j)
    BY <2>1, <2>2, <2>3 DEF Advanced, JobRows, Safe, AttemptsAreClaims, OnlyFailedWait
  <2> QED
    BY <1>2, <2>1, <2>4
<1>7. ASSUME NEW w \in Workers, FailRecurrenceJob(w) PROVE Goal
  <2> DEFINE j == worker[w].job
  <2>1. /\ j \in Queued /\ job[j].state = "claimed"
        /\ job' = [job EXCEPT ![j] = job'[j]]
        /\ job'[j] \in JobRows
        /\ job'[j].snapshot = job[j].snapshot
        /\ job'[j].cursor = job[j].cursor
        /\ job'[j].generation = job[j].generation
        /\ job'[j].attempts = job[j].attempts
        /\ job'[j].state = "failed"
    BY <1>7, FailEffect DEF JobsTyped, Safe
  <2> HIDE DEF j
  <2>2. Advanced(j)
    BY <2>1, RowTyped
       DEF Advanced, JobRows, Safe, AttemptsAreClaims, OnlyFailedWait, CompleteIsComplete, JobsTyped
  <2> QED
    BY <1>2, <2>1, <2>2
<1>8. CASE RecordFixAnnotation
  BY <1>1, <1>8 DEF RecordFixAnnotation
<1>9. ASSUME NEW a \in 1 .. MaxAnnotations, RetractFixAnnotation(a) PROVE Goal
  BY <1>1, <1>9 DEF RetractFixAnnotation
<1>10. ASSUME NEW w \in Workers, BatchError(w) \/ GiveUp(w) \/ Stop(w) PROVE Goal
  BY <1>1, <1>10 DEF BatchError, GiveUp, Stop
<1>11. CASE UNCHANGED vars
  BY <1>1, <1>11 DEF vars
<1> HIDE DEF Goal
<1>12. CASE Next
  BY <1>3, <1>4, <1>5, <1>6, <1>7, <1>8, <1>9, <1>10, <1>12 DEF Next
<1> QED
  BY <1>11, <1>12

-----------------------------------------------------------------------------
(* Typing. *)

RestTyped ==
    /\ annotations \in Nat
    /\ retracted \subseteq 1 .. annotations
    /\ events \subseteq Jobs \X EventKinds \X Nat
    /\ observations \subseteq Nat \X {Occurrence[j] : j \in Jobs}
    /\ worker \in [Workers -> Claims \cup {Idle}]
    /\ budget \in [{"fault", "stop", "delay"} -> Nat]

(* A step of the environment leaves the budgets natural numbers. *)
LEMMA SpendTyped ==
    ASSUME TypeOK, NEW kind \in {"fault", "stop", "delay"}, Spend(kind)
    PROVE  budget' \in [{"fault", "stop", "delay"} -> Nat]
  BY DEF TypeOK, Spend

(* Every step leaves everything but the jobs well typed. *)
LEMMA RestStep ==
    ASSUME JobsTyped, Safe, [Next]_vars
    PROVE  RestTyped'
<1> USE DEF JobsTyped
<1> SUFFICES RestTyped'
  OBVIOUS
<1>1. CASE RecordFixAnnotation
  BY <1>1 DEF RecordFixAnnotation, TypeOK, RestTyped
<1>2. ASSUME NEW a \in 1 .. MaxAnnotations, RetractFixAnnotation(a) PROVE RestTyped'
  BY <1>2 DEF RetractFixAnnotation, TypeOK, RestTyped
<1>3. ASSUME NEW j \in Jobs, Enqueue(j) PROVE RestTyped'
  <2>1. events' \subseteq Jobs \X EventKinds \X Nat
    BY <1>3 DEF Enqueue, TypeOK, EventKinds
  <2> QED
    BY <1>3, <2>1 DEF Enqueue, TypeOK, RestTyped
<1>4. ASSUME NEW j \in Jobs, LeaseExpires(j) PROVE RestTyped'
  BY <1>4, SpendTyped DEF LeaseExpires, TypeOK, RestTyped
<1>5. ASSUME NEW j \in Jobs, RetryDue(j) PROVE RestTyped'
  BY <1>5 DEF RetryDue, TypeOK, RestTyped
<1>6. ASSUME NEW w \in Workers, NEW j \in Jobs, ClaimRecurrenceJob(w, j) PROVE RestTyped'
  <2>1. job[j] \in JobRows
    BY <1>6, RowTyped, ClaimEffect DEF Safe
  <2>2. worker' = [worker EXCEPT ![w] =
         [job |-> j, generation |-> job[j].generation + 1,
          attempt |-> job[j].attempts + 1, step |-> "batch"]]
    BY <1>6 DEF ClaimRecurrenceJob
  <2>3. [job |-> j, generation |-> job[j].generation + 1,
         attempt |-> job[j].attempts + 1, step |-> "batch"] \in Claims
    BY <2>1 DEF JobRows, Claims
  <2>4. worker' \in [Workers -> Claims \cup {Idle}]
    BY <2>2, <2>3 DEF TypeOK
  <2> QED
    BY <1>6, <2>4 DEF ClaimRecurrenceJob, TypeOK, RestTyped
<1>7. ASSUME NEW w \in Workers, ProcessRecurrenceBatch(w) PROVE RestTyped'
  <2> DEFINE j == worker[w].job
  <2>1. j \in Jobs /\ job[j] \in JobRows
    BY <1>7, RowTyped, BatchEffect DEF Safe
  <2>2. events' \subseteq Jobs \X EventKinds \X Nat
    <3>1. events' \subseteq events \cup {<<j, "complete", job[j].attempts>>}
      BY <1>7 DEF ProcessRecurrenceBatch
    <3>2. job[j].attempts \in Nat
      BY <2>1 DEF JobRows
    <3> QED
      BY <2>1, <3>1, <3>2 DEF TypeOK, EventKinds
  <2>3. observations' \subseteq Nat \X {Occurrence[k] : k \in Jobs}
    <3>1. Observed(j) \subseteq Nat
      BY <2>1 DEF Observed, Candidates, JobRows
    <3>2. observations' = observations \cup (Observed(j) \X {Occurrence[j]})
      BY <1>7 DEF ProcessRecurrenceBatch
    <3> QED
      BY <2>1, <3>1, <3>2 DEF TypeOK
  <2>4. worker' \in [Workers -> Claims \cup {Idle}]
    BY <1>7 DEF ProcessRecurrenceBatch, TypeOK
  <2> QED
    BY <1>7, <2>2, <2>3, <2>4 DEF ProcessRecurrenceBatch, TypeOK, RestTyped
<1>8. ASSUME NEW w \in Workers, BatchError(w) PROVE RestTyped'
  <2>1. worker[w] \in Claims
    BY <1>8, RowTyped DEF BatchError
  <2>2. worker' = [worker EXCEPT ![w] = [worker[w] EXCEPT !.step = "fail"]]
    BY <1>8 DEF BatchError
  <2>3. worker' \in [Workers -> Claims \cup {Idle}]
    BY <2>1, <2>2 DEF TypeOK, Claims
  <2> QED
    BY <1>8, <2>3, SpendTyped DEF BatchError, TypeOK, RestTyped
<1>9. ASSUME NEW w \in Workers, FailRecurrenceJob(w) PROVE RestTyped'
  <2>1. worker[w] \in Claims
    BY <1>9, RowTyped DEF FailRecurrenceJob
  <2>2. events' \subseteq Jobs \X EventKinds \X Nat
    BY <1>9, <2>1 DEF FailRecurrenceJob, TypeOK, EventKinds, Claims
  <2> QED
    BY <1>9, <2>2 DEF FailRecurrenceJob, TypeOK, RestTyped
<1>10. ASSUME NEW w \in Workers, GiveUp(w) PROVE RestTyped'
  BY <1>10 DEF GiveUp, TypeOK, RestTyped
<1>11. ASSUME NEW w \in Workers, Stop(w) PROVE RestTyped'
  BY <1>11, SpendTyped DEF Stop, TypeOK, RestTyped
<1>12. CASE UNCHANGED vars
  BY <1>12 DEF vars, TypeOK, RestTyped
<1>13. CASE Next
  BY <1>1, <1>2, <1>3, <1>4, <1>5, <1>6, <1>7, <1>8, <1>9, <1>10, <1>11, <1>13 DEF Next
<1> QED
  BY <1>12, <1>13

(* Every step leaves the state well typed. *)
LEMMA TypedStep ==
    ASSUME JobsTyped, Safe, [Next]_vars
    PROVE  JobsTyped'
  BY JobStep, RestStep DEF JobsTyped, TypeOK, RestTyped

-----------------------------------------------------------------------------
(* Claims. *)

(* Who holds a claim after a step held the same one before, except who has     *)
(* just claimed: its generation is newer than every claim on that job.         *)
LEMMA ClaimsStep ==
    ASSUME JobsTyped, Safe, [Next]_vars
    PROVE  ClaimsWereMade' /\ ClaimsDiffer'
<1> DEFINE Same(w) == /\ worker[w] # Idle
                      /\ worker'[w].job = worker[w].job
                      /\ worker'[w].generation = worker[w].generation
                      /\ worker'[w].attempt = worker[w].attempt
<1>1. /\ Queued \subseteq Queued'
      /\ \A j \in Queued : job[j].generation \in Nat /\ job'[j].generation \in Nat
      /\ \A j \in Queued : job[j].generation <= job'[j].generation
  <2>1. \A j \in Queued : job[j] \in JobRows
    BY RowTyped DEF JobsTyped
  <2>2. \A j \in Queued' : job'[j] \in JobRows
    BY TypedStep, DistinctAssumption DEF JobsTyped, TypeOK, Queued
  <2> QED
    BY <2>1, <2>2, JobStep DEF Advanced, JobRows
<1>2. \A w \in Workers : worker[w] # Idle => worker[w] \in Claims
  BY RowTyped DEF JobsTyped
<1>3. ASSUME \A w \in Workers : worker'[w] # Idle => Same(w)
      PROVE  ClaimsWereMade' /\ ClaimsDiffer'
  <2>1. ASSUME NEW w \in Workers, worker'[w] # Idle
        PROVE  /\ worker'[w].job \in Queued'
               /\ worker'[w].generation <= job'[worker'[w].job].generation
               /\ worker'[w].attempt = worker'[w].generation
    <3>1. Same(w)
      BY <1>3, <2>1
    <3>2. /\ worker[w].job \in Queued
          /\ worker[w].generation <= job[worker[w].job].generation
          /\ worker[w].attempt = worker[w].generation
          /\ worker[w].generation \in Nat
      BY <1>2, <3>1 DEF Safe, ClaimsWereMade, Claims
    <3>3. worker[w].generation <= job'[worker[w].job].generation
      BY <1>1, <3>2
    <3> QED
      BY <1>1, <3>1, <3>2, <3>3
  <2>2. ClaimsDiffer'
    BY <1>3 DEF Safe, ClaimsDiffer
  <2> QED
    BY <2>1, <2>2 DEF ClaimsWereMade
<1>4. ASSUME NEW w \in Workers, NEW j \in Jobs, ClaimRecurrenceJob(w, j)
      PROVE  ClaimsWereMade' /\ ClaimsDiffer'
  <2>1. /\ j \in Queued
        /\ job'[j].generation = job[j].generation + 1
        /\ worker'[w] = [job |-> j, generation |-> job[j].generation + 1,
                         attempt |-> job[j].attempts + 1, step |-> "batch"]
    BY <1>4, ClaimEffect DEF JobsTyped, Safe
  <2>2. \A v \in Workers \ {w} : worker'[v] = worker[v]
    BY <1>4 DEF ClaimRecurrenceJob, JobsTyped, TypeOK
  <2>3. ASSUME NEW v \in Workers \ {w}, worker[v] # Idle
        PROVE  /\ worker[v].job \in Queued'
               /\ worker[v].generation <= job'[worker[v].job].generation
               /\ worker[v].attempt = worker[v].generation
               /\ worker[v].job = j => worker[v].generation # job[j].generation + 1
    <3>1. /\ worker[v].job \in Queued
          /\ worker[v].generation <= job[worker[v].job].generation
          /\ worker[v].attempt = worker[v].generation
          /\ worker[v].generation \in Nat
      BY <1>2, <2>3 DEF Safe, ClaimsWereMade, Claims
    <3> QED
      BY <1>1, <3>1
  <2>4. job[j].attempts = job[j].generation
    BY <2>1 DEF Safe, AttemptsAreClaims
  <2>5. ClaimsWereMade'
    <3>1. ASSUME NEW v \in Workers, worker'[v] # Idle
          PROVE  /\ worker'[v].job \in Queued'
                 /\ worker'[v].generation <= job'[worker'[v].job].generation
                 /\ worker'[v].attempt = worker'[v].generation
      <4>1. CASE v = w
        BY <1>1, <2>1, <2>4, <4>1
      <4>2. CASE v # w
        BY <2>2, <2>3, <3>1, <4>2
      <4> QED
        BY <4>1, <4>2
    <3> QED
      BY <3>1 DEF ClaimsWereMade
  <2>6. ClaimsDiffer'
    BY <2>1, <2>2, <2>3 DEF Safe, ClaimsDiffer
  <2> QED
    BY <2>5, <2>6
<1>5. ASSUME NEW w \in Workers, worker' \in {worker, [worker EXCEPT ![w] = Idle]}
      PROVE  ClaimsWereMade' /\ ClaimsDiffer'
  BY <1>3, <1>5 DEF JobsTyped, TypeOK
<1>6. ASSUME NEW w \in Workers, BatchError(w) PROVE ClaimsWereMade' /\ ClaimsDiffer'
  <2>1. worker' = [worker EXCEPT ![w] = [worker[w] EXCEPT !.step = "fail"]]
    BY <1>6 DEF BatchError
  <2>2. \A v \in Workers : worker'[v] # Idle => Same(v)
    BY <1>2, <1>6, <2>1 DEF BatchError, JobsTyped, TypeOK, Claims
  <2> QED
    BY <1>3, <2>2
<1>7. ASSUME NEW w \in Workers,
             ProcessRecurrenceBatch(w) \/ FailRecurrenceJob(w) \/ GiveUp(w) \/ Stop(w)
      PROVE  ClaimsWereMade' /\ ClaimsDiffer'
  BY <1>5, <1>7 DEF ProcessRecurrenceBatch, FailRecurrenceJob, GiveUp, Stop
<1>8. ASSUME worker' = worker PROVE ClaimsWereMade' /\ ClaimsDiffer'
  BY <1>3, <1>8
<1>9. CASE \/ RecordFixAnnotation
           \/ \E a \in 1 .. MaxAnnotations : RetractFixAnnotation(a)
           \/ \E j \in Jobs : Enqueue(j) \/ LeaseExpires(j) \/ RetryDue(j)
           \/ UNCHANGED vars
  BY <1>8, <1>9
     DEF RecordFixAnnotation, RetractFixAnnotation, Enqueue, LeaseExpires, RetryDue, vars
<1>10. CASE \E w \in Workers : \/ ProcessRecurrenceBatch(w) \/ BatchError(w)
                               \/ FailRecurrenceJob(w) \/ GiveUp(w) \/ Stop(w)
  BY <1>6, <1>7, <1>10
<1> QED
  BY <1>4, <1>9, <1>10 DEF Next

-----------------------------------------------------------------------------
(* Progress. *)

(* A batch moves the cursor of its job over the candidates it evaluated. *)
LEMMA BatchMovesCursor ==
    ASSUME JobsTyped, Safe, NEW w \in Workers, ProcessRecurrenceBatch(w),
           NEW j, j = worker[w].job
    PROVE  /\ j \in Queued
           /\ Queued' = Queued
           /\ \A k \in Queued \ {j} : job'[k] = job[k]
           /\ job'[j].snapshot = job[j].snapshot
           /\ job[j].cursor \in Nat /\ job[j].snapshot \in Nat /\ job'[j].cursor \in Nat
           /\ Candidates(job[j]) = job[j].cursor + 1 .. job'[j].cursor
           /\ job[j].cursor <= job'[j].cursor /\ job'[j].cursor <= job[j].snapshot
<1>1. /\ j \in Queued
      /\ job' = [job EXCEPT ![j] = job'[j]]
      /\ job'[j] \in JobRows
      /\ job'[j].snapshot = job[j].snapshot
      /\ job'[j].cursor = NextCursor(job[j])
  BY BatchEffect DEF JobsTyped, Safe
<1>2. job[j] \in JobRows /\ job[j].cursor <= job[j].snapshot
  BY <1>1, RowTyped DEF JobsTyped, Safe, CompleteIsComplete
<1>3. /\ Candidates(job[j]) = job[j].cursor + 1 .. NextCursor(job[j])
      /\ job[j].cursor <= NextCursor(job[j]) /\ NextCursor(job[j]) <= job[j].snapshot
  BY <1>2, BatchIsInterval
<1>4. Queued' = Queued /\ \A k \in Queued \ {j} : job'[k] = job[k]
  BY <1>1, OneJobTyped DEF Queued
<1> QED
  BY <1>1, <1>2, <1>3, <1>4 DEF JobRows

(* The cursors and snapshots of the queued jobs stand. *)
Standing == \A k \in Queued : /\ job'[k].cursor = job[k].cursor
                              /\ job'[k].snapshot = job[k].snapshot

(* No step but a batch touches the cursor or the snapshot of a queued job. *)
LEMMA CursorsStand ==
    ASSUME JobsTyped, Safe, [Next]_vars,
           \A w \in Workers : ~ProcessRecurrenceBatch(w)
    PROVE  Standing
<1>1. ASSUME NEW j \in Jobs, job' = [job EXCEPT ![j] = job'[j]], job'[j] \in JobRows,
             j \in Queued =>
               job'[j].cursor = job[j].cursor /\ job'[j].snapshot = job[j].snapshot
      PROVE  Standing
  BY <1>1, OneJobTyped DEF Queued, Standing
<1>2. ASSUME NEW j \in Jobs, Enqueue(j) PROVE Standing
  BY <1>1, <1>2, EnqueueEffect
<1>3. ASSUME NEW j \in Jobs, LeaseExpires(j) \/ RetryDue(j) PROVE Standing
  <2>1. /\ job' = [job EXCEPT ![j] = job'[j]]
        /\ job'[j] \in JobRows
        /\ \A f \in {"snapshot", "cursor", "state", "generation", "attempts"} :
             job'[j][f] = job[j][f]
    BY <1>3, TimeEffect DEF JobsTyped
  <2> QED
    BY <1>1, <2>1
<1>4. ASSUME NEW w \in Workers, NEW j \in Jobs, ClaimRecurrenceJob(w, j) PROVE Standing
  BY <1>1, <1>4, ClaimEffect DEF JobsTyped, Safe
<1>5. ASSUME NEW w \in Workers, FailRecurrenceJob(w) PROVE Standing
  <2>1. /\ worker[w].job \in Queued
        /\ job' = [job EXCEPT ![worker[w].job] = job'[worker[w].job]]
        /\ job'[worker[w].job] \in JobRows
        /\ job'[worker[w].job].cursor = job[worker[w].job].cursor
        /\ job'[worker[w].job].snapshot = job[worker[w].job].snapshot
    BY <1>5, FailEffect DEF JobsTyped, Safe
  <2>2. worker[w].job \in Jobs
    BY <2>1 DEF Queued
  <2> QED
    BY <1>1, <2>1, <2>2
<1>6. ASSUME job' = job PROVE Standing
  BY <1>6 DEF Standing
<1>7. CASE \/ RecordFixAnnotation
           \/ \E a \in 1 .. MaxAnnotations : RetractFixAnnotation(a)
           \/ \E w \in Workers : BatchError(w) \/ GiveUp(w) \/ Stop(w)
           \/ UNCHANGED vars
  BY <1>6, <1>7 DEF RecordFixAnnotation, RetractFixAnnotation, BatchError, GiveUp, Stop, vars
<1> QED
  BY <1>2, <1>3, <1>4, <1>5, <1>7 DEF Next

(* What was observed or retracted stays so. *)
LEMMA RecordsGrow ==
    ASSUME [Next]_vars
    PROVE  observations \subseteq observations' /\ retracted \subseteq retracted'
  BY DEF Next, vars, RecordFixAnnotation, RetractFixAnnotation, Enqueue, LeaseExpires,
         RetryDue, ClaimRecurrenceJob, ProcessRecurrenceBatch, BatchError,
         FailRecurrenceJob, GiveUp, Stop

(* No step moves a cursor past a match that is neither observed nor retracted. *)
LEMMA NothingSkippedStep ==
    ASSUME JobsTyped, Safe, [Next]_vars
    PROVE  NoCandidateSkipped'
<1> SUFFICES ASSUME NEW j \in Queued', NEW a \in 1 .. job'[j].cursor, <<j, a>> \in Matches
             PROVE  <<a, Occurrence[j]>> \in observations' \/ a \in retracted'
  BY DEF NoCandidateSkipped
<1>1. CASE j \notin Queued
  <2>1. Fresh(j)
    BY <1>1, JobStep
  <2>2. job'[j].cursor = 0
    BY <2>1 DEF Fresh
  <2>3. a \in 1 .. 0
    BY <2>2
  <2> QED
    BY <2>3
<1>2. CASE j \in Queued /\ a \in 1 .. job[j].cursor
  BY <1>2, RecordsGrow DEF Safe, NoCandidateSkipped
<1>3. CASE j \in Queued /\ \A w \in Workers : ~ProcessRecurrenceBatch(w)
  BY <1>2, <1>3, CursorsStand DEF Standing
<1>4. ASSUME NEW w \in Workers, ProcessRecurrenceBatch(w), j \in Queued,
             a \notin 1 .. job[j].cursor
      PROVE  <<a, Occurrence[j]>> \in observations' \/ a \in retracted'
  <2>1. worker[w].job = j
    BY <1>4, BatchMovesCursor
  <2>2. a \in Candidates(job[j])
    BY <1>4, <2>1, BatchMovesCursor
  <2>3. a \in Observed(j) \/ a \in retracted
    BY <2>2 DEF Observed
  <2>4. observations' = observations \cup (Observed(j) \X {Occurrence[j]})
    BY <1>4, <2>1 DEF ProcessRecurrenceBatch
  <2> QED
    BY <2>3, <2>4, RecordsGrow
<1> QED
  BY <1>1, <1>2, <1>3, <1>4

(* The annotations of a snapshot stay recorded. *)
LEMMA SnapshotsStep ==
    ASSUME JobsTyped, Safe, [Next]_vars
    PROVE  SnapshotsExist'
<1>1. annotations \in Nat /\ annotations' \in Nat /\ annotations <= annotations'
  <2>1. annotations' = annotations \/ annotations' = annotations + 1
    BY DEF Next, vars, RecordFixAnnotation, RetractFixAnnotation, Enqueue, LeaseExpires,
           RetryDue, ClaimRecurrenceJob, ProcessRecurrenceBatch, BatchError,
           FailRecurrenceJob, GiveUp, Stop
  <2> QED
    BY <2>1 DEF JobsTyped, TypeOK
<1>2. \A j \in Queued : job[j].snapshot \in Nat
  BY RowTyped DEF JobsTyped, JobRows
<1> SUFFICES ASSUME NEW j \in Queued' PROVE job'[j].snapshot <= annotations'
  BY DEF SnapshotsExist
<1>3. CASE j \in Queued
  <2>1. Advanced(j)
    BY <1>3, JobStep
  <2>2. job'[j].snapshot = job[j].snapshot
    BY <2>1 DEF Advanced
  <2>3. job[j].snapshot <= annotations
    BY <1>3 DEF Safe, SnapshotsExist
  <2> QED
    BY <1>1, <1>2, <1>3, <2>2, <2>3
<1>4. CASE j \notin Queued
  <2>1. Fresh(j)
    BY <1>4, JobStep
  <2> QED
    BY <1>1, <2>1 DEF Fresh
<1> QED
  BY <1>3, <1>4

(* The invariant is inductive. *)
LEMMA SafeStep ==
    ASSUME JobsTyped, Safe, [Next]_vars
    PROVE  Safe'
<1>1. AttemptsAreClaims'
  BY JobStep DEF AttemptsAreClaims, Advanced, Fresh
<1>2. OnlyFailedWait'
  BY JobStep DEF OnlyFailedWait, Advanced, Fresh
<1>3. CompleteIsComplete'
  <2>1. annotations \in Nat
    BY DEF JobsTyped, TypeOK
  <2> SUFFICES ASSUME NEW j \in Queued'
               PROVE  /\ job'[j].cursor <= job'[j].snapshot
                      /\ job'[j].state = "complete" => job'[j].cursor = job'[j].snapshot
    BY DEF CompleteIsComplete
  <2>2. CASE j \in Queued
    <3>1. Advanced(j)
      BY <2>2, JobStep
    <3> QED
      BY <3>1 DEF Advanced
  <2>3. CASE j \notin Queued
    <3>1. Fresh(j)
      BY <2>3, JobStep
    <3> QED
      BY <2>1, <3>1 DEF Fresh
  <2> QED
    BY <2>2, <2>3
<1> QED
  BY <1>1, <1>2, <1>3, ClaimsStep, SnapshotsStep, NothingSkippedStep DEF Safe

(* It holds before anything is published. *)
LEMMA InitSafe == Init => JobsTyped /\ Safe
<1> SUFFICES ASSUME Init PROVE JobsTyped /\ Safe
  OBVIOUS
<1>1. Queued = {}
  BY DEF Init, Queued
<1>2. TypeOK
  BY EnvironmentAssumption DEF Init, TypeOK
<1>3. JobsTyped
  BY <1>1, <1>2, FS_EmptySet DEF JobsTyped
<1>4. Safe
  BY <1>1 DEF Init, Safe, AttemptsAreClaims, OnlyFailedWait, ClaimsWereMade, ClaimsDiffer,
              SnapshotsExist, CompleteIsComplete, NoCandidateSkipped
<1> QED
  BY <1>3, <1>4

-----------------------------------------------------------------------------
(* The theorems. *)

(* The inductive invariant holds in every reachable state. *)
THEOREM JobsInvariant == Spec => [](JobsTyped /\ Safe)
<1>1. JobsTyped /\ Safe /\ [Next]_vars => (JobsTyped /\ Safe)'
  BY TypedStep, SafeStep
<1> QED
  BY InitSafe, <1>1, PTL DEF Spec

(* Jobs, claims, observations and the ledger of job events keep their types. *)
THEOREM TypeCorrect == Spec => []TypeOK
<1>1. JobsTyped /\ Safe => TypeOK
  BY DEF JobsTyped
<1> QED
  BY JobsInvariant, <1>1, PTL

(* A cursor never passes a match that is neither observed nor retracted,       *)
(* whatever batches fail and leases expire (ProcessRecurrenceBatch).           *)
THEOREM NothingSkipped == Spec => []NoCandidateSkipped
<1>1. JobsTyped /\ Safe => NoCandidateSkipped
  BY DEF Safe
<1> QED
  BY JobsInvariant, <1>1, PTL

(* A complete job has reached its snapshot, for every batch size.              *)
THEOREM CompletionReachesSnapshot == Spec => []CompleteIsComplete
<1>1. JobsTyped /\ Safe => CompleteIsComplete
  BY DEF Safe
<1> QED
  BY JobsInvariant, <1>1, PTL

(* Of any number of workers that claimed a job at most one can write.          *)
THEOREM HoldersAreUnique == Spec => []OneHolder
<1>1. JobsTyped /\ Safe => OneHolder
  BY DEF Safe, ClaimsDiffer, OneHolder, Fenced
<1> QED
  BY JobsInvariant, <1>1, PTL

(* A retracted annotation receives no observation any more.                    *)
THEOREM RetractionEndsObservation == Spec => RetractionIsFinal
<1>1. [Next]_vars => [\A p \in observations' \ observations : p[1] \notin retracted]_vars
  <2> SUFFICES ASSUME Next, NEW p \in observations' \ observations
               PROVE  p[1] \notin retracted
    OBVIOUS
  <2>1. PICK w \in Workers : ProcessRecurrenceBatch(w)
    BY DEF Next, RecordFixAnnotation, RetractFixAnnotation, Enqueue, LeaseExpires, RetryDue,
           ClaimRecurrenceJob, BatchError, FailRecurrenceJob, GiveUp, Stop
  <2>2. p \in Observed(worker[w].job) \X {Occurrence[worker[w].job]}
    BY <2>1 DEF ProcessRecurrenceBatch
  <2> QED
    BY <2>2 DEF Observed
<1> QED
  BY <1>1, PTL DEF Spec, RetractionIsFinal

(* A claim never undoes what an earlier one has done: cursors only grow and    *)
(* complete jobs never change.                                                 *)
THEOREM ProgressIsKept == Spec => ProgressKept
<1>1. JobsTyped /\ Safe /\ [Next]_vars =>
        [\A j \in Queued :
           /\ job'[j] # NoJob /\ job'[j].cursor >= job[j].cursor
           /\ job[j].state = "complete" => job'[j] = job[j]]_vars
  <2> SUFFICES ASSUME JobsTyped, Safe, [Next]_vars, NEW j \in Queued
               PROVE  /\ job'[j] # NoJob /\ job'[j].cursor >= job[j].cursor
                      /\ job[j].state = "complete" => job'[j] = job[j]
    OBVIOUS
  <2>1. j \in Queued' /\ Advanced(j)
    BY JobStep
  <2>2. job[j] \in JobRows /\ job'[j] \in JobRows
    BY <2>1, JobStep, RowTyped, DistinctAssumption DEF JobsTyped, Queued
  <2> QED
    BY <2>1, <2>2 DEF Advanced, Queued, JobRows
<1> QED
  BY JobsInvariant, <1>1, PTL DEF Spec, ProgressKept

-----------------------------------------------------------------------------
(* The ledger of job events. *)

(* What the events of a job say of its row: it is complete at the attempt of   *)
(* its one completion and has failed at the attempt of its last failure, and   *)
(* earlier failures are of earlier attempts.                                   *)
Tells(j, row, ledger) ==
    /\ \A n \in Nat : <<j, "complete", n>> \in ledger <=> row.state = "complete" /\ n = row.attempts
    /\ \A n \in Nat : <<j, "failed", n>> \in ledger => n <= row.attempts
    /\ <<j, "failed", row.attempts>> \in ledger <=> row.state = "failed"

LedgerTells ==
    /\ \A j \in Queued : Tells(j, job[j], events)
    /\ \A j \in Jobs \ Queued : \A p \in events : p[1] # j

(* A step that writes one row and its events leaves the others' alone.         *)
LEMMA OthersTell ==
    ASSUME JobsTyped, LedgerTells, NEW j \in Jobs,
           job' = [job EXCEPT ![j] = job'[j]], job'[j] \in JobRows,
           \A p \in events' : p \in events \/ p[1] = j, events \subseteq events',
           Tells(j, job'[j], events')
    PROVE  LedgerTells'
<1>1. Queued' = Queued \cup {j} /\ \A k \in Jobs \ {j} : job'[k] = job[k]
  BY OneJobTyped
<1>2. ASSUME NEW k \in Queued' PROVE Tells(k, job'[k], events')
  <2>1. CASE k = j
    BY <2>1
  <2>2. CASE k # j
    <3>1. k \in Queued /\ job'[k] = job[k] /\ Tells(k, job[k], events)
      BY <1>1, <2>2 DEF LedgerTells, Queued
    <3>2. \A kind, n : <<k, kind, n>> \in events' <=> <<k, kind, n>> \in events
      BY <2>2
    <3> QED
      BY <3>1, <3>2 DEF Tells
  <2> QED
    BY <2>1, <2>2
<1>3. \A k \in Jobs \ Queued' : \A p \in events' : p[1] # k
  BY <1>1 DEF LedgerTells
<1> QED
  BY <1>2, <1>3 DEF LedgerTells

(* A row whose state and attempts stay needs no event.                         *)
LEMMA SameTells ==
    ASSUME LedgerTells, NEW j \in Queued, events' = events,
           job'[j].state = job[j].state, job'[j].attempts = job[j].attempts
    PROVE  Tells(j, job'[j], events')
BY DEF LedgerTells, Tells

LEMMA LedgerStep ==
    ASSUME JobsTyped, Safe, LedgerTells, [Next]_vars
    PROVE  LedgerTells'
<1>1. ASSUME job' = job, events' = events PROVE LedgerTells'
  BY <1>1 DEF LedgerTells, Queued
<1>2. ASSUME NEW w \in Workers, NEW j \in Jobs, ClaimRecurrenceJob(w, j) PROVE LedgerTells'
  <2>1. /\ j \in Queued /\ job[j].state # "complete"
        /\ job' = [job EXCEPT ![j] = job'[j]] /\ job'[j] \in JobRows
        /\ job'[j].state = "claimed" /\ job'[j].attempts = job[j].attempts + 1
    BY <1>2, ClaimEffect DEF JobsTyped, Safe
  <2>2. events' = events
    BY <1>2 DEF ClaimRecurrenceJob
  <2>3. job[j].attempts \in Nat /\ Tells(j, job[j], events)
    BY <2>1, RowTyped DEF JobsTyped, JobRows, LedgerTells
  <2>4. Tells(j, job'[j], events')
    BY <2>1, <2>2, <2>3 DEF Tells
  <2> QED
    BY <2>1, <2>2, <2>4, OthersTell
<1>3. ASSUME NEW w \in Workers, ProcessRecurrenceBatch(w) PROVE LedgerTells'
  <2>0. PICK j : j = worker[w].job
    OBVIOUS
  <2>1. /\ j \in Queued /\ job[j].state = "claimed"
        /\ job' = [job EXCEPT ![j] = job'[j]] /\ job'[j] \in JobRows
        /\ job'[j].attempts = job[j].attempts
        /\ job'[j].state = IF Completed(job[j]) THEN "complete" ELSE "claimed"
    BY <1>3, <2>0, BatchEffect DEF JobsTyped, Safe
  <2>2. events' = IF Completed(job[j]) THEN events \cup {<<j, "complete", job[j].attempts>>}
                                       ELSE events
    BY <1>3, <2>0 DEF ProcessRecurrenceBatch
  <2>3. job[j].attempts \in Nat /\ j \in Jobs /\ Tells(j, job[j], events)
    BY <2>1, RowTyped DEF JobsTyped, JobRows, LedgerTells
  <2>4. Tells(j, job'[j], events')
    BY <2>1, <2>2, <2>3 DEF Tells
  <2> QED
    BY <2>1, <2>2, <2>3, <2>4, OthersTell
<1>4. ASSUME NEW w \in Workers, FailRecurrenceJob(w) PROVE LedgerTells'
  <2>0. PICK j : j = worker[w].job
    OBVIOUS
  <2>1. /\ j \in Queued /\ job[j].state = "claimed"
        /\ job' = [job EXCEPT ![j] = job'[j]] /\ job'[j] \in JobRows
        /\ job'[j].attempts = job[j].attempts /\ job'[j].state = "failed"
    BY <1>4, <2>0, FailEffect DEF JobsTyped, Safe
  <2>2. worker[w].attempt = job[j].attempts
    BY <1>4, <2>0 DEF FailRecurrenceJob, Fenced, Safe, ClaimsWereMade, AttemptsAreClaims
  <2>3. events' = events \cup {<<j, "failed", job[j].attempts>>}
    BY <1>4, <2>0, <2>2 DEF FailRecurrenceJob
  <2>4. job[j].attempts \in Nat /\ j \in Jobs /\ Tells(j, job[j], events)
    BY <2>1, RowTyped DEF JobsTyped, JobRows, LedgerTells
  <2>5. Tells(j, job'[j], events')
    BY <2>1, <2>3, <2>4 DEF Tells
  <2> QED
    BY <2>1, <2>3, <2>4, <2>5, OthersTell
<1>5. ASSUME NEW j \in Jobs, LeaseExpires(j) \/ RetryDue(j) PROVE LedgerTells'
  <2>1. /\ j \in Queued /\ job' = [job EXCEPT ![j] = job'[j]] /\ job'[j] \in JobRows
        /\ job'[j].state = job[j].state /\ job'[j].attempts = job[j].attempts
    <3>1. /\ j \in Queued /\ job' = [job EXCEPT ![j] = job'[j]] /\ job'[j] \in JobRows
          /\ \A f \in {"snapshot", "cursor", "state", "generation", "attempts"} :
                job'[j][f] = job[j][f]
      BY <1>5, TimeEffect DEF JobsTyped
    <3> QED
      BY <3>1
  <2>2. events' = events
    BY <1>5 DEF LeaseExpires, RetryDue
  <2>3. Tells(j, job'[j], events')
    BY <2>1, <2>2, SameTells
  <2> QED
    BY <2>1, <2>2, <2>3, OthersTell
<1>6. ASSUME NEW j \in Jobs, Enqueue(j) PROVE LedgerTells'
  <2>1. /\ j \notin Queued /\ job' = [job EXCEPT ![j] = job'[j]] /\ job'[j] \in JobRows
        /\ job'[j].attempts = 0
        /\ job'[j].state = IF annotations = 0 THEN "complete" ELSE "pending"
    BY <1>6, EnqueueEffect
  <2>2. events' = events \cup {<<j, "queued", 0>>}
                       \cup (IF annotations = 0 THEN {<<j, "complete", 0>>} ELSE {})
    BY <1>6 DEF Enqueue
  <2>3. \A kind, n : <<j, kind, n>> \notin events
    BY <2>1 DEF LedgerTells
  <2>4. Tells(j, job'[j], events')
    BY <2>1, <2>2, <2>3 DEF Tells
  <2> QED
    BY <2>1, <2>2, <2>4, OthersTell
<1>7. CASE UNCHANGED vars
  BY <1>1, <1>7 DEF vars
<1>8. CASE Next
  <2>1. CASE RecordFixAnnotation \/ \E a \in 1 .. MaxAnnotations : RetractFixAnnotation(a)
    BY <1>1, <2>1 DEF RecordFixAnnotation, RetractFixAnnotation
  <2>2. CASE \E w \in Workers : BatchError(w) \/ GiveUp(w) \/ Stop(w)
    BY <1>1, <2>2 DEF BatchError, GiveUp, Stop
  <2> QED
    BY <1>2, <1>3, <1>4, <1>5, <1>6, <1>8, <2>1, <2>2 DEF Next
<1> QED
  BY <1>7, <1>8

(* The events of a job and its row tell one story: one completion, exactly for  *)
(* complete jobs, a failure per failed attempt, and no attempt that did both.  *)
THEOREM LedgerAgreesWithJobs == Spec => []LedgerAgrees
<1>1. ASSUME Init PROVE LedgerTells
  BY <1>1 DEF Init, LedgerTells, Queued
<1>2. ASSUME JobsTyped, LedgerTells PROVE LedgerAgrees
  <2> SUFFICES ASSUME NEW j \in Queued
               PROVE  /\ Cardinality(Attempts(j, "complete")) =
                           IF job[j].state = "complete" THEN 1 ELSE 0
                      /\ Attempts(j, "complete") \cap Attempts(j, "failed") = {}
                      /\ job[j].state = "failed" => job[j].attempts \in Attempts(j, "failed")
                      /\ job[j].state = "claimed" => job[j].attempts \notin Attempts(j, "failed")
    BY DEF LedgerAgrees
  <2>1. job[j].attempts \in Nat /\ Tells(j, job[j], events)
    BY <1>2, RowTyped DEF JobsTyped, JobRows, LedgerTells
  <2>2. Attempts(j, "complete") = IF job[j].state = "complete" THEN {job[j].attempts} ELSE {}
    BY <2>1 DEF Attempts, Tells
  <2>3. job[j].attempts \in Attempts(j, "failed") <=> job[j].state = "failed"
    BY <2>1 DEF Attempts, Tells
  <2>4. Cardinality(Attempts(j, "complete")) = IF job[j].state = "complete" THEN 1 ELSE 0
    BY <2>2, FS_EmptySet, FS_Singleton
  <2> QED
    BY <2>2, <2>3, <2>4
<1>3. JobsTyped /\ Safe /\ LedgerTells /\ [Next]_vars => LedgerTells'
  BY LedgerStep
<1> QED
  BY <1>1, <1>2, <1>3, JobsInvariant, PTL DEF Spec

-----------------------------------------------------------------------------
(* The refinement of the ledger. *)

(* A step that moves no cursor and publishes nothing leaves the ledger as it is. *)
LEMMA OwedStands ==
    ASSUME Standing, Queued' = Queued
    PROVE  Owed' = Owed
<1>1. \A j \in Queued : /\ job'[j].cursor = job[j].cursor
                        /\ job'[j].snapshot = job[j].snapshot
  BY DEF Standing
<1>2. Owed' = UNION {{j} \X (job'[j].cursor + 1 .. job'[j].snapshot) : j \in Queued}
  BY DEF Owed
<1>3. {{j} \X (job'[j].cursor + 1 .. job'[j].snapshot) : j \in Queued}
      = {{j} \X (job[j].cursor + 1 .. job[j].snapshot) : j \in Queued}
  BY <1>1
<1> QED
  BY <1>2, <1>3 DEF Owed

(* Publishing a job owes an evaluation of each annotation of its snapshot. *)
LEMMA EnqueuePublishes ==
    ASSUME JobsTyped, Safe, [Next]_vars, NEW j \in Jobs, Enqueue(j)
    PROVE  Ledger!Publish(j)
<1>1. /\ j \notin Queued
      /\ job'[j] \in JobRows
      /\ job'[j].cursor = 0 /\ job'[j].snapshot = annotations
      /\ job' = [job EXCEPT ![j] = job'[j]]
  BY EnqueueEffect
<1>2. Queued' = Queued \cup {j} /\ \A k \in Jobs \ {j} : job'[k] = job[k]
  BY <1>1, OneJobTyped DEF JobsTyped
<1>3. \A k \in Queued : job'[k] = job[k]
  BY <1>1, <1>2 DEF Queued
<1>4. Owed' = Owed \cup ({j} \X (1 .. annotations))
  <2> DEFINE Left(k) == {k} \X (job[k].cursor + 1 .. job[k].snapshot)
  <2>1. Owed' = UNION {Left(k)' : k \in Queued'}
    BY DEF Owed
  <2>2. Left(j)' = {j} \X (1 .. annotations)
    BY <1>1
  <2>3. \A k \in Queued : Left(k)' = Left(k)
    BY <1>3
  <2>4. Owed = UNION {Left(k) : k \in Queued}
    BY DEF Owed
  <2> HIDE DEF Left
  <2> QED
    BY <1>2, <2>1, <2>2, <2>3, <2>4
<1>5. UNCHANGED <<annotations, retracted, observations>>
  BY DEF Enqueue
<1> QED
  BY <1>1, <1>2, <1>4, <1>5 DEF Ledger!Publish

(* A batch settles the evaluations of its candidates. *)
LEMMA BatchSettles ==
    ASSUME JobsTyped, Safe, NEW w \in Workers, ProcessRecurrenceBatch(w),
           NEW j, j = worker[w].job
    PROVE  {j} \X Candidates(job[j]) \in SUBSET Owed
           /\ Ledger!Settle({j} \X Candidates(job[j]))
<1> DEFINE Left(k) == {k} \X (job[k].cursor + 1 .. job[k].snapshot)
           batch == {j} \X Candidates(job[j])
<1>1. /\ j \in Queued /\ Queued' = Queued
      /\ \A k \in Queued \ {j} : job'[k] = job[k]
      /\ job'[j].snapshot = job[j].snapshot
      /\ job[j].cursor \in Nat /\ job[j].snapshot \in Nat /\ job'[j].cursor \in Nat
      /\ Candidates(job[j]) = job[j].cursor + 1 .. job'[j].cursor
      /\ job[j].cursor <= job'[j].cursor /\ job'[j].cursor <= job[j].snapshot
  BY BatchMovesCursor
<1>2. batch \subseteq Left(j)
  BY <1>1
<1>3. Left(j)' = Left(j) \ batch
  BY <1>1
<1>4. \A k \in Queued \ {j} : Left(k)' = Left(k) /\ Left(k) \cap batch = {}
  BY <1>1
<1>5. Owed = UNION {Left(k) : k \in Queued}
  BY DEF Owed
<1>6. Owed' = UNION {Left(k)' : k \in Queued'}
  BY DEF Owed
<1>7. batch \subseteq Owed /\ Owed' = Owed \ batch
  <2> HIDE DEF Left, batch
  <2>1. batch \subseteq Owed
    BY <1>1, <1>2, <1>5
  <2>2. Owed' \subseteq Owed \ batch
    BY <1>1, <1>3, <1>4, <1>5, <1>6
  <2>3. Owed \ batch \subseteq Owed'
    BY <1>1, <1>3, <1>4, <1>5, <1>6
  <2> QED
    BY <2>1, <2>2, <2>3
<1>8. observations' = observations \cup (Observed(j) \X {Occurrence[j]})
  BY DEF ProcessRecurrenceBatch
<1>9. Observed(j) \X {Occurrence[j]}
      = {<<p[2], Occurrence[p[1]]>> : p \in {q \in batch \cap Matches : q[2] \notin retracted}}
  <2>1. ASSUME NEW a \in Observed(j)
        PROVE  <<j, a>> \in {q \in batch \cap Matches : q[2] \notin retracted}
    BY DEF Observed
  <2>2. ASSUME NEW q \in batch, q \in Matches, q[2] \notin retracted
        PROVE  q[1] = j /\ q[2] \in Observed(j)
    <3>1. PICK a \in Candidates(job[j]) : q = <<j, a>>
      OBVIOUS
    <3> QED
      BY <2>2, <3>1 DEF Observed
  <2>3. ASSUME NEW p \in Observed(j) \X {Occurrence[j]}
        PROVE  p \in {<<q[2], Occurrence[q[1]]>> :
                        q \in {r \in batch \cap Matches : r[2] \notin retracted}}
    <3>1. PICK a \in Observed(j) : p = <<a, Occurrence[j]>>
      OBVIOUS
    <3>2. <<j, a>>[1] = j /\ <<j, a>>[2] = a
      OBVIOUS
    <3> HIDE DEF batch
    <3> QED
      BY <2>1, <3>1, <3>2
  <2>4. ASSUME NEW q \in batch \cap Matches, q[2] \notin retracted
        PROVE  <<q[2], Occurrence[q[1]]>> \in Observed(j) \X {Occurrence[j]}
    BY <2>2, <2>4
  <2> HIDE DEF batch
  <2> QED
    BY <2>3, <2>4
<1>10. UNCHANGED <<annotations, retracted>>
  BY DEF ProcessRecurrenceBatch
<1> QED
  BY <1>1, <1>7, <1>8, <1>9, <1>10 DEF Ledger!Settle

(* Every step is a step of the ledger, or leaves it as it is. *)
LEMMA RefinementStep ==
    ASSUME JobsTyped, Safe, [Next]_vars
    PROVE  [Ledger!Next]_(Ledger!vars)
<1>1. ASSUME \A w \in Workers : ~ProcessRecurrenceBatch(w), Queued' = Queued
      PROVE  Owed' = Owed
  BY <1>1, CursorsStand, OwedStands
<1>2. CASE RecordFixAnnotation
  <2>1. Queued' = Queued
    BY <1>2 DEF RecordFixAnnotation, Queued
  <2>2. annotations' # annotations
    BY <1>2 DEF RecordFixAnnotation, JobsTyped, TypeOK
  <2>3. \A w \in Workers : ~ProcessRecurrenceBatch(w)
    BY <2>2 DEF ProcessRecurrenceBatch
  <2> QED
    BY <1>1, <1>2, <2>1, <2>3 DEF RecordFixAnnotation, Ledger!Record, Ledger!Next
<1>3. ASSUME NEW a \in 1 .. MaxAnnotations, RetractFixAnnotation(a)
      PROVE  Ledger!Next
  <2>1. Queued' = Queued /\ \A w \in Workers : ~ProcessRecurrenceBatch(w)
    BY <1>3 DEF RetractFixAnnotation, ProcessRecurrenceBatch, Queued
  <2> QED
    BY <1>1, <1>3, <2>1 DEF RetractFixAnnotation, Ledger!Retract, Ledger!Next
<1>4. ASSUME NEW j \in Jobs, Enqueue(j) PROVE Ledger!Next
  BY <1>4, EnqueuePublishes DEF Ledger!Next
<1>5. ASSUME NEW w \in Workers, ProcessRecurrenceBatch(w) PROVE Ledger!Next
  BY <1>5, BatchSettles DEF Ledger!Next
<1>6. ASSUME \A w \in Workers : ~ProcessRecurrenceBatch(w), Queued' = Queued,
             UNCHANGED <<annotations, retracted, observations>>
      PROVE  UNCHANGED Ledger!vars
  BY <1>1, <1>6 DEF Ledger!vars
<1>7. CASE /\ \A w \in Workers : ~ProcessRecurrenceBatch(w)
           /\ \/ \E j \in Jobs : LeaseExpires(j) \/ RetryDue(j)
              \/ \E w \in Workers, j \in Jobs : ClaimRecurrenceJob(w, j)
              \/ \E w \in Workers : \/ BatchError(w) \/ FailRecurrenceJob(w)
                                    \/ GiveUp(w) \/ Stop(w)
              \/ UNCHANGED vars
  <2>1. UNCHANGED <<annotations, retracted, observations>>
    BY <1>7 DEF LeaseExpires, RetryDue, ClaimRecurrenceJob, BatchError, FailRecurrenceJob,
                GiveUp, Stop, vars
  <2>2. Queued \subseteq Queued'
    BY JobStep
  <2>3. Queued' \subseteq Queued
    <3>1. ASSUME NEW j \in Queued, job' = [job EXCEPT ![j] = job'[j]]
          PROVE  Queued' \subseteq Queued
      BY <3>1 DEF Queued, JobsTyped, TypeOK
    <3>2. ASSUME NEW j \in Jobs, LeaseExpires(j) \/ RetryDue(j)
          PROVE  Queued' \subseteq Queued
      <4>1. j \in Queued
        BY <3>2 DEF LeaseExpires, RetryDue
      <4>2. job' = [job EXCEPT ![j] = job'[j]]
        BY <3>2, TimeEffect DEF JobsTyped
      <4> QED
        BY <3>1, <4>1, <4>2
    <3>3. ASSUME NEW w \in Workers, NEW j \in Jobs, ClaimRecurrenceJob(w, j)
          PROVE  Queued' \subseteq Queued
      BY <3>1, <3>3, ClaimEffect DEF JobsTyped, Safe
    <3>4. ASSUME NEW w \in Workers, FailRecurrenceJob(w)
          PROVE  Queued' \subseteq Queued
      BY <3>1, <3>4, FailEffect DEF JobsTyped, Safe
    <3>5. CASE UNCHANGED job
      BY <3>5 DEF Queued
    <3> QED
      BY <1>7, <3>2, <3>3, <3>4, <3>5 DEF BatchError, GiveUp, Stop, vars
  <2> QED
    BY <1>6, <1>7, <2>1, <2>2, <2>3
<1> QED
  BY <1>2, <1>3, <1>4, <1>5, <1>7 DEF Next

(* Jobs, claims, leases and cursors implement the ledger of owed evaluations:  *)
(* each analysis is compared once with each annotation recorded before it.     *)
THEOREM Refinement == Spec => ImplementsLedger
<1>1. Init => Ledger!Init
  BY DEF Init, Ledger!Init, Queued, Owed
<1>2. JobsTyped /\ Safe /\ [Next]_vars => [Ledger!Next]_(Ledger!vars)
  BY RefinementStep
<1> QED
  BY JobsInvariant, <1>1, <1>2, PTL DEF Spec, ImplementsLedger, Ledger!Spec
=============================================================================
