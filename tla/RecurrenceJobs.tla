-------------------------- MODULE RecurrenceJobs --------------------------
(***************************************************************************)
(* The recurrence jobs (internal/storage/local/recurrence_jobs.go,         *)
(* internal/analysis/recurrence_worker.go): each published analysis is     *)
(* compared with the fix annotations recorded before it, in batches, by    *)
(* workers of several processes that claim a job under a lease.  A claim   *)
(* is fenced by its generation and a random token; the token is as fresh   *)
(* as the generation it is stored with, so the model keeps the generation. *)
(***************************************************************************)
EXTENDS Naturals, FiniteSets

CONSTANTS
    Jobs,           \* the analyses that may be published, a job for each
    Occurrence,     \* the occurrence an analysis reports; reanalyses repeat it
    Matches,        \* the <<j, a>> whose occurrence qualifies as a recurrence
    Workers,
    BatchSize,
    Idle, NoJob,
    MaxAnnotations, MaxFaults, MaxStops, MaxDelays  \* bounds on the environment

ASSUME JobsAssumption ==
    /\ Matches \subseteq Jobs \X Nat
    /\ BatchSize \in Nat \ {0}

ASSUME EnvironmentAssumption ==
    /\ MaxAnnotations \in Nat /\ MaxFaults \in Nat
    /\ MaxStops \in Nat /\ MaxDelays \in Nat

VARIABLES
    annotations,    \* MAX(sequence) of fix_annotations
    retracted,      \* annotations with a row in fix_annotation_retractions
    job,            \* fix_recurrence_jobs
    events,         \* fix_recurrence_job_events: <<job, kind, attempt>>
    observations,   \* fix_recurrence_observations: <<annotation, occurrence>>
    worker,         \* the claim a worker is working on
    budget

vars == <<annotations, retracted, job, events, observations, worker, budget>>

States == {"pending", "claimed", "failed", "complete"}
JobRows == [sequence : Nat, snapshot : Nat, state : States, cursor : Nat,
            generation : Nat, attempts : Nat, leased : BOOLEAN, cooling : BOOLEAN]
Claims == [job : Jobs, generation : Nat, attempt : Nat, step : {"batch", "fail"}]

ASSUME DistinctAssumption == NoJob \notin JobRows /\ Idle \notin Claims

EventKinds == {"queued", "failed", "complete"}

TypeOK ==
    /\ annotations \in Nat
    /\ retracted \subseteq 1 .. annotations
    /\ job \in [Jobs -> JobRows \cup {NoJob}]
    /\ events \subseteq Jobs \X EventKinds \X Nat
    /\ observations \subseteq Nat \X {Occurrence[j] : j \in Jobs}
    /\ worker \in [Workers -> Claims \cup {Idle}]
    /\ budget \in [{"fault", "stop", "delay"} -> Nat]

Init ==
    /\ annotations = 0 /\ retracted = {}
    /\ job = [j \in Jobs |-> NoJob]
    /\ events = {} /\ observations = {}
    /\ worker = [w \in Workers |-> Idle]
    /\ budget = [fault |-> MaxFaults, stop |-> MaxStops, delay |-> MaxDelays]

Spend(kind) ==
    /\ budget[kind] > 0
    /\ budget' = [budget EXCEPT ![kind] = @ - 1]

Queued == {j \in Jobs : job[j] # NoJob}

-----------------------------------------------------------------------------
(* The users of the queue. *)

RecordFixAnnotation ==
    /\ annotations < MaxAnnotations
    /\ annotations' = annotations + 1
    /\ UNCHANGED <<retracted, job, events, observations, worker, budget>>

\* Mutant: any annotation may be retracted, also one that does not exist.
RetractFixAnnotationUnknown(a) ==
    /\ a \notin retracted
    /\ retracted' = retracted \cup {a}
    /\ UNCHANGED <<annotations, job, events, observations, worker, budget>>

RetractFixAnnotation(a) ==
    /\ a \in 1 .. annotations
    /\ a \notin retracted
    /\ retracted' = retracted \cup {a}
    /\ UNCHANGED <<annotations, job, events, observations, worker, budget>>

\* Mutant: the snapshot stops short of the last annotation.
EnqueueBeforeLast(j) ==
    LET last == IF annotations = 0 THEN 0 ELSE annotations - 1
    IN  /\ job[j] = NoJob
        /\ job' = [job EXCEPT ![j] =
             [sequence |-> Cardinality(Queued), snapshot |-> last,
              state |-> IF last = 0 THEN "complete" ELSE "pending",
              cursor |-> 0, generation |-> 0, attempts |-> 0,
              leased |-> FALSE, cooling |-> FALSE]]
        /\ events' = events \cup {<<j, "queued", 0>>}
                       \cup (IF last = 0 THEN {<<j, "complete", 0>>} ELSE {})
        /\ UNCHANGED <<annotations, retracted, observations, worker, budget>>

(* enqueueRecurrenceJobTx, in the transaction that publishes the analysis. *)
Enqueue(j) ==
    LET empty == annotations = 0
    IN  /\ job[j] = NoJob
        /\ job' = [job EXCEPT ![j] =
             [sequence |-> Cardinality(Queued), snapshot |-> annotations,
              state |-> IF empty THEN "complete" ELSE "pending",
              cursor |-> 0, generation |-> 0, attempts |-> 0,
              leased |-> FALSE, cooling |-> FALSE]]
        /\ events' = events \cup {<<j, "queued", 0>>}
                       \cup (IF empty THEN {<<j, "complete", 0>>} ELSE {})
        /\ UNCHANGED <<annotations, retracted, observations, worker, budget>>

-----------------------------------------------------------------------------
(* The workers. *)

\* Mutant: an expired lease frees nothing.
ClaimableUnclaimed(j) ==
    j \in Queued /\ job[j].state \in {"pending", "failed"} /\ ~job[j].cooling

Claimable(j) ==
    /\ j \in Queued
    /\ \/ job[j].state \in {"pending", "failed"} /\ ~job[j].cooling
       \/ job[j].state = "claimed" /\ ~job[j].leased

\* Mutants: a claim starts over; a claim after an expired lease is no new attempt.
ClaimFromStart(w, j) ==
    /\ worker[w] = Idle
    /\ Claimable(j)
    /\ \A k \in Jobs : Claimable(k) => job[j].sequence <= job[k].sequence
    /\ job' = [job EXCEPT ![j].state = "claimed", ![j].leased = TRUE, ![j].cursor = 0,
                          ![j].generation = @ + 1, ![j].attempts = @ + 1]
    /\ worker' = [worker EXCEPT ![w] =
         [job |-> j, generation |-> job[j].generation + 1,
          attempt |-> job[j].attempts + 1, step |-> "batch"]]
    /\ UNCHANGED <<annotations, retracted, events, observations, budget>>

ClaimSameAttempt(w, j) ==
    /\ worker[w] = Idle
    /\ Claimable(j)
    /\ \A k \in Jobs : Claimable(k) => job[j].sequence <= job[k].sequence
    /\ job' = [job EXCEPT ![j].state = "claimed", ![j].leased = TRUE,
                          ![j].generation = @ + 1,
                          ![j].attempts = IF @ = 0 THEN 1 ELSE @]
    /\ worker' = [worker EXCEPT ![w] =
         [job |-> j, generation |-> job[j].generation + 1,
          attempt |-> job'[j].attempts, step |-> "batch"]]
    /\ UNCHANGED <<annotations, retracted, events, observations, budget>>

(* The due job, or the job whose lease is over, that was enqueued first. *)
ClaimRecurrenceJob(w, j) ==
    /\ worker[w] = Idle
    /\ Claimable(j)
    /\ \A k \in Jobs : Claimable(k) => job[j].sequence <= job[k].sequence
    /\ job' = [job EXCEPT ![j].state = "claimed", ![j].leased = TRUE,
                          ![j].generation = @ + 1, ![j].attempts = @ + 1]
    /\ worker' = [worker EXCEPT ![w] =
         [job |-> j, generation |-> job[j].generation + 1,
          attempt |-> job[j].attempts + 1, step |-> "batch"]]
    /\ UNCHANGED <<annotations, retracted, events, observations, budget>>

\* Mutant: whoever claimed the job may write.
FencedByState(w) == job[worker[w].job].state = "claimed"

(* The fence of every write of a worker. *)
Fenced(w) ==
    LET row == job[worker[w].job]
    IN  row.state = "claimed" /\ row.generation = worker[w].generation

(* readRecurrenceCandidatesTx: every annotation has its monitoring subject, and
   sequences have no gaps (both are inserted by one transaction). *)
Candidates(row) ==
    {a \in row.cursor + 1 .. row.snapshot : a <= row.cursor + BatchSize}

NextCursor(row) == row.cursor + Cardinality(Candidates(row))

\* Mutant: the retraction is not rechecked.
ObservedRetracted(j) == {a \in Candidates(job[j]) : <<j, a>> \in Matches}

(* The candidates of a batch that match, rechecked for a retraction one by one. *)
Observed(j) ==
    {a \in Candidates(job[j]) : <<j, a>> \in Matches /\ a \notin retracted}

\* Mutant: a full batch counts as the last one.
CompletedFull(row) == Cardinality(Candidates(row)) <= BatchSize

Completed(row) ==
    \/ Cardinality(Candidates(row)) < BatchSize
    \/ NextCursor(row) >= row.snapshot

ProcessRecurrenceBatch(w) ==
    LET j == worker[w].job
        complete == Completed(job[j])
    IN  /\ worker[w] # Idle /\ worker[w].step = "batch"
        /\ Fenced(w)
        /\ observations' = observations \cup (Observed(j) \X {Occurrence[j]})
        /\ job' = [job EXCEPT ![j].cursor = NextCursor(job[j]), ![j].leased = ~complete,
                              ![j].state = IF complete THEN "complete" ELSE "claimed"]
        /\ events' = IF complete THEN events \cup {<<j, "complete", job[j].attempts>>}
                                 ELSE events
        /\ worker' = IF complete THEN [worker EXCEPT ![w] = Idle] ELSE worker
        /\ UNCHANGED <<annotations, retracted, budget>>

\* Mutant: the cursor of the failed batch is saved.
BatchErrorSaved(w) ==
    /\ worker[w] # Idle /\ worker[w].step = "batch"
    /\ Fenced(w)
    /\ Spend("fault")
    /\ job' = [job EXCEPT ![worker[w].job].cursor = NextCursor(job[worker[w].job])]
    /\ worker' = [worker EXCEPT ![w].step = "fail"]
    /\ UNCHANGED <<annotations, retracted, events, observations>>

(* The transaction fails and is rolled back; the worker will report it. *)
BatchError(w) ==
    /\ worker[w] # Idle /\ worker[w].step = "batch"
    /\ Spend("fault")
    /\ worker' = [worker EXCEPT ![w].step = "fail"]
    /\ UNCHANGED <<annotations, retracted, job, events, observations>>

FailRecurrenceJob(w) ==
    LET j == worker[w].job
    IN  /\ worker[w] # Idle /\ worker[w].step = "fail"
        /\ Fenced(w)
        /\ job' = [job EXCEPT ![j].state = "failed", ![j].leased = FALSE,
                              ![j].cooling = TRUE]
        /\ events' = events \cup {<<j, "failed", worker[w].attempt>>}
        /\ worker' = [worker EXCEPT ![w] = Idle]
        /\ UNCHANGED <<annotations, retracted, observations, budget>>

(* ErrStaleRecurrenceJob, from either: nothing is written. *)
GiveUp(w) ==
    /\ worker[w] # Idle
    /\ ~Fenced(w)
    /\ worker' = [worker EXCEPT ![w] = Idle]
    /\ UNCHANGED <<annotations, retracted, job, events, observations, budget>>

(* The process ends, or the context of the worker: the claim stays. *)
Stop(w) ==
    /\ worker[w] # Idle
    /\ Spend("stop")
    /\ worker' = [worker EXCEPT ![w] = Idle]
    /\ UNCHANGED <<annotations, retracted, job, events, observations>>

(* lease_expires_at passes: the holder is gone, or is slower than its lease. *)
LeaseExpires(j) ==
    /\ j \in Queued /\ job[j].state = "claimed" /\ job[j].leased
    /\ IF \E w \in Workers : worker[w] # Idle /\ worker[w].job = j /\ Fenced(w)
       THEN Spend("delay") ELSE UNCHANGED budget
    /\ job' = [job EXCEPT ![j].leased = FALSE]
    /\ UNCHANGED <<annotations, retracted, events, observations, worker>>

RetryDue(j) ==
    /\ j \in Queued /\ job[j].cooling
    /\ job' = [job EXCEPT ![j].cooling = FALSE]
    /\ UNCHANGED <<annotations, retracted, events, observations, worker, budget>>

-----------------------------------------------------------------------------
Next ==
    \/ RecordFixAnnotation
    \/ \E a \in 1 .. MaxAnnotations : RetractFixAnnotation(a)
    \/ \E j \in Jobs : Enqueue(j) \/ LeaseExpires(j) \/ RetryDue(j)
    \/ \E w \in Workers, j \in Jobs : ClaimRecurrenceJob(w, j)
    \/ \E w \in Workers :
        \/ ProcessRecurrenceBatch(w) \/ BatchError(w)
        \/ FailRecurrenceJob(w) \/ GiveUp(w) \/ Stop(w)

Spec == Init /\ [][Next]_vars

(* The recovery loops call Recover every two seconds and drain until no job is
   due; times pass.  No annotation, publication, fault or stop is owed. *)
Fairness ==
    /\ \A w \in Workers :
        /\ WF_vars(\E j \in Jobs : ClaimRecurrenceJob(w, j))
        /\ WF_vars(ProcessRecurrenceBatch(w) \/ FailRecurrenceJob(w) \/ GiveUp(w))
    /\ \A j \in Jobs : WF_vars(LeaseExpires(j)) /\ WF_vars(RetryDue(j))

FairSpec == Spec /\ Fairness

-----------------------------------------------------------------------------
(* Properties. *)

(* The cursor of a job never passes an annotation whose recurrence was not    *)
(* observed, unless that annotation had been retracted: not when a batch      *)
(* fails half way, a lease changes hands or a worker comes back late.         *)
NoCandidateSkipped ==
    \A j \in Queued : \A a \in 1 .. job[j].cursor :
        <<j, a>> \in Matches => <<a, Occurrence[j]>> \in observations \/ a \in retracted

(* A job is complete only when it has reached the last annotation that        *)
(* existed when its analysis was published.                                   *)
CompleteIsComplete ==
    \A j \in Queued :
        /\ job[j].cursor <= job[j].snapshot
        /\ job[j].state = "complete" => job[j].cursor = job[j].snapshot

(* Of all workers that believe they hold a job at most one can still write.   *)
OneHolder ==
    \A v, w \in Workers :
        worker[v] # Idle /\ worker[w] # Idle /\ worker[v].job = worker[w].job
            /\ Fenced(v) /\ Fenced(w) => v = w

(* The ledger of job events tells the same story as the job: a completion is  *)
(* recorded once and exactly for complete jobs, a failure once per attempt,   *)
(* and no attempt both fails and completes.                                   *)
Attempts(j, kind) == {n \in 0 .. job[j].attempts : <<j, kind, n>> \in events}

LedgerAgrees ==
    \A j \in Queued :
        /\ Cardinality(Attempts(j, "complete")) = IF job[j].state = "complete" THEN 1 ELSE 0
        /\ Attempts(j, "complete") \cap Attempts(j, "failed") = {}
        /\ job[j].state = "failed" => job[j].attempts \in Attempts(j, "failed")
        /\ job[j].state = "claimed" => job[j].attempts \notin Attempts(j, "failed")

(* A retracted attempt keeps its history and receives nothing new, also from  *)
(* a batch that was being computed when the user retracted it.                *)
RetractionIsFinal ==
    [][\A p \in observations' \ observations : p[1] \notin retracted]_vars

(* What a job has done is never undone, whoever claims it next.               *)
ProgressKept ==
    [][\A j \in Queued :
         /\ job'[j] # NoJob /\ job'[j].cursor >= job[j].cursor
         /\ job[j].state = "complete" => job'[j] = job[j]]_vars

(* Every published analysis is evaluated in the end.                          *)
EveryJobCompletes ==
    \A j \in Jobs : j \in Queued ~> (j \in Queued /\ job[j].state = "complete")

(* Jobs, claims and cursors implement the ledger of owed evaluations.         *)
Owed == UNION {{j} \X (job[j].cursor + 1 .. job[j].snapshot) : j \in Queued}

Ledger == INSTANCE RecurrenceLedger WITH published <- Queued, owed <- Owed

ImplementsLedger == Ledger!Spec
=============================================================================
