-------------------------- MODULE IntelligenceLease --------------------------
(***************************************************************************)
(* The lease under which one process at a time runs the background workers *)
(* (internal/localapp/intelligence_runtime.go, intelligence_lease_unix.go, *)
(* cmd/belay/local.go).  Every "belay local" runs the loop of              *)
(* runIntelligenceRuntime; the lease is an flock the kernel gives up with  *)
(* the process, and an inspection takes it for a moment.                   *)
(***************************************************************************)
EXTENDS Naturals, FiniteSets

CONSTANTS
    Processes,
    Free, Inspector,    \* no one, or an inspection, has the lease
    Workers,            \* the polls of transcripts and of issues
    MaxTroubles         \* bound: owners that fail to start, inspections, deaths

LeaseAssumption ==
    /\ Free \notin Processes /\ Inspector \notin Processes /\ Free # Inspector
    /\ MaxTroubles \in Nat

VARIABLES
    lease,      \* who has the flock
    runtime,    \* where the loop of a process is
    running,    \* the workers of a process that run
    stopped,    \* processes whose context has ended
    troubles

leaseVars == <<lease, runtime, running, stopped, troubles>>

Phases == {"try", "own", "run", "release", "gone"}

LeaseTypeOK ==
    /\ lease \in Processes \cup {Free, Inspector}
    /\ runtime \in [Processes -> Phases]
    /\ running \in [Processes -> SUBSET Workers]
    /\ stopped \subseteq Processes
    /\ troubles \in Nat

LeaseInit ==
    /\ lease = Free
    /\ runtime = [p \in Processes |-> "try"]
    /\ running = [p \in Processes |-> {}]
    /\ stopped = {}
    /\ troubles = MaxTroubles

(* tryAcquireIntelligenceLease; contended or failed, it waits and tries again. *)
TryAcquire(p) ==
    /\ runtime[p] = "try" /\ p \notin stopped /\ lease = Free
    /\ lease' = p
    /\ runtime' = [runtime EXCEPT ![p] = "own"]
    /\ UNCHANGED <<running, stopped, troubles>>

(* RunOwner opens a store of its own and starts the workers ... *)
StartWorkers(p) ==
    /\ runtime[p] = "own"
    /\ running' = [running EXCEPT ![p] = Workers]
    /\ runtime' = [runtime EXCEPT ![p] = "run"]
    /\ UNCHANGED <<lease, stopped, troubles>>

(* ... or cannot open the store. *)
StartFails(p) ==
    /\ runtime[p] = "own" /\ troubles > 0
    /\ runtime' = [runtime EXCEPT ![p] = "release"]
    /\ troubles' = troubles - 1
    /\ UNCHANGED <<lease, running, stopped>>

(* A worker sees the end of its context when its round is over. *)
WorkerEnds(p, w) ==
    /\ runtime[p] = "run" /\ p \in stopped /\ w \in running[p]
    /\ running' = [running EXCEPT ![p] = @ \ {w}]
    /\ UNCHANGED <<lease, runtime, stopped, troubles>>

\* Mutant: the end of the context is enough to return.
OwnerDoneEarly(p) == runtime[p] = "run" /\ p \in stopped

(* runIntelligenceWorkers waits for the context and then for each worker. *)
OwnerDone(p) == runtime[p] = "run" /\ p \in stopped /\ running[p] = {}

OwnerReturns(p) ==
    /\ OwnerDone(p)
    /\ runtime' = [runtime EXCEPT ![p] = "release"]
    /\ UNCHANGED <<lease, running, stopped, troubles>>

\* Mutant: a process that failed to start keeps the lease it has.
ReleasedIfDone(p) == IF p \in stopped THEN Free ELSE lease

Released(p) == Free

Release(p) ==
    /\ runtime[p] = "release"
    /\ lease' = Released(p)
    /\ runtime' = [runtime EXCEPT ![p] = IF p \in stopped THEN "gone" ELSE "try"]
    /\ UNCHANGED <<running, stopped, troubles>>

(* The command is interrupted. *)
Interrupt(p) ==
    /\ p \notin stopped
    /\ stopped' = stopped \cup {p}
    /\ runtime' = [runtime EXCEPT ![p] = IF @ = "try" THEN "gone" ELSE @]
    /\ UNCHANGED <<lease, running, troubles>>

(* The process dies with its workers, and the kernel closes its files. *)
Dies(p) ==
    /\ runtime[p] # "gone" /\ troubles > 0
    /\ runtime' = [runtime EXCEPT ![p] = "gone"]
    /\ running' = [running EXCEPT ![p] = {}]
    /\ stopped' = stopped \cup {p}
    /\ lease' = IF lease = p THEN Free ELSE lease
    /\ troubles' = troubles - 1

(* InspectIntelligenceReadiness: acquires the lease to see that it can. *)
Inspect ==
    /\ lease = Free /\ troubles > 0
    /\ lease' = Inspector
    /\ troubles' = troubles - 1
    /\ UNCHANGED <<runtime, running, stopped>>

InspectReleases ==
    /\ lease = Inspector
    /\ lease' = Free
    /\ UNCHANGED <<runtime, running, stopped, troubles>>

LeaseStep(p) ==
    \/ TryAcquire(p) \/ StartWorkers(p) \/ OwnerReturns(p) \/ Release(p)
    \/ \E w \in Workers : WorkerEnds(p, w)

LeaseNext ==
    \/ Inspect \/ InspectReleases
    \/ \E p \in Processes :
        \/ TryAcquire(p) \/ StartWorkers(p) \/ StartFails(p)
        \/ OwnerReturns(p) \/ Release(p) \/ Interrupt(p) \/ Dies(p)
        \/ \E w \in Workers : WorkerEnds(p, w)

(* The loop retries every two seconds, an inspection does not wait. *)
LeaseFairness ==
    /\ \A p \in Processes : WF_leaseVars(LeaseStep(p))
    /\ WF_leaseVars(InspectReleases)

LeaseSpec == LeaseInit /\ [][LeaseNext]_leaseVars /\ LeaseFairness

-----------------------------------------------------------------------------
(* No two processes run background workers at the same time, not even while   *)
(* one of them is being stopped.                                              *)
WorkersUnderLease ==
    \A p, q \in Processes : p # q => running[p] = {} \/ running[q] = {}

(* As long as a process is there that wants the work done, some process does  *)
(* it: after deaths, failed starts and inspections.                           *)
WorkResumes ==
    \A p \in Processes :
        p \notin stopped ~> p \in stopped \/ \E q \in Processes : running[q] # {}
=============================================================================
