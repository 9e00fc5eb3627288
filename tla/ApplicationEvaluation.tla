------------------------ MODULE ApplicationEvaluation ------------------------
(***************************************************************************)
(* What became of the guidance delivered to a session: a round of the poll  *)
(* derives the trajectories of the sessions whose transcript changed, then  *)
(* evaluates the applications that are older than their session.  "Older"   *)
(* compares times that were read before the transactions that store them,   *)
(* while scans import turns at the same time.  A session has one            *)
(* application here.  Two readings of the clock differ; a reading that was  *)
(* stored nowhere is forgotten, so that idle rounds do not move the clock.  *)
(***************************************************************************)
EXTENDS Naturals, FiniteSets, Sequences, SequencesExt, FiniteSetsExt

CONSTANTS Sessions, SessionOrder,   \* the order of delivery
          Importers,                \* scans, beside the poll
          Limit,                    \* applications per round, 64 in cmd/belay/local.go
          Unevaluable,              \* sessions whose evaluation always fails
          Relevant,                 \* the turns that change an evaluation
          Never,
          MaxImports, MaxTroubles   \* bounds of the turns and of the failures

EvaluationAssumption ==
    /\ Limit \in Nat \ {0} /\ MaxImports \in Nat /\ MaxTroubles \in Nat
    /\ SessionOrder \in [Sessions -> Nat] /\ Unevaluable \subseteq Sessions

VARIABLES instant,     \* the last reading of the clock that is in use
          stored,      \* transcript_sessions and transcript_turns
          importing,   \* the session and the time of an import under way
          trajectory,  \* trajectory_derivation_state
          evaluation,  \* the evaluation of the application of a session
          round,       \* the poll
          mishaps

evaluationVars == <<instant, stored, importing, trajectory, evaluation, round, mishaps>>

AtRest == [phase |-> "idle", queue |-> <<>>, at |-> 0, turns |-> 0]

EvaluationInit ==
    /\ instant = 0
    /\ stored = [s \in Sessions |-> [turns |-> 1, updated |-> 0]]
    /\ importing = [i \in Importers |-> Never]
    /\ trajectory = [s \in Sessions |-> Never]
    /\ evaluation = [s \in Sessions |-> Never]
    /\ round = AtRest /\ mishaps = 0

-----------------------------------------------------------------------------
Stamps(f, of(_)) == {of(f[x]) : x \in {y \in DOMAIN f : f[y] # Never}}

InUse ==
    Stamps(stored, LAMBDA r : r.updated) \cup Stamps(importing, LAMBDA r : r.at) \cup
    Stamps(trajectory, LAMBDA r : r.updated) \cup Stamps(evaluation, LAMBDA r : r.at) \cup
    {round.at}

(* A reading of the clock, later than every time that is in use.             *)
Reading == IF instant \in InUse THEN instant + 1 ELSE instant

(* AppendTranscriptBatch reads its time, then begins its transaction.        *)
BeginImport(i, s) ==
    /\ importing[i] = Never /\ stored[s].turns < MaxImports
    /\ instant' = Reading
    /\ importing' = [importing EXCEPT ![i] = [session |-> s, at |-> Reading]]
    /\ UNCHANGED <<stored, trajectory, evaluation, round, mishaps>>

CommitImport(i) ==
    /\ importing[i] # Never
    /\ stored' = [stored EXCEPT ![importing[i].session] =
                    [turns |-> @.turns + 1, updated |-> importing[i].at]]
    /\ importing' = [importing EXCEPT ![i] = Never]
    /\ UNCHANGED <<instant, trajectory, evaluation, round, mishaps>>

-----------------------------------------------------------------------------
(* ListDirtyTrajectorySessions: the turns stand for the fingerprints, and    *)
(* the delay of a retry has passed by the next round.                        *)
DirtyTrajectory(s) ==
    \/ trajectory[s] = Never
    \/ trajectory[s] # Never /\ \/ trajectory[s].turns # stored[s].turns
                                \/ trajectory[s].status # "complete"

InOrder(set) == SetToSortSeq(set, LAMBDA s, t : SessionOrder[s] < SessionOrder[t])

StartRound ==
    /\ round.phase = "idle"
    /\ round' = [AtRest EXCEPT !.phase = "derive",
                   !.queue = LET claims == InOrder({s \in Sessions : DirtyTrajectory(s)})
                             IN  [i \in DOMAIN claims |->
                                    [session |-> claims[i], turns |-> stored[claims[i]].turns]]]
    /\ UNCHANGED <<instant, stored, importing, trajectory, evaluation, mishaps>>

(* The attempt is dated when the derivation is over, before it is stored.    *)
Derive ==
    /\ round.phase = "derive" /\ round.queue # <<>>
    /\ instant' = Reading
    /\ round' = [round EXCEPT !.phase = "publish", !.at = Reading]
    /\ UNCHANGED <<stored, importing, trajectory, evaluation, mishaps>>

(* MarkTrajectoryDerivationCurrent, RecordTrajectoryDerivationFailure: a     *)
(* derivation of a transcript that has moved on is stale and not stored.     *)
Publish(status) ==
    /\ round.phase = "publish"
    /\ LET claim == Head(round.queue) IN
       trajectory' = IF claim.turns = stored[claim.session].turns
                     THEN [trajectory EXCEPT ![claim.session] =
                             [turns |-> claim.turns, status |-> status, updated |-> round.at]]
                     ELSE trajectory
    /\ mishaps' = IF status = "complete" THEN mishaps ELSE mishaps + 1
    /\ mishaps' <= MaxTroubles
    /\ round' = [round EXCEPT !.phase = "derive", !.queue = Tail(@), !.at = 0]
    /\ UNCHANGED <<instant, stored, importing, evaluation>>

-----------------------------------------------------------------------------
NeedsByTranscript(s) ==
    \/ evaluation[s] = Never
    \/ evaluation[s] # Never /\ stored[s].updated > evaluation[s].at

(* QueryExperienceApplicationsNeedingEvaluation                              *)
NeedsEvaluation(s) ==
    \/ evaluation[s] = Never
    \/ /\ evaluation[s] # Never
       /\ \/ stored[s].updated > evaluation[s].at
          \/ trajectory[s] # Never /\ trajectory[s].updated > evaluation[s].at

(* The delivery of an application precedes the times of this behaviour.      *)
Age(s) == IF evaluation[s] = Never THEN 0 ELSE evaluation[s].at
Older(s, t) == Age(s) < Age(t) \/ (Age(s) = Age(t) /\ SessionOrder[s] < SessionOrder[t])

Queue(observedAt) ==
    LET all == SetToSortSeq({s \in Sessions : NeedsEvaluation(s)}, Older)
    IN  SubSeq(all, 1, Min({Len(all), Limit}))

(* The time of a round's evaluations is read first, then what they are of.   *)
StartEvaluation ==
    /\ round.phase = "derive" /\ round.queue = <<>>
    /\ instant' = Reading
    /\ round' = [phase |-> "read", queue |-> Queue(Reading), at |-> Reading, turns |-> 0]
    /\ UNCHANGED <<stored, importing, trajectory, evaluation, mishaps>>

ReadTurns ==
    /\ round.phase = "read" /\ round.queue # <<>>
    /\ round' = [round EXCEPT !.phase = "apply", !.turns = stored[Head(round.queue)].turns]
    /\ UNCHANGED <<instant, stored, importing, trajectory, evaluation, mishaps>>

(* IsTrajectoryDerivationStateCurrent                                        *)
TrajectoryCurrent(s) ==
    trajectory[s] # Never /\ trajectory[s].status = "complete" /\ trajectory[s].turns = stored[s].turns

(* What an evaluation says, but for its time.                                *)
Material(turns, current) == [seen |-> Cardinality(Relevant \cap 1 .. turns), covered |-> current]

(* persistedExperienceEvaluation, ApplyExperienceEvaluation: an evaluation   *)
(* that says the same is a replay and leaves the stored one as it is.        *)
Evaluated(s, material, at) ==
    IF evaluation[s] # Never /\ evaluation[s].material = material
    THEN evaluation
    ELSE [evaluation EXCEPT ![s] = [material |-> material, at |-> at]]

Apply ==
    /\ round.phase = "apply"
    /\ LET s == Head(round.queue) IN
       evaluation' = IF s \in Unevaluable THEN evaluation
                     ELSE Evaluated(s, Material(round.turns, TrajectoryCurrent(s)), round.at)
    /\ round' = [round EXCEPT !.phase = "read", !.queue = Tail(@)]
    /\ UNCHANGED <<instant, stored, importing, trajectory, mishaps>>

EndRound ==
    /\ round.phase = "read" /\ round.queue = <<>>
    /\ round' = AtRest
    /\ UNCHANGED <<instant, stored, importing, trajectory, evaluation, mishaps>>

(* The process ends; the next holder of the lease starts a round.            *)
RoundStops ==
    /\ round # AtRest /\ mishaps < MaxTroubles
    /\ round' = AtRest /\ mishaps' = mishaps + 1
    /\ UNCHANGED <<instant, stored, importing, trajectory, evaluation>>

RoundStep ==
    \/ StartRound \/ Derive \/ Publish("complete")
    \/ StartEvaluation \/ ReadTurns \/ Apply \/ EndRound

EvaluationNext ==
    \/ \E i \in Importers : CommitImport(i) \/ \E s \in Sessions : BeginImport(i, s)
    \/ RoundStep \/ Publish("partial") \/ Publish("failed") \/ RoundStops

EvaluationSpec ==
    /\ EvaluationInit /\ [][EvaluationNext]_evaluationVars
    /\ WF_evaluationVars(RoundStep) /\ \A i \in Importers : WF_evaluationVars(CommitImport(i))

-----------------------------------------------------------------------------
EvaluationUpToDate(s) ==
    /\ s \in DOMAIN evaluation /\ evaluation[s] # Never
    /\ evaluation[s].material = Material(stored[s].turns, TRUE)

(* Once its session is quiet, an application is evaluated on all its turns   *)
(* and on the complete trajectory, whatever was imported between the reads   *)
(* of an evaluation, with whatever time, and whatever failed.                *)
EvaluationCatchesUp ==
    \A s \in Sessions \ Unevaluable : <>[]EvaluationUpToDate(s)

(* A failure of one application does not keep another from being evaluated   *)
(* (internal/localapp/experience_evaluation_test.go, "later application was  *)
(* blocked by the first failure").                                           *)
LaterNotBlocked == \A s \in Sessions \ Unevaluable : <>(evaluation[s] # Never)
=============================================================================
