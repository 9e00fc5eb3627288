------------------------------ MODULE MCGuidance ------------------------------
(***************************************************************************)
(* The modules that turn what was learned into guidance and follow it up,   *)
(* that of the opening of the store, of how fix monitoring gets ready, and   *)
(* of the registration with an agent, for TLC.  They share no state: a       *)
(* behaviour is one of the module, or the instance, that "scope" names.      *)
(***************************************************************************)
EXTENDS StoreKey, ExperienceLifecycle, ExperienceReview, FixMonitoring, IssueSummary, McpConfig,
        MissionPack, Sequences

CONSTANTS Never

VARIABLES scope,
    instant, stored, importing, trajectory, evaluation, round, mishaps

\* The proposal of a candidate.  Of two decisions of one time, a later token's
\* and a rejection count more.
OneCandidate == [p \in Proposals |-> "c"]
DecisionRank(a) == 2 * a.issued + (IF a.disposition = "reject" THEN 1 ELSE 0)

\* Two experiences, one of which expires under a generation, and that one alone
\* for longer.
ExpiresEarly == [e \in Experiences |-> IF e = "e" THEN 1 ELSE 9]
Longer == INSTANCE ExperienceLifecycle WITH
    Experiences <- {"e"}, Expires <- [e \in {"e"} |-> 1], TokenLifetime <- 3, MaxTime <- 3

\* Two tasks, which compete for the one receipt of a round.
Rivals == INSTANCE MissionPack WITH Tasks <- {"x", "y"}, MaxTicks <- 1

\* One session, read while it is imported.
Busy == INSTANCE ApplicationEvaluation WITH
    Sessions <- {"s1"}, SessionOrder <- [s \in {"s1"} |-> 1], Importers <- {"scan"},
    Limit <- 2, Unevaluable <- {}, Relevant <- {1, 3}, MaxImports <- 3, MaxTroubles <- 1

\* Two sessions, the first of which has no evaluation, in rounds of Limit.
Behind(limit) == INSTANCE ApplicationEvaluation WITH
    Sessions <- {"s1", "s2"}, SessionOrder <- [s \in {"s1", "s2"} |-> IF s = "s1" THEN 1 ELSE 2],
    Importers <- {}, Limit <- limit, Unevaluable <- {"s1"}, Relevant <- {1},
    MaxImports <- 1, MaxTroubles <- limit - 1

\* Each process registers itself, with an agent that refuses a name that is taken
\* or with one that replaces it.
OwnIdentity == [p \in Registrars |-> p]
Codex == INSTANCE McpConfig WITH DuplicateAddSafe <- FALSE, AllowAdd <- TRUE

\* Beside a store that is read, one that gets its summaries and one that repairs them.
Upgrade == INSTANCE IssueSummary WITH
    Batch <- 1, Beginning <- "old", MaxGeneration <- 3, MaxMinutes <- 0, MaxPrunes <- 0,
    MaxCrashes <- 1

Repair == INSTANCE IssueSummary WITH Beginning <- "opened", MaxMinutes <- 0

\* What the modules ask of their constants.
ASSUME ReviewAssumption /\ LifecycleAssumption /\ Longer!LifecycleAssumption /\ StoreKeyAssumption
ASSUME MissionPackAssumption /\ Rivals!MissionPackAssumption
ASSUME Busy!EvaluationAssumption /\ Behind(1)!EvaluationAssumption /\ Behind(2)!EvaluationAssumption
ASSUME McpConfigAssumption /\ Codex!McpConfigAssumption
ASSUME IssueSummaryAssumption /\ Upgrade!IssueSummaryAssumption /\ Repair!IssueSummaryAssumption

evaluationVars == <<instant, stored, importing, trajectory, evaluation, round, mishaps>>

Init ==
    /\ scope \in {"review", "lifecycle", "longer", "slow", "rivals", "busy", "behind", "store",
                 "monitoring", "claude", "codex", "reading", "upgrade", "repair"}
    /\ ReviewInit
    /\ IF scope = "longer" THEN Longer!LifecycleInit ELSE LifecycleInit
    /\ MissionPackInit
    /\ IF scope = "behind" THEN Behind(2)!EvaluationInit ELSE Busy!EvaluationInit
    /\ StoreKeyInit /\ (scope # "store" => payloads = [r \in Payloads |-> Absent])
    /\ MonitoringInit
    /\ ConfigInit
    /\ (scope \notin {"claude", "codex"} => entry = "absent" /\ manifest = "missing")
    /\ CASE scope = "upgrade" -> Upgrade!IssueSummaryInit
         [] scope = "repair" -> Repair!IssueSummaryInit
         [] OTHER -> IssueSummaryInit

Next ==
    /\ UNCHANGED scope
    /\ \/ /\ scope = "review" /\ ReviewNext
          /\ UNCHANGED <<lifecycleVars, packVars, evaluationVars, storeVars, monitoringVars, configVars,
                         summaryVars>>
       \/ /\ \/ scope = "lifecycle" /\ LifecycleNext
             \/ scope = "longer" /\ Longer!LifecycleNext
          /\ UNCHANGED <<reviewVars, packVars, evaluationVars, storeVars, monitoringVars, configVars,
                         summaryVars>>
       \/ /\ \/ scope = "slow" /\ MissionPackNext
             \/ scope = "rivals" /\ Rivals!MissionPackNext
          /\ UNCHANGED <<reviewVars, lifecycleVars, evaluationVars, storeVars, monitoringVars, configVars,
                         summaryVars>>
       \/ /\ \/ scope = "busy" /\ Busy!EvaluationNext
             \/ scope = "behind" /\ Behind(2)!EvaluationNext
          /\ UNCHANGED <<reviewVars, lifecycleVars, packVars, storeVars, monitoringVars, configVars,
                         summaryVars>>
       \/ /\ scope = "store" /\ StoreKeyNext
          /\ UNCHANGED <<reviewVars, lifecycleVars, packVars, evaluationVars, monitoringVars, configVars,
                         summaryVars>>
       \/ /\ scope = "monitoring" /\ MonitoringNext
          /\ UNCHANGED <<reviewVars, lifecycleVars, packVars, evaluationVars, storeVars, configVars,
                         summaryVars>>
       \/ /\ \/ scope = "claude" /\ ConfigNext
             \/ scope = "codex" /\ Codex!ConfigNext
          /\ UNCHANGED <<reviewVars, lifecycleVars, packVars, evaluationVars, storeVars,
                         monitoringVars, summaryVars>>
       \/ /\ \/ scope = "reading" /\ IssueSummaryNext
             \/ scope = "upgrade" /\ Upgrade!IssueSummaryNext
             \/ scope = "repair" /\ Repair!IssueSummaryNext
          /\ UNCHANGED <<reviewVars, lifecycleVars, packVars, evaluationVars, storeVars,
                         monitoringVars, configVars>>

vars == <<scope, reviewVars, lifecycleVars, packVars, evaluationVars, storeVars, monitoringVars, configVars,
          summaryVars>>

(* The fairness of each module, for the behaviours of its own scope.         *)
Spec ==
    /\ Init /\ [][Next]_vars
    /\ WF_packVars(scope = "slow" /\ PollStep)
    /\ WF_packVars(scope = "slow" /\ PackTick)
    /\ WF_packVars(scope = "rivals" /\ Rivals!PollStep)
    /\ WF_packVars(scope = "rivals" /\ Rivals!PackTick)
    /\ WF_evaluationVars(scope = "busy" /\ Busy!RoundStep)
    /\ WF_evaluationVars(scope = "busy" /\ Busy!CommitImport("scan"))
    /\ WF_evaluationVars(scope = "behind" /\ Behind(2)!RoundStep)
    /\ \A p \in {"a", "b"} :
            WF_monitoringVars(scope = "monitoring" /\ MonitoringStep(p))
    /\ WF_monitoringVars(scope = "monitoring" /\ RetryTime)
    /\ WF_summaryVars(scope = "upgrade" /\ Upgrade!OpenStep)

(* Only the evaluation of two applications, one to a round.                  *)
NarrowSpec ==
    /\ Init /\ scope = "behind"
    /\ [][UNCHANGED <<scope, reviewVars, lifecycleVars, packVars, storeVars, monitoringVars, configVars,
                   summaryVars>>
          /\ Behind(1)!EvaluationNext]_vars
    /\ WF_evaluationVars(Behind(1)!RoundStep)

(* Only the repair of the summaries, beside processes that publish.            *)
RepairSpec ==
    /\ Init /\ scope = "repair"
    /\ [][UNCHANGED <<scope, reviewVars, lifecycleVars, packVars, evaluationVars, storeVars,
                      monitoringVars, configVars>>
          /\ Repair!IssueSummaryNext]_vars
    /\ WF_summaryVars(Repair!OpenStep)

-----------------------------------------------------------------------------
(* MissionPack, ApplicationEvaluation: every accepted pack is settled in the    *)
(* end, and every application is evaluated on all of its session.              *)
DeliveriesSettle ==
    /\ scope = "slow" => ReceiptsSettle
    /\ scope = "rivals" => Rivals!ReceiptsSettle
    /\ scope = "busy" => Busy!EvaluationCatchesUp
    /\ scope = "behind" => Behind(2)!EvaluationCatchesUp

(* ApplicationEvaluation: a failure does not keep the others waiting.        *)
LaterNotBlocked == Behind(1)!LaterNotBlocked

(* FixMonitoring, IssueSummary: failures and stops only delay what an upgraded  *)
(* store has left to do: to be opened, and to be ready for monitoring.          *)
UpgradesEnd ==
    /\ scope = "monitoring" => MonitoringConverges
    /\ scope = "upgrade" => Upgrade!OpeningSucceeds

(* IssueSummary: a store whose summaries are repaired opens.                  *)
RepairOpens == Repair!OpeningSucceeds
=============================================================================
