------------------------- MODULE RecurrenceLedger -------------------------
(***************************************************************************)
(* What recurrence monitoring promises, without jobs, claims, leases,      *)
(* cursors or failures: publishing an analysis owes one evaluation to each *)
(* fix annotation recorded before it, every evaluation is settled at most  *)
(* once, and settling it observes a matching occurrence exactly when the   *)
(* annotation has not been retracted by then.                              *)
(***************************************************************************)
EXTENDS Naturals

CONSTANTS
    Jobs,           \* published analyses
    Occurrence,     \* the occurrence an analysis reports
    Matches         \* the <<j, a>> whose occurrence qualifies as a recurrence

VARIABLES
    annotations,    \* fix annotations recorded: 1 .. annotations
    retracted,      \* those that were retracted
    published,      \* analyses published
    owed,           \* <<j, a>>: analysis j is to be compared with annotation a
    observations    \* <<a, o>>: occurrence o was observed after annotation a

vars == <<annotations, retracted, published, owed, observations>>

Init ==
    /\ annotations = 0 /\ retracted = {} /\ published = {}
    /\ owed = {} /\ observations = {}

Record ==
    /\ annotations' = annotations + 1
    /\ UNCHANGED <<retracted, published, owed, observations>>

Retract(a) ==
    /\ a \in 1 .. annotations
    /\ retracted' = retracted \cup {a}
    /\ UNCHANGED <<annotations, published, owed, observations>>

Publish(j) ==
    /\ j \notin published
    /\ published' = published \cup {j}
    /\ owed' = owed \cup ({j} \X (1 .. annotations))
    /\ UNCHANGED <<annotations, retracted, observations>>

Settle(S) ==
    /\ S \subseteq owed
    /\ owed' = owed \ S
    /\ observations' = observations \cup
         {<<p[2], Occurrence[p[1]]>> : p \in {q \in S \cap Matches : q[2] \notin retracted}}
    /\ UNCHANGED <<annotations, retracted, published>>

Next ==
    \/ Record
    \/ \E a \in 1 .. annotations : Retract(a)
    \/ \E j \in Jobs : Publish(j)
    \/ \E S \in SUBSET owed : Settle(S)

Spec == Init /\ [][Next]_vars
=============================================================================
