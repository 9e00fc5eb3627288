------------------------------ MODULE Trajectory ------------------------------
(***************************************************************************)
(* What is derived from a session while it grows: edges between its turns   *)
(* and events, and outcomes.  A derivation lists the session, reads it in   *)
(* separate queries, and stores what follows from it one record at a time;  *)
(* at the end it records the input it was listed for, unless that has       *)
(* changed.  Edges and outcomes are never removed.  (trajectory/derive,     *)
(* localapp/trajectory_analysis.go, trajectory_repository.go and            *)
(* trajectory_derivation_repository.go.)  Turns arrive in batches, as the   *)
(* import appends them; a turn's place is its index and its time.           *)
(***************************************************************************)
EXTENDS Naturals, Sequences, FiniteSets, FiniteSetsExt

CONSTANTS Sessions,             \* records: the batches a session's turns come in, its events
                                \* <<"event", call id, "use" or "write">>, and the configurations
                                \* of its project in their order: the kind of check, or NoClass,
                                \* of each command
          Family,               \* Family[command]: CommandRepairFamily
          ProjectFiles,
          NoClass, NoCall,
          VerificationWindow,   \* verificationMutationTurnWindow
          RepairWindow,         \* repairCommandTurnWindow
          Cuts                  \* bound: the times at which a half stored derivation is seen

TrajectoryAssumption ==
    /\ VerificationWindow \in Nat \ {0} /\ RepairWindow \in Nat \ {0}
    /\ Cuts \subseteq Nat
    /\ \A s \in Sessions :
        s.configs # << >> /\ \A c \in DOMAIN s.configs : DOMAIN s.configs[c] = DOMAIN Family

VARIABLES session,     \* which session it is
          arrived,     \* how many of its batches have come
          turns,       \* its transcript_turns
          recorded,    \* canonical events of the session
          config,      \* the configuration of the project in force
          edges, outcomes,
          derived,     \* trajectory_derivation_state: the input it is current for
          deriver

trajectoryVars == <<session, arrived, turns, recorded, config, edges, outcomes, derived, deriver>>
sessionVars == <<session, arrived, turns, recorded, config>>

NotYet == [turns |-> 0, events |-> {}]
Rested == [step |-> "rest", claim |-> NotYet, input |-> NotYet, config |-> 1]

TrajectoryInit ==
    /\ session \in Sessions /\ arrived = 0 /\ turns = << >> /\ recorded = {} /\ config = 1
    /\ edges = {} /\ outcomes = {} /\ derived = NotYet /\ deriver = Rested

-----------------------------------------------------------------------------
(* The derivation: ts are turns, ev events, class a classification.           *)

Turn(n) == <<"turn", n>>
Edge(from, relation, to, sources, at) ==
    [from |-> from, relation |-> relation, to |-> to, sources |-> sources, at |-> at]
Plain(from, relation, to, at) == Edge(from, relation, to, {from, to}, at)
Outcome(kind, sources, at) == [kind |-> kind, sources |-> sources, at |-> at]

Of(ts, role) == {n \in DOMAIN ts : ts[n].role = role}
CallsOf(ts, id) == {n \in Of(ts, "call") : ts[n].id = id /\ id # NoCall}
ResultsOf(ts, id) == {n \in Of(ts, "result") : ts[n].id = id /\ id # NoCall}
Named(ts, n) == CallsOf(ts, ts[n].id) = {n}      \* a call that its id stands for

InvocationEdges(ts, ev) ==
    {Plain(Turn(n), "invokes", e, n) :
        <<n, e>> \in {x \in Of(ts, "call") \X ev : Named(ts, x[1]) /\ x[2][2] = ts[x[1]].id}}

ResultEdges(ts) ==
    UNION {{Plain(Turn(n), "returns_for", Turn(c), n) : c \in CallsOf(ts, ts[n].id)} :
        n \in {m \in Of(ts, "result") : Cardinality(CallsOf(ts, ts[m].id)) = 1}}

ParentEdges(ts) ==
    UNION {{Plain(Turn(c), "parent_of", Turn(n), n) : c \in CallsOf(ts, ts[n].parent) \ {n}} :
        n \in {m \in DOMAIN ts : Cardinality(CallsOf(ts, ts[m].parent)) = 1}}

Behaviour == {"assistant", "call", "result"}
Corrections(ts) ==
    {n \in Of(ts, "user") \ {1} : /\ ts[n].says = "correction" /\ ts[n].parent = NoCall
                                  /\ ts[n - 1].role \in Behaviour}
CorrectionEdges(ts) ==
    {Plain(Turn(n), relation, Turn(n - 1), n) :
        <<n, relation>> \in Corrections(ts) \X {"responds_to", "corrects"}}

(* A project edit is known by the events that record it, or by its turn.      *)
EditedFiles(turn) == turn.edits \cap ProjectFiles
Mutations(ts) == {n \in Of(ts, "call") : EditedFiles(ts[n]) # {} /\ Named(ts, n)}
WritesOf(ts, ev, n) == {e \in ev : e[2] = ts[n].id /\ e[3] = "write"}
Targets(ts, ev, n) == IF WritesOf(ts, ev, n) = {} THEN {Turn(n)} ELSE WritesOf(ts, ev, n)
ModificationEdges(ts, ev) ==
    UNION {{Plain(Turn(n), "modifies", e, n) : e \in WritesOf(ts, ev, n)} : n \in Mutations(ts)}
About(ts, ev, n, relation, mutations) ==
    UNION {{Edge(Turn(n), relation, t, {Turn(n), Turn(m), t}, n) : t \in Targets(ts, ev, m)} :
        m \in mutations}

(* A check verifies the edits since the check before it.                      *)
Checks(ts, class) == {n \in Of(ts, "call") : class[ts[n].runs] # NoClass}
Checked(ts, class, n) ==
    {m \in Mutations(ts) : /\ m < n /\ m + VerificationWindow >= n
                           /\ \A v \in Checks(ts, class) : v < n => v < m}
VerificationEdges(ts, ev, class) ==
    UNION {About(ts, ev, n, "verifies", Checked(ts, class, n)) : n \in Checks(ts, class)}

Known == {"passed", "failed"}
Answer(ts, n) == {r \in ResultsOf(ts, ts[n].id) : r > n}
VerificationOutcomes(ts, class) ==
    UNION {{Outcome(ts[r].status, {Turn(n), Turn(r)}, r) : r \in Answer(ts, n)} :
        n \in {m \in Checks(ts, class) :
                /\ Named(ts, m) /\ Cardinality(Answer(ts, m)) = 1
                /\ \A r \in Answer(ts, m) : ts[r].status \in Known}}

(* A repair is a command that succeeds right after a different one of its     *)
(* family failed, with no user turn or compaction between.                    *)
Segment(ts, n) == Cardinality({m \in Of(ts, "user") \cup Of(ts, "compaction") : m < n})
Attempts(ts) ==
    {<<n, r>> \in Of(ts, "call") \X Of(ts, "result") :
        /\ Family[ts[n].runs] # NoClass /\ Named(ts, n) /\ ResultsOf(ts, ts[n].id) = {r}
        /\ n < r /\ Segment(ts, n) = Segment(ts, r) /\ ts[r].status \in Known}
Repairs(ts) ==
    {x \in Attempts(ts) \X Attempts(ts) :
        LET failure == x[1]   success == x[2]
        IN  /\ ts[failure[2]].status = "failed" /\ ts[success[2]].status = "passed"
            /\ failure[2] < success[1] /\ success[1] - failure[1] <= RepairWindow
            /\ \A other \in Attempts(ts) : other[1] <= failure[1] \/ other[1] >= success[1]
            /\ Segment(ts, failure[1]) = Segment(ts, success[1])
            /\ Family[ts[failure[1]].runs] = Family[ts[success[1]].runs]
            /\ ts[failure[1]].runs # ts[success[1]].runs}
RepairSources(x) == {Turn(x[1][1]), Turn(x[1][2]), Turn(x[2][1]), Turn(x[2][2])}
RepairEdges(ts) ==
    {Edge(Turn(x[2][1]), "repairs", Turn(x[1][1]), RepairSources(x), x[2][2]) : x \in Repairs(ts)}

(* A claim of completion is about the last edit before it.                    *)
LastEdit(ts, n) ==
    LET before == {m \in DOMAIN ts : m < n /\ EditedFiles(ts[m]) # {}}
    IN  {m \in before : \A k \in before : k <= m}
ClaimEdges(ts, ev) ==
    UNION {About(ts, ev, n, "claims_completion_after", LastEdit(ts, n) \cap Mutations(ts)) :
        n \in {m \in Of(ts, "assistant") : ts[m].says = "claim"}}

CompactionEdges(ts) ==
    {Plain(Turn(n), "compacts_after", Turn(n - 1), n) : n \in Of(ts, "compaction") \ {1}}

DerivedEdges(ts, ev, class) ==
    UNION {InvocationEdges(ts, ev), ResultEdges(ts), ParentEdges(ts), CorrectionEdges(ts),
           ModificationEdges(ts, ev), VerificationEdges(ts, ev, class), RepairEdges(ts),
           ClaimEdges(ts, ev), CompactionEdges(ts)}

DerivedOutcomes(ts, class) ==
    UNION {{Outcome("correction", {Turn(n), Turn(n - 1)}, n) : n \in Corrections(ts)},
           VerificationOutcomes(ts, class),
           {Outcome("repair", RepairSources(x), x[2][2]) : x \in Repairs(ts)}}

-----------------------------------------------------------------------------
(* The session and its project go on. *)

AppendBatch ==
    /\ arrived < Len(session.batches) /\ arrived' = arrived + 1
    /\ turns' = turns \o session.batches[arrived']
    /\ UNCHANGED <<session, recorded, config, edges, outcomes, derived, deriver>>

RecordEvent(e) ==
    /\ e \notin recorded /\ CallsOf(turns, e[2]) # {}
    /\ recorded' = recorded \cup {e}
    /\ UNCHANGED <<session, arrived, turns, config, edges, outcomes, derived, deriver>>

InForce == session.configs[config]
Reconfigure ==
    /\ config < Len(session.configs) /\ config' = config + 1
    /\ UNCHANGED <<session, arrived, turns, recorded, edges, outcomes, derived, deriver>>

-----------------------------------------------------------------------------
(* A derivation.  That of a session that is not complete is partial, and is    *)
(* made again half a minute later, whether or not there is anything new.      *)

Input == [turns |-> Len(turns), events |-> recorded]
Keeps == UNCHANGED <<sessionVars, edges, outcomes, derived>>

ListDirty ==
    /\ deriver.step = "rest" /\ Keeps
    /\ deriver' = [deriver EXCEPT !.step = "load", !.claim = Input]

(* The turns, the events and the configuration, here as they are at one time. *)
Load ==
    /\ deriver.step = "load" /\ Keeps
    /\ deriver' = [deriver EXCEPT !.step = "store", !.input = Input, !.config = config]

FoundEdges == DerivedEdges(SubSeq(turns, 1, deriver.input.turns), deriver.input.events,
                           session.configs[deriver.config])
FoundOutcomes == DerivedOutcomes(SubSeq(turns, 1, deriver.input.turns), session.configs[deriver.config])
Earlier(found, t) == {x \in found : x.at < t}

(* Each record is a transaction, the edges first, in the order of their times: *)
(* another process sees any part of them.  What is there already is left.      *)
StorePart ==
    /\ deriver.step = "store" /\ deriver' = [deriver EXCEPT !.step = "go on"]
    /\ \E t \in Cuts :
        \/ edges' = edges \cup Earlier(FoundEdges, t) /\ UNCHANGED outcomes
        \/ edges' = edges \cup FoundEdges /\ outcomes' = outcomes \cup Earlier(FoundOutcomes, t)
    /\ UNCHANGED <<sessionVars, derived>>

StoreRest ==
    /\ deriver.step \in {"store", "go on"} /\ deriver' = [deriver EXCEPT !.step = "mark"]
    /\ edges' = edges \cup FoundEdges /\ outcomes' = outcomes \cup FoundOutcomes
    /\ UNCHANGED <<sessionVars, derived>>

\* Mutant: what is recorded is the input at the end.
MarkWhatIsThere ==
    /\ deriver.step = "mark" /\ deriver' = Rested /\ derived' = Input
    /\ UNCHANGED <<sessionVars, edges, outcomes>>

(* MarkTrajectoryDerivationCurrent: a claim whose input has changed is stale.  *)
MarkCurrent ==
    /\ deriver.step = "mark" /\ deriver' = Rested
    /\ derived' = IF deriver.claim = Input THEN Input ELSE derived
    /\ UNCHANGED <<sessionVars, edges, outcomes>>

(* Cancelled, or failed, which is recorded unless the claim is stale.         *)
StopDeriving ==
    /\ deriver.step # "rest" /\ deriver' = Rested
    /\ \/ UNCHANGED derived
       \/ deriver.claim = Input /\ derived' = NotYet
    /\ UNCHANGED <<sessionVars, edges, outcomes>>

Derive == ListDirty \/ Load \/ StorePart \/ StoreRest \/ MarkCurrent

TrajectoryNext ==
    \/ AppendBatch \/ \E e \in session.events : RecordEvent(e)
    \/ Reconfigure \/ Derive \/ StopDeriving

-----------------------------------------------------------------------------
(* Once a session is derived, what is stored of it follows from it, and all   *)
(* that follows from it is stored, but for outcomes that later turns refute:  *)
(* a call's id is used again, or the answer to an earlier call, or a second   *)
(* one, comes after it.                                                       *)
Reused(n) == Cardinality(CallsOf(turns, turns[n].id)) > 1
Overtaken(n) ==
    \E m \in Of(turns, "call") : m < n /\ \E r \in ResultsOf(turns, turns[m].id) : n < r
Refuted(x) ==
    \E n \in DOMAIN turns : Turn(n) \in x.sources /\ (Reused(n) \/ Overtaken(n))

DerivationAgrees ==
    (derived = Input /\ config = 1) =>
        /\ DerivedEdges(turns, recorded, InForce) \subseteq edges
        /\ DerivedOutcomes(turns, InForce) \subseteq outcomes
        /\ \A x \in outcomes \ DerivedOutcomes(turns, InForce) : Refuted(x)
=============================================================================
