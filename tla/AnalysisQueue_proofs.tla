------------------------ MODULE AnalysisQueue_proofs ------------------------
(***************************************************************************)
(* Safety of the analysis queue, for any number of sessions, events,       *)
(* findings, importers and reconciler processes, and for any bounds on     *)
(* the environment: the state is well typed, a session shown as current    *)
(* was analysed on what is stored, and a claim is exclusive.               *)
(***************************************************************************)
EXTENDS AnalysisQueue, TLAPS

-----------------------------------------------------------------------------
(* Typing. *)

QueueTyped ==
    /\ dirty \in [Sessions -> Rows \cup {NoRow}]
    /\ cooling \subseteq Sessions
    /\ older \subseteq Sessions \X Sessions
    /\ stale \subseteq Sessions
    /\ unmarked \subseteq Findings

(* markSessionDirtyTx leaves the queue well typed. *)
LEMMA MarkDirtyTyped ==
    ASSUME TypeOK, NEW T \in SUBSET Sessions, MarkDirty(T)
    PROVE  QueueTyped'
<1>1. \A s \in Sessions : MarkedRow(dirty[s]) \in Rows
  BY AbsentAssumption DEF TypeOK, MarkedRow, Rows, RowStates
<1>2. dirty' \in [Sessions -> Rows \cup {NoRow}]
  BY <1>1 DEF TypeOK, MarkDirty
<1>3. older' \subseteq Sessions \X Sessions
  BY DEF TypeOK, MarkDirty, Touched
<1> QED
  BY <1>2, <1>3 DEF TypeOK, MarkDirty, QueueTyped

(* So does a change of the state of a row. *)
LEMMA SetRowTyped ==
    ASSUME TypeOK, NEW s \in Sessions, HasRow(s), NEW st \in RowStates, SetRow(s, st)
    PROVE  /\ dirty' \in [Sessions -> Rows \cup {NoRow}]
           /\ older' \subseteq Sessions \X Sessions
<1>1. dirty[s] \in Rows
  BY DEF TypeOK, HasRow
<1>2. [dirty[s] EXCEPT !.state = st] \in Rows
  BY <1>1 DEF Rows
<1>3. older' \subseteq Sessions \X Sessions
  BY DEF TypeOK, SetRow, Touched
<1> QED
  BY <1>2, <1>3 DEF TypeOK, SetRow

(* A step of the environment leaves the budgets natural numbers. *)
LEMMA SpendTyped ==
    ASSUME TypeOK, NEW kind \in {"append", "prune", "stop", "fault", "loss"}, Spend(kind)
    PROVE  budget' \in Budgets
  BY DEF TypeOK, Spend, Budgets

(* The initial state is well typed. *)
LEMMA InitTyped == Init => TypeOK
<1> SUFFICES ASSUME Init PROVE TypeOK
  OBVIOUS
<1>1. EmptyView \in Views
  BY DEF EmptyView, Views, Scopes
<1>2. worker \in [Workers -> WorkerStates]
  BY <1>1 DEF Init, Stopped, WorkerStates, Phases
<1>3. importer \in [Importers -> ImporterStates]
  BY DEF Init, IdleImporter, ImporterStates
<1>4. budget \in Budgets
  BY BoundsAssumption DEF Init, Budgets
<1> QED
  BY <1>1, <1>2, <1>3, <1>4 DEF Init, TypeOK, Scopes

(* Importer transactions. *)
LEMMA ImporterTyped ==
    ASSUME TypeOK, NEW i \in Importers, ImporterNext(i)
    PROVE  TypeOK'
<1> USE InputsAssumption
<1>0. importer[i] \in ImporterStates
  BY DEF TypeOK
<1>1. ASSUME NEW e \in Events, AppendEvent(i, e) PROVE TypeOK'
  <2>1. importer' \in [Importers -> ImporterStates]
    BY <1>1 DEF AppendEvent, TypeOK, ImporterStates
  <2>2. QueueTyped'
    BY <1>1, MarkDirtyTyped DEF AppendEvent, TypeOK, QueueTyped, queueVars
  <2>3. budget' \in Budgets
    BY <1>1, SpendTyped DEF AppendEvent
  <2> QED
    BY <1>1, <2>1, <2>2, <2>3 DEF AppendEvent, TypeOK, QueueTyped
<1>2. ASSUME UpsertSessionScope(i) PROVE TypeOK'
  <2>1. importer[i].item \in Events
    BY <1>0, <1>2 DEF UpsertSessionScope, ImporterStates
  <2>2. importer' \in [Importers -> ImporterStates]
    BY <1>2, <1>0 DEF UpsertSessionScope, TypeOK, ImporterStates
  <2>3. QueueTyped'
    BY <1>2, <2>1, MarkDirtyTyped DEF UpsertSessionScope, TypeOK, QueueTyped, queueVars
  <2>4. scope' \in [Sessions -> Scopes]
    BY <1>2, <2>1 DEF UpsertSessionScope, TypeOK, MergeScope, Scopes
  <2> QED
    BY <1>2, <2>2, <2>3, <2>4 DEF UpsertSessionScope, TypeOK, QueueTyped
<1>3. ASSUME UpsertEventEnrichment(i) PROVE TypeOK'
  <2>1. importer[i].item \in Events
    BY <1>0, <1>3 DEF UpsertEventEnrichment, ImporterStates
  <2>2. importer' \in [Importers -> ImporterStates]
    BY <1>3 DEF UpsertEventEnrichment, TypeOK, ImporterStates, IdleImporter
  <2>3. QueueTyped'
    BY <1>3, <2>1, MarkDirtyTyped DEF UpsertEventEnrichment, TypeOK, QueueTyped, queueVars
  <2> QED
    BY <1>3, <2>1, <2>2, <2>3 DEF UpsertEventEnrichment, TypeOK, QueueTyped
<1>4. ASSUME NEW f \in Findings, RecordFinding(i, f) PROVE TypeOK'
  <2>1. importer' \in [Importers -> ImporterStates]
    BY <1>4 DEF RecordFinding, TypeOK, ImporterStates
  <2>2. budget' \in Budgets
    BY <1>4, SpendTyped DEF RecordFinding
  <2> QED
    BY <1>4, <2>1, <2>2 DEF RecordFinding, TypeOK
<1>5. ASSUME MarkFindingSession(i) PROVE TypeOK'
  <2>1. importer[i].item \in Findings
    BY <1>0, <1>5 DEF MarkFindingSession, ImporterStates
  <2>2. importer' \in [Importers -> ImporterStates]
    BY <1>5 DEF MarkFindingSession, TypeOK, ImporterStates, IdleImporter
  <2>3. QueueTyped'
    BY <1>5, <2>1, MarkDirtyTyped DEF MarkFindingSession
  <2> QED
    BY <1>5, <2>2, <2>3 DEF MarkFindingSession, TypeOK, QueueTyped, storeVars
<1>6. ASSUME ImporterStop(i) PROVE TypeOK'
  <2>1. importer' \in [Importers -> ImporterStates]
    BY <1>6 DEF ImporterStop, TypeOK, ImporterStates, IdleImporter
  <2>2. budget' \in Budgets
    BY <1>6, SpendTyped DEF ImporterStop
  <2> QED
    BY <1>6, <2>1, <2>2 DEF ImporterStop, TypeOK, storeVars, queueVars
<1> QED
  BY <1>1, <1>2, <1>3, <1>4, <1>5, <1>6 DEF ImporterNext

(* Steps of a reconciler process. *)
(* A reconciler that has read nothing yet has a well-typed view. *)
LEMMA EmptyViewTyped == EmptyView \in Views
  BY DEF EmptyView, Views, Scopes

(* A reconciler that goes back to draining is well typed. *)
LEMMA LeaveTyped ==
    ASSUME TypeOK, NEW w \in Workers, Leave(w)
    PROVE  worker' \in [Workers -> WorkerStates]
<1>1. worker[w].phase \in Phases
  BY DEF TypeOK, WorkerStates
<1>2. [Stopped EXCEPT !.pc = "drain", !.phase = worker[w].phase] \in WorkerStates
  BY <1>1, EmptyViewTyped DEF Stopped, WorkerStates
<1> QED
  BY <1>2 DEF TypeOK, Leave

(* A read fills one field of the view and moves to an active stage. *)
LEMMA ReadTyped ==
    ASSUME TypeOK, NEW w \in Workers, worker[w].pc \in Active, Read(w)
    PROVE  worker' \in [Workers -> WorkerStates]
<1> DEFINE s == worker[w].session
<1>1. /\ worker[w] \in [pc : Active, phase : Phases, todo : SUBSET Sessions,
                        session : Sessions, target : Nat \ {0}, epoch : Nat, view : Views]
      /\ s \in Sessions
  BY DEF TypeOK, WorkerStates, Active, ReadingStages
<1>2. /\ scope[s] \in Scopes /\ OfSession(events, s) \subseteq Events
      /\ OfSession(enriched, s) \subseteq Events
      /\ FindingsOf(findings, s) \subseteq Findings
  BY <1>1 DEF TypeOK, OfSession, FindingsOf
<1>3. CASE ReadScope(w)
  BY <1>1, <1>2, <1>3 DEF ReadScope, TypeOK, WorkerStates, Views, Active, ReadingStages
<1>4. CASE ReadEvents(w)
  BY <1>1, <1>2, <1>4 DEF ReadEvents, TypeOK, WorkerStates, Views, Active, ReadingStages
<1>5. CASE ReadEnrichments(w)
  BY <1>1, <1>2, <1>5 DEF ReadEnrichments, TypeOK, WorkerStates, Views, Active, ReadingStages
<1>6. CASE ReadFindings(w)
  BY <1>1, <1>2, <1>6 DEF ReadFindings, TypeOK, WorkerStates, Views, Active, ReadingStages
<1> QED
  BY <1>3, <1>4, <1>5, <1>6 DEF Read

(* Every step of a reconciler, from its start to its stop, keeps the types. *)
LEMMA WorkerTyped ==
    ASSUME TypeOK, NEW w \in Workers, WorkerNext(w)
    PROVE  TypeOK'
<1> USE InputsAssumption
<1>0. worker[w] \in WorkerStates
  BY DEF TypeOK
<1>1. CASE Start(w)
  BY <1>0, <1>1 DEF Start, Enter, TypeOK, WorkerStates, Active, ReadingStages, storeVars, queueVars
<1>2. CASE Startup(w)
  <2>1. {EventSession[e] : e \in events} \in SUBSET Sessions
    BY DEF TypeOK
  <2>2. worker' \in [Workers -> WorkerStates]
    <3> DEFINE todo == {EventSession[e] : e \in events}
    <3>1. /\ worker[w].pc = "drain"
          /\ worker' = [worker EXCEPT ![w] =
               [worker[w] EXCEPT !.pc = "startup", !.phase = "recover", !.todo = todo]]
      BY <1>2 DEF Startup
    <3> HIDE DEF todo
    <3>2. todo \in SUBSET Sessions
      BY <2>1 DEF todo
    <3> QED
      BY <1>0, <3>1, <3>2 DEF TypeOK, WorkerStates, Phases, Active, ReadingStages
  <2> QED
    BY <1>2, <2>2 DEF Startup, TypeOK, storeVars, queueVars
<1>3. ASSUME NEW s \in Sessions, StartupMark(w, s) PROVE TypeOK'
  <2>1. worker' \in [Workers -> WorkerStates]
    BY <1>0, <1>3 DEF StartupMark, TypeOK, WorkerStates, Active, ReadingStages
  <2>2. QueueTyped'
    BY <1>3, MarkDirtyTyped DEF StartupMark
  <2> QED
    BY <1>3, <2>1, <2>2 DEF StartupMark, TypeOK, QueueTyped, storeVars
<1>4. CASE StartupDone(w)
  BY <1>0, <1>4 DEF StartupDone, Enter, TypeOK, WorkerStates, Active, ReadingStages,
                    storeVars, queueVars
<1>5. ASSUME NEW s \in Sessions, Claim(w, s) PROVE TypeOK'
  <2>1. dirty[s] \in Rows /\ HasRow(s)
    BY <1>5 DEF Claim, Claimable, HasRow, TypeOK
  <2>2. /\ dirty' \in [Sessions -> Rows \cup {NoRow}]
        /\ older' \subseteq Sessions \X Sessions
    BY <1>5, <2>1, SetRowTyped DEF Claim, RowStates
  <2>3. dirty[s].target \in Nat \ {0} /\ epoch[s] \in Nat
    BY <2>1 DEF Rows, TypeOK
  <2>4. worker' \in [Workers -> WorkerStates]
    BY <1>0, <1>5, <2>3, EmptyViewTyped
    DEF Claim, TypeOK, WorkerStates, Active, ReadingStages
  <2> QED
    BY <1>5, <2>2, <2>4 DEF Claim, TypeOK, storeVars
<1>6. CASE Read(w)
  <2>1. worker[w].pc \in Active
    BY <1>6 DEF Read, ReadScope, ReadEvents, ReadEnrichments, ReadFindings, Active, ReadingStages
  <2>2. worker' \in [Workers -> WorkerStates]
    BY <1>6, <2>1, ReadTyped
  <2> QED
    BY <1>6, <2>2 DEF Read, ReadScope, ReadEvents, ReadEnrichments, ReadFindings,
                      TypeOK, storeVars, queueVars
<1>7. CASE Publish(w)
  <2>1. /\ worker[w].session \in Sessions /\ worker[w].view \in Views
        /\ HasRow(worker[w].session)
    BY <1>0, <1>7 DEF Publish, HoldsTarget, WorkerStates
  <2>2. /\ dirty' \in [Sessions -> Rows \cup {NoRow}]
        /\ older' \subseteq Sessions \X Sessions
    BY <1>7, <2>1, SetRowTyped DEF Publish, RowStates, AnalysisStatus
  <2>3. worker' \in [Workers -> WorkerStates]
    BY <1>7, LeaveTyped DEF Publish
  <2> QED
    BY <1>7, <2>1, <2>2, <2>3 DEF Publish, Settle, TypeOK, storeVars
<1>8. CASE Discard(w)
  <2>1. worker' \in [Workers -> WorkerStates]
    BY <1>8, LeaveTyped DEF Discard
  <2>2. budget' \in Budgets
    BY <1>8, SpendTyped DEF Discard, TypeOK
  <2> QED
    BY <1>8, <2>1, <2>2 DEF Discard, TypeOK, storeVars, queueVars
<1>9. CASE PublishAnalysisFailure(w)
  <2>1. worker[w].session \in Sessions /\ HasRow(worker[w].session)
    BY <1>0, <1>9 DEF PublishAnalysisFailure, HoldsTarget, WorkerStates, Active, ReadingStages
  <2>2. /\ dirty' \in [Sessions -> Rows \cup {NoRow}]
        /\ older' \subseteq Sessions \X Sessions
    BY <1>9, <2>1, SetRowTyped DEF PublishAnalysisFailure, RowStates
  <2>3. worker' \in [Workers -> WorkerStates]
    BY <1>9, LeaveTyped DEF PublishAnalysisFailure
  <2>4. budget' \in Budgets
    BY <1>9, SpendTyped DEF PublishAnalysisFailure, TypeOK
  <2> QED
    BY <1>9, <2>1, <2>2, <2>3, <2>4 DEF PublishAnalysisFailure, Settle, TypeOK, storeVars
<1>10. CASE Stop(w)
  <2>1. worker' \in [Workers -> WorkerStates]
    BY <1>10, EmptyViewTyped DEF Stop, Stopped, TypeOK, WorkerStates, Phases
  <2>2. budget' \in Budgets
    BY <1>10, SpendTyped DEF Stop
  <2> QED
    BY <1>10, <2>1, <2>2 DEF Stop, TypeOK, storeVars, queueVars
<1>11. CASE Recovered(w)
  <2>1. worker' \in [Workers -> WorkerStates]
    BY <1>0, <1>11 DEF Recovered, TypeOK, WorkerStates, Phases, Active, ReadingStages
  <2> QED
    BY <1>11, <2>1 DEF Recovered, TypeOK, storeVars, queueVars
<1>12. CASE Abandon(w)
  <2> DEFINE phase == IF worker[w].phase = "recover" THEN "start" ELSE worker[w].phase
  <2>1. phase \in Phases
    BY <1>0 DEF WorkerStates, Phases
  <2>2. [Stopped EXCEPT !.pc = "drain", !.phase = phase] \in WorkerStates
    BY <2>1, EmptyViewTyped DEF Stopped, WorkerStates
  <2>3. worker' \in [Workers -> WorkerStates]
    BY <1>12, <2>2 DEF Abandon, TypeOK
  <2>4. budget' \in Budgets
    BY <1>12, SpendTyped DEF Abandon
  <2> QED
    BY <1>12, <2>3, <2>4 DEF Abandon, TypeOK, storeVars, queueVars
<1> QED
  BY <1>1, <1>2, <1>3, <1>4, <1>5, <1>6, <1>7, <1>8, <1>9, <1>10, <1>11, <1>12
  DEF WorkerNext

(* RetryDue and Prune. *)
LEMMA RetryDueTyped ==
    ASSUME TypeOK, NEW s \in Sessions, RetryDue(s)
    PROVE  TypeOK'
  BY DEF RetryDue, TypeOK, storeVars

(* Retention keeps the types, also of the rows it deletes. *)
LEMMA PruneTyped ==
    ASSUME TypeOK, NEW D \in SUBSET events, NEW F \in SUBSET findings,
           NEW T \in SUBSET PrunableSessions, Prune(D, F, T)
    PROVE  TypeOK'
<1> USE InputsAssumption
<1>1. Affected(D, F, T) \subseteq Sessions
  BY DEF Affected, LostFindings, PrunableSessions, TypeOK
<1>2. \A s \in Sessions : MarkedRow(dirty[s]) \in Rows
  BY AbsentAssumption DEF TypeOK, MarkedRow, Rows, RowStates
<1>3. dirty' \in [Sessions -> Rows \cup {NoRow}]
  BY <1>2 DEF Prune, PrunedRow, TypeOK
<1>4. older' \subseteq Sessions \X Sessions
  BY <1>1 DEF Prune, Touched, TypeOK
<1>5. epoch' \in [Sessions -> Nat]
  BY DEF Prune, TypeOK
<1>6. scope' \in [Sessions -> Scopes]
  BY DEF Prune, TypeOK, Scopes
<1>7. budget' \in Budgets
  BY SpendTyped DEF Prune
<1> QED
  BY <1>3, <1>4, <1>5, <1>6, <1>7 DEF Prune, TypeOK

(* Every step of the system keeps the types. *)
LEMMA NextTyped ==
    ASSUME TypeOK, [Next]_vars
    PROVE  TypeOK'
<1>1. CASE UNCHANGED vars
  BY <1>1 DEF vars, TypeOK
<1>2. CASE Next
  BY <1>2, ImporterTyped, WorkerTyped, RetryDueTyped, PruneTyped DEF Next, RetentionPrune
<1> QED
  BY <1>1, <1>2

(* Every reachable state of the queue is well typed. *)
THEOREM TypeCorrect == Spec => []TypeOK
<1>1. TypeOK /\ [Next]_vars => TypeOK'
  BY NextTyped
<1> QED
  BY InitTyped, <1>1, PTL DEF Spec

-----------------------------------------------------------------------------
(* What a step does to one session: its row and its inputs are kept, or it    *)
(* gets a new target, or retention erases it.                                 *)

Kept(s) ==
    /\ epoch'[s] = epoch[s]
    /\ HasRow(s)' <=> HasRow(s)
    /\ HasRow(s) => dirty'[s].target = dirty[s].target
    /\ scope'[s] = scope[s]
    /\ OfSession(events', s) = OfSession(events, s)
    /\ OfSession(enriched', s) = OfSession(enriched, s)
    /\ FindingsOf(findings, s) \subseteq FindingsOf(findings', s)
    /\ FindingsOf(findings', s) \ FindingsOf(findings, s) \subseteq unmarked'
    /\ FindingsOf(findings, s) \cap unmarked \subseteq unmarked'

Marked(s) ==
    /\ epoch'[s] = epoch[s]
    /\ HasRow(s)'
    /\ dirty'[s].state = "pending"
    /\ HasRow(s) => dirty'[s].target > dirty[s].target

Erased(s) ==
    /\ ~HasRow(s)'
    /\ epoch'[s] = IF HasRow(s) THEN epoch[s] + 1 ELSE epoch[s]
    /\ scope'[s] = NoScope
    /\ OfSession(events', s) = {}

(* A kept row is written by nobody, or by one of the three steps that write   *)
(* the state of a row without marking it.                                     *)
Idle(s) ==
    /\ dirty'[s] = dirty[s]
    /\ basis'[s] = basis[s]
    /\ s \in stale' <=> s \in stale

Settles(w, s) ==
    /\ worker[w].session = s
    /\ Publish(w) \/ PublishAnalysisFailure(w)

Written(s) == \E w \in Workers : Claim(w, s) \/ Settles(w, s)

StepEffect(s) == Erased(s) \/ Marked(s) \/ (Kept(s) /\ (Idle(s) \/ Written(s)))

(* Marking some sessions and leaving all inputs of the others alone. *)
LEMMA MarkEffect ==
    ASSUME TypeOK, NEW T \in SUBSET Sessions, MarkDirty(T),
           UNCHANGED <<epoch, basis>>, NEW s \in Sessions,
           s \notin T => /\ scope'[s] = scope[s]
                       /\ OfSession(events', s) = OfSession(events, s)
                       /\ OfSession(enriched', s) = OfSession(enriched, s)
                       /\ FindingsOf(findings', s) = FindingsOf(findings, s)
    PROVE  StepEffect(s)
<1>1. CASE s \in T
  <2>1. dirty'[s] = MarkedRow(dirty[s])
    BY <1>1 DEF MarkDirty
  <2>2. MarkedRow(dirty[s]) \in Rows
    BY AbsentAssumption DEF TypeOK, MarkedRow, Rows, RowStates
  <2>3. HasRow(s)'
    BY <2>1, <2>2, AbsentAssumption DEF HasRow
  <2>4. HasRow(s) => dirty[s] \in Rows
    BY DEF HasRow, TypeOK
  <2>5. /\ dirty'[s].state = "pending"
        /\ HasRow(s) => dirty'[s].target > dirty[s].target
    BY <2>1, <2>4 DEF MarkedRow, HasRow, Rows
  <2> QED
    BY <2>3, <2>5 DEF StepEffect, Marked
<1>2. CASE s \notin T
  <2>1. dirty'[s] = dirty[s] /\ (s \in stale' <=> s \in stale)
    BY <1>2 DEF MarkDirty
  <2>2. FindingsOf(findings, s) \cap unmarked \subseteq unmarked'
    BY <1>2 DEF MarkDirty, FindingsOf
  <2>3. Kept(s)
    BY <1>2, <2>1, <2>2 DEF Kept, HasRow
  <2> QED
    BY <2>1, <2>3 DEF StepEffect, Idle
<1> QED
  BY <1>1, <1>2

(* A step that leaves the tables alone. *)
LEMMA QuietEffect ==
    ASSUME NEW s \in Sessions, UNCHANGED <<storeVars, queueVars, epoch, basis>>
    PROVE  StepEffect(s)
  BY DEF StepEffect, Kept, Idle, HasRow, storeVars, queueVars

(* The transactions of an importer: whenever they change an input they mark its
   session, but for a finding, which they enter in unmarked. *)
LEMMA ImporterEffect ==
    ASSUME TypeOK, NEW i \in Importers, ImporterNext(i), NEW s \in Sessions
    PROVE  StepEffect(s)
<1> USE InputsAssumption
<1>0. importer[i] \in ImporterStates
  BY DEF TypeOK
<1>1. ASSUME NEW e \in Events, AppendEvent(i, e) PROVE StepEffect(s)
  <2>1. CASE e \in events
    <3>1. events' = events
      BY <1>1, <2>1 DEF AppendEvent
    <3> QED
      BY <1>1, <2>1, <3>1, QuietEffect DEF AppendEvent, storeVars, queueVars
  <2>2. CASE e \notin events
    <3>1. /\ MarkDirty({EventSession[e]})
          /\ events' = events \cup {e}
          /\ UNCHANGED <<scope, enriched, findings, epoch, basis>>
      BY <1>1, <2>2 DEF AppendEvent
    <3>2. s # EventSession[e] => OfSession(events', s) = OfSession(events, s)
      BY <3>1 DEF OfSession
    <3> QED
      BY <3>1, <3>2, MarkEffect
  <2> QED
    BY <2>1, <2>2
<1>2. CASE UpsertSessionScope(i)
  <2> DEFINE t == EventSession[importer[i].item]
             merged == MergeScope(scope[t], EventProject[importer[i].item])
  <2>1. t \in Sessions
    BY <1>0, <1>2 DEF UpsertSessionScope, ImporterStates
  <2>2. /\ scope' = [scope EXCEPT ![t] = merged]
        /\ IF merged = scope[t] THEN UNCHANGED queueVars ELSE MarkDirty({t})
        /\ UNCHANGED <<events, enriched, findings, epoch, basis>>
    BY <1>2 DEF UpsertSessionScope
  <2> HIDE DEF merged, t
  <2>3. CASE merged = scope[t]
    <3>1. scope' = scope
      BY <2>1, <2>2, <2>3 DEF TypeOK
    <3> QED
      BY <2>2, <2>3, <3>1, QuietEffect DEF storeVars, queueVars
  <2>4. CASE merged # scope[t]
    <3>1. s # t => scope'[s] = scope[s]
      BY <2>1, <2>2 DEF TypeOK
    <3> QED
      BY <2>1, <2>2, <2>4, <3>1, MarkEffect
  <2> QED
    BY <2>3, <2>4
<1>3. CASE UpsertEventEnrichment(i)
  <2> DEFINE e == importer[i].item
  <2>1. e \in Events
    BY <1>0, <1>3 DEF UpsertEventEnrichment, ImporterStates
  <2>2. /\ enriched' = enriched \cup (events \cap {e})
        /\ IF e \in events \ enriched
           THEN MarkDirty({EventSession[e]}) ELSE UNCHANGED queueVars
        /\ UNCHANGED <<events, scope, findings, epoch, basis>>
    BY <1>3 DEF UpsertEventEnrichment
  <2> HIDE DEF e
  <2>3. CASE e \in events \ enriched
    <3>1. s # EventSession[e] => OfSession(enriched', s) = OfSession(enriched, s)
      BY <2>2 DEF OfSession
    <3> QED
      BY <2>1, <2>2, <2>3, <3>1, MarkEffect
  <2>4. CASE e \notin events \ enriched
    <3>1. enriched' = enriched
      BY <2>2, <2>4
    <3> QED
      BY <2>2, <2>4, <3>1, QuietEffect DEF storeVars, queueVars
  <2> QED
    BY <2>3, <2>4
<1>4. ASSUME NEW f \in Findings, RecordFinding(i, f) PROVE StepEffect(s)
  <2>1. /\ findings' = findings \cup {f}
        /\ unmarked' = IF f \in findings THEN unmarked ELSE unmarked \cup {f}
        /\ UNCHANGED <<events, scope, enriched, dirty, stale, epoch, basis>>
    BY <1>4 DEF RecordFinding
  <2> QED
    BY <2>1 DEF StepEffect, Kept, Idle, HasRow, FindingsOf
<1>5. CASE MarkFindingSession(i)
  <2>1. importer[i].item \in Findings
    BY <1>0, <1>5 DEF MarkFindingSession, ImporterStates
  <2> QED
    BY <1>5, <2>1, MarkEffect DEF MarkFindingSession, storeVars
<1>6. CASE ImporterStop(i)
  BY <1>6, QuietEffect DEF ImporterStop
<1> QED
  BY <1>1, <1>2, <1>3, <1>4, <1>5, <1>6 DEF ImporterNext

(* A change of the state of one row keeps it. *)
LEMMA SetRowEffect ==
    ASSUME TypeOK, NEW w \in Workers, NEW r \in Sessions, HasRow(r),
           NEW st \in RowStates, SetRow(r, st),
           Claim(w, r) \/ Settles(w, r),
           UNCHANGED <<storeVars, unmarked, epoch>>,
           \A s \in Sessions \ {r} : basis'[s] = basis[s] /\ (s \in stale' <=> s \in stale),
           NEW s \in Sessions
    PROVE  StepEffect(s)
<1>1. dirty[r] \in Rows
  BY DEF TypeOK, HasRow
<1>2. dirty' = [dirty EXCEPT ![r] = [dirty[r] EXCEPT !.state = st]]
  BY DEF SetRow
<1>3. dirty'[r].target = dirty[r].target /\ dirty'[r] # NoRow
  <2>1. dirty'[r] = [dirty[r] EXCEPT !.state = st]
    BY <1>2 DEF TypeOK
  <2>2. /\ [dirty[r] EXCEPT !.state = st].target = dirty[r].target
    BY <1>1 DEF Rows
  <2>3. [dirty[r] EXCEPT !.state = st] # NoRow
    BY <1>1, AbsentAssumption DEF Rows
  <2> QED
    BY <2>1, <2>2, <2>3
<1> QED
  BY <1>2, <1>3 DEF StepEffect, Kept, Idle, Written, HasRow, TypeOK, storeVars

(* A reconciler changes no input; it marks, claims, settles or fails one row. *)
LEMMA WorkerEffect ==
    ASSUME TypeOK, NEW w \in Workers, WorkerNext(w), NEW s \in Sessions
    PROVE  StepEffect(s)
<1>0. worker[w] \in WorkerStates
  BY DEF TypeOK
<1>1. CASE \/ Start(w) \/ Startup(w) \/ StartupDone(w) \/ Recovered(w)
           \/ Read(w) \/ Discard(w) \/ Abandon(w) \/ Stop(w)
  BY <1>1, QuietEffect DEF Start, Startup, StartupDone, Recovered, Read, ReadScope,
     ReadEvents, ReadEnrichments, ReadFindings, Discard, Abandon, Stop
<1>2. ASSUME NEW r \in Sessions, StartupMark(w, r) PROVE StepEffect(s)
  <2>1. MarkDirty({r}) /\ UNCHANGED <<storeVars, epoch, basis>>
    BY <1>2 DEF StartupMark
  <2> QED
    BY <2>1, MarkEffect DEF storeVars
<1>3. ASSUME NEW r \in Sessions, Claim(w, r) PROVE StepEffect(s)
  <2>1. HasRow(r) /\ SetRow(r, "claimed")
    BY <1>3 DEF Claim, Claimable
  <2>2. UNCHANGED <<storeVars, unmarked, epoch, stale, basis>>
    BY <1>3 DEF Claim
  <2> QED
    BY <1>3, <2>1, <2>2, SetRowEffect DEF RowStates
<1>4. CASE Publish(w)
  <2> DEFINE r == worker[w].session
  <2>1. r \in Sessions /\ HasRow(r)
    BY <1>0, <1>4 DEF Publish, HoldsTarget, WorkerStates
  <2>2. /\ SetRow(r, AnalysisStatus(worker[w].view)) /\ Settles(w, r)
        /\ AnalysisStatus(worker[w].view) \in RowStates
    BY <1>4 DEF Publish, Settles, AnalysisStatus, RowStates
  <2>3. UNCHANGED <<storeVars, unmarked, epoch>>
    BY <1>4 DEF Publish
  <2>4. \A t \in Sessions \ {r} : basis'[t] = basis[t] /\ (t \in stale' <=> t \in stale)
    BY <1>4 DEF Publish, Settle, TypeOK
  <2> HIDE DEF r
  <2> QED
    BY <2>1, <2>2, <2>3, <2>4, SetRowEffect
<1>5. CASE PublishAnalysisFailure(w)
  <2> DEFINE r == worker[w].session
  <2>1. r \in Sessions /\ HasRow(r)
    BY <1>0, <1>5 DEF PublishAnalysisFailure, HoldsTarget, WorkerStates, Active, ReadingStages
  <2>2. SetRow(r, "failed") /\ Settles(w, r)
    BY <1>5 DEF PublishAnalysisFailure, Settles
  <2>3. UNCHANGED <<storeVars, unmarked, epoch>>
    BY <1>5 DEF PublishAnalysisFailure
  <2>4. \A t \in Sessions \ {r} : basis'[t] = basis[t] /\ (t \in stale' <=> t \in stale)
    BY <1>5 DEF PublishAnalysisFailure, Settle, TypeOK
  <2> HIDE DEF r
  <2> QED
    BY <2>1, <2>2, <2>3, <2>4, SetRowEffect DEF RowStates
<1> QED
  BY <1>1, <1>2, <1>3, <1>4, <1>5 DEF WorkerNext

(* Retention marks the sessions it takes an input from and erases the rows of
   those it empties. *)
LEMMA PruneEffect ==
    ASSUME TypeOK, NEW D \in SUBSET events, NEW F \in SUBSET findings,
           NEW T \in SUBSET PrunableSessions, Prune(D, F, T), NEW s \in Sessions
    PROVE  StepEffect(s)
<1> USE InputsAssumption
<1>1. dirty'[s] = PrunedRow(s, D, F, T)
  BY DEF Prune
<1>2. CASE s \in Emptied(D)
  <2>1. ~HasRow(s)'
    BY <1>1, <1>2 DEF PrunedRow, HasRow
  <2>2. epoch'[s] = IF HasRow(s) THEN epoch[s] + 1 ELSE epoch[s]
    BY <1>2 DEF Prune
  <2>3. scope'[s] = NoScope /\ OfSession(events', s) = {}
    BY <1>2 DEF Prune, Emptied
  <2> QED
    BY <2>1, <2>2, <2>3 DEF StepEffect, Erased
<1>3. CASE s \notin Emptied(D) /\ s \in Affected(D, F, T)
  <2>1. dirty'[s] = MarkedRow(dirty[s]) /\ epoch'[s] = epoch[s]
    BY <1>1, <1>3 DEF PrunedRow, Prune
  <2>2. MarkedRow(dirty[s]) \in Rows
    BY AbsentAssumption DEF TypeOK, MarkedRow, Rows, RowStates
  <2>3. HasRow(s)'
    BY <2>1, <2>2, AbsentAssumption DEF HasRow
  <2>4. HasRow(s) => dirty[s] \in Rows
    BY DEF HasRow, TypeOK
  <2>5. /\ dirty'[s].state = "pending"
        /\ HasRow(s) => dirty'[s].target > dirty[s].target
    BY <2>1, <2>4 DEF MarkedRow, HasRow, Rows
  <2> QED
    BY <2>1, <2>3, <2>5 DEF StepEffect, Marked
<1>4. CASE s \notin Emptied(D) /\ s \notin Affected(D, F, T)
  <2>1. /\ dirty'[s] = dirty[s] /\ epoch'[s] = epoch[s] /\ scope'[s] = scope[s]
        /\ (s \in stale' <=> s \in stale) /\ basis' = basis
    BY <1>1, <1>4 DEF PrunedRow, Prune
  <2>2. \A e \in D : EventSession[e] # s
    BY <1>4 DEF Affected
  <2>3. \A f \in LostFindings(D, F) : EventSession[FindingEvent[f]] # s
    BY <1>4 DEF Affected
  <2>4. /\ OfSession(events', s) = OfSession(events, s)
        /\ OfSession(enriched', s) = OfSession(enriched, s)
    BY <2>2 DEF Prune, OfSession
  <2>5. FindingsOf(findings', s) = FindingsOf(findings, s)
    BY <2>3 DEF Prune, FindingsOf
  <2>6. FindingsOf(findings, s) \cap unmarked \subseteq unmarked'
    BY <1>4, <2>3 DEF Prune, FindingsOf
  <2> QED
    BY <2>1, <2>4, <2>5, <2>6 DEF StepEffect, Kept, Idle, HasRow
<1> QED
  BY <1>2, <1>3, <1>4

(* What one step of anybody does to the row and to the inputs of a session. *)
LEMMA NextEffect ==
    ASSUME TypeOK, [Next]_vars, NEW s \in Sessions
    PROVE  StepEffect(s)
<1>1. CASE UNCHANGED vars
  BY <1>1, QuietEffect DEF vars, storeVars, queueVars
<1>2. CASE \E i \in Importers : ImporterNext(i)
  BY <1>2, ImporterEffect
<1>3. CASE \E w \in Workers : WorkerNext(w)
  BY <1>3, WorkerEffect
<1>4. CASE \E r \in Sessions : RetryDue(r)
  <2>1. UNCHANGED <<storeVars, dirty, stale, unmarked, epoch, basis>>
    BY <1>4 DEF RetryDue
  <2> QED
    BY <2>1 DEF StepEffect, Kept, Idle, HasRow, storeVars
<1>5. CASE RetentionPrune
  BY <1>5, PruneEffect DEF RetentionPrune
<1> QED
  BY <1>1, <1>2, <1>3, <1>4, <1>5 DEF Next

(* What a step does to one process: while it is busy its claim is the one it  *)
(* had before, or the one it has just taken.                                  *)
SameJob(w) ==
    /\ worker[w].pc \in Active
    /\ worker'[w].session = worker[w].session
    /\ worker'[w].target = worker[w].target
    /\ worker'[w].epoch = worker[w].epoch
    /\ \/ worker'[w] = worker[w]
       \/ Read(w)

NewJob(w) ==
    \E s \in Sessions :
        /\ Claim(w, s)
        /\ worker'[w].pc = "scope"
        /\ worker'[w].session = s
        /\ worker'[w].target = dirty[s].target
        /\ worker'[w].epoch = epoch[s]

(* What one step does to what a worker is doing. *)
LEMMA JobEffect ==
    ASSUME TypeOK, [Next]_vars, NEW w \in Workers, worker'[w].pc \in Active
    PROVE  SameJob(w) \/ NewJob(w)
<1>0. worker[w] \in WorkerStates
  BY DEF TypeOK
<1>1. CASE worker'[w] = worker[w]
  BY <1>1 DEF SameJob
<1>2. ASSUME NEW v \in Workers, WorkerNext(v), v # w PROVE worker'[w] = worker[w]
  BY <1>2 DEF WorkerNext, Start, Enter, Startup, StartupMark, StartupDone, Recovered, Claim,
     Read, ReadScope, ReadEvents, ReadEnrichments, ReadFindings, Publish, Leave, Discard,
     PublishAnalysisFailure, Abandon, Stop, TypeOK
<1>3. CASE WorkerNext(w)
  <2>1. CASE Read(w)
    <3>1. worker[w].pc \in Active
      BY <2>1 DEF Read, ReadScope, ReadEvents, ReadEnrichments, ReadFindings,
                  Active, ReadingStages
    <3>2. /\ worker'[w].session = worker[w].session
          /\ worker'[w].target = worker[w].target
          /\ worker'[w].epoch = worker[w].epoch
      BY <1>0, <2>1 DEF Read, ReadScope, ReadEvents, ReadEnrichments, ReadFindings,
                  TypeOK, WorkerStates
    <3> QED
      BY <2>1, <3>1, <3>2 DEF SameJob
  <2>2. ASSUME NEW s \in Sessions, Claim(w, s) PROVE NewJob(w)
    BY <1>0, <2>2 DEF NewJob, Claim, TypeOK, WorkerStates
  <2>3. CASE Start(w) \/ StartupDone(w) \/ Recovered(w)
    BY <1>0, <2>3 DEF Start, StartupDone, Recovered, Enter, TypeOK, WorkerStates,
                      Active, ReadingStages
  <2>4. CASE Startup(w)
    BY <1>0, <2>4 DEF Startup, TypeOK, WorkerStates, Active, ReadingStages
  <2>5. ASSUME NEW s \in Sessions, StartupMark(w, s) PROVE FALSE
    BY <1>0, <2>5 DEF StartupMark, TypeOK, WorkerStates, Active, ReadingStages
  <2>6. CASE Publish(w) \/ Discard(w) \/ PublishAnalysisFailure(w)
    BY <2>6 DEF Publish, Discard, PublishAnalysisFailure, Leave, Stopped, TypeOK,
                Active, ReadingStages
  <2>7. CASE Abandon(w)
    <3>1. PICK phase : worker'[w] = [Stopped EXCEPT !.pc = "drain", !.phase = phase]
      BY <2>7 DEF Abandon, TypeOK
    <3> QED
      BY <3>1 DEF Stopped, Active, ReadingStages
  <2>8. CASE Stop(w)
    BY <2>8 DEF Stop, Stopped, TypeOK, Active, ReadingStages
  <2> QED
    BY <1>3, <2>1, <2>2, <2>3, <2>4, <2>5, <2>6, <2>7, <2>8 DEF WorkerNext
<1>4. CASE ~ \E v \in Workers : WorkerNext(v)
  BY <1>1, <1>4 DEF Next, ImporterNext, AppendEvent, UpsertSessionScope,
     UpsertEventEnrichment, RecordFinding, MarkFindingSession, ImporterStop,
     RetryDue, RetentionPrune, Prune, vars
<1> QED
  BY <1>1, <1>2, <1>3, <1>4

-----------------------------------------------------------------------------
(* The invariant. *)

References == enriched \subseteq events /\ \A f \in findings : FindingEvent[f] \in events

(* Enrichments and findings never outlive the event they belong to. *)
LEMMA ReferencesKept ==
    ASSUME TypeOK, References, [Next]_vars
    PROVE  References'
<1>1. CASE UNCHANGED storeVars
  BY <1>1 DEF References, storeVars
<1>2. ASSUME NEW i \in Importers, ImporterNext(i) PROVE References'
  BY <1>2 DEF References, ImporterNext, AppendEvent, UpsertSessionScope,
     UpsertEventEnrichment, RecordFinding, MarkFindingSession, ImporterStop, storeVars
<1>3. ASSUME NEW w \in Workers, WorkerNext(w) PROVE UNCHANGED storeVars
  BY <1>3 DEF WorkerNext, Start, Startup, StartupMark, StartupDone, Recovered, Claim, Read,
     ReadScope, ReadEvents, ReadEnrichments, ReadFindings, Publish, Discard,
     PublishAnalysisFailure, Abandon, Stop
<1>4. ASSUME NEW D \in SUBSET events, NEW F \in SUBSET findings,
             NEW T \in SUBSET PrunableSessions, Prune(D, F, T)
      PROVE  References'
  BY <1>4 DEF References, Prune, LostFindings
<1> QED
  BY <1>1, <1>2, <1>3, <1>4 DEF Next, RetryDue, RetentionPrune, vars, storeVars

(* No step leaves an input without a queue row. *)
LEMMA InputsHaveRowKept ==
    ASSUME TypeOK, InputsHaveRow, [Next]_vars
    PROVE  InputsHaveRow'
<1> USE InputsAssumption
<1>1. References'
  BY ReferencesKept DEF InputsHaveRow, References
<1>2. ASSUME NEW e \in events' PROVE HasRow(EventSession[e])'
  <2> DEFINE s == EventSession[e]
  <2>1. e \in Events
    BY NextTyped DEF TypeOK
  <2>2. s \in Sessions /\ e \in OfSession(events', s)
    BY <1>2, <2>1 DEF OfSession
  <2> HIDE DEF s
  <2>3. StepEffect(s)
    BY <2>2, NextEffect
  <2>4. CASE Kept(s)
    <3>1. e \in events /\ EventSession[e] = s
      BY <2>2, <2>4 DEF Kept, OfSession
    <3> QED
      BY <2>4, <3>1 DEF Kept, InputsHaveRow
  <2> QED
    BY <2>2, <2>3, <2>4 DEF StepEffect, Marked, Erased, s
<1>3. ASSUME NEW s \in Sessions, scope'[s] # NoScope PROVE HasRow(s)'
  <2>1. StepEffect(s)
    BY NextEffect
  <2> QED
    BY <1>3, <2>1 DEF StepEffect, Kept, Marked, Erased, InputsHaveRow
<1> QED
  BY <1>1, <1>2, <1>3 DEF InputsHaveRow, References

(* No step takes the target of a row back below a claim made on that row. *)
LEMMA ClaimsBoundedKept ==
    ASSUME TypeOK, ClaimsBounded, [Next]_vars
    PROVE  ClaimsBounded'
<1>0. TypeOK'
  BY NextTyped
<1> SUFFICES ASSUME NEW w \in Workers, worker'[w].pc \in Active,
                    NEW s \in Sessions, worker'[w].session = s
             PROVE  /\ worker'[w].epoch <= epoch'[s]
                    /\ worker'[w].epoch = epoch'[s] =>
                         dirty'[s] # NoRow /\ worker'[w].target <= dirty'[s].target
  <2>1. ASSUME NEW w \in Workers, worker'[w].pc \in Active
        PROVE  worker'[w].session \in Sessions
    BY <1>0, <2>1 DEF TypeOK, WorkerStates, Active, ReadingStages
  <2> QED
    BY <2>1 DEF ClaimsBounded, HasRow
<1>1. worker'[w].epoch \in Nat /\ worker'[w].target \in Nat
  BY <1>0 DEF TypeOK, WorkerStates, Active, ReadingStages
<1>2. /\ epoch[s] \in Nat
      /\ dirty[s] # NoRow => dirty[s] \in Rows
      /\ dirty'[s] # NoRow => dirty'[s] \in Rows
  BY <1>0 DEF TypeOK
<1>3. /\ dirty[s] # NoRow => dirty[s].target \in Nat
      /\ dirty'[s] # NoRow => dirty'[s].target \in Nat
  BY <1>2 DEF Rows
<1>4. StepEffect(s)
  BY NextEffect
<1>5. CASE SameJob(w)
  <2>1. /\ worker'[w].epoch <= epoch[s]
        /\ worker'[w].epoch = epoch[s] =>
             dirty[s] # NoRow /\ worker'[w].target <= dirty[s].target
    BY <1>5 DEF SameJob, ClaimsBounded, HasRow
  <2>2. CASE Erased(s)
    BY <1>1, <1>2, <2>1, <2>2 DEF Erased, HasRow
  <2>3. CASE Marked(s)
    BY <1>1, <1>2, <1>3, <2>1, <2>3 DEF Marked, HasRow
  <2>4. CASE Kept(s)
    BY <1>1, <1>2, <2>1, <2>4 DEF Kept, HasRow
  <2> QED
    BY <1>4, <2>2, <2>3, <2>4 DEF StepEffect
<1>6. CASE NewJob(w)
  <2>1. /\ Claim(w, s) /\ worker'[w].epoch = epoch[s]
        /\ worker'[w].target = dirty[s].target /\ dirty[s] # NoRow
    BY <1>6 DEF NewJob, Claim, Claimable, HasRow
  <2>2. epoch' = epoch
    BY <2>1 DEF Claim
  <2>3. dirty'[s].target = dirty[s].target /\ dirty'[s] # NoRow
    <3>1. dirty'[s] = [dirty[s] EXCEPT !.state = "claimed"]
      BY <2>1 DEF Claim, SetRow, TypeOK
    <3>2. [dirty[s] EXCEPT !.state = "claimed"] \in Rows
      BY <1>2, <2>1 DEF Rows, RowStates
    <3>3. [dirty[s] EXCEPT !.state = "claimed"].target = dirty[s].target
      BY <1>2, <2>1 DEF Rows
    <3> QED
      BY <3>1, <3>2, <3>3, AbsentAssumption
  <2> QED
    BY <1>1, <1>2, <1>3, <2>1, <2>2, <2>3
<1> QED
  BY <1>5, <1>6, JobEffect

(* What has been read stays fresh as long as the session is kept ... *)
LEMMA FreshKept ==
    ASSUME NEW s \in Sessions, NEW view, NEW pc, Kept(s), Fresh(s, view, pc)
    PROVE  Fresh(s, view, pc)'
<1>1. pc \in FromStage.findings =>
        /\ view.findings \subseteq FindingsOf(findings', s)
        /\ FindingsOf(findings', s) \ view.findings \subseteq unmarked'
  BY DEF Fresh, Kept
<1>2. Oversized(view)' <=> Oversized(view)
  BY DEF Oversized
<1> QED
  BY <1>1, <1>2 DEF Fresh, Kept

(* ... and each read adds a fresh part. *)
LEMMA FreshRead ==
    ASSUME TypeOK, NEW w \in Workers, worker[w].pc \in Active, Read(w),
           Fresh(worker[w].session, worker[w].view, worker[w].pc)
    PROVE  Fresh(worker[w].session, worker'[w].view, worker'[w].pc)
<1>1. /\ worker[w].view \in Views
      /\ worker[w] \in [pc : Active, phase : Phases, todo : SUBSET Sessions,
                        session : Sessions, target : Nat \ {0}, epoch : Nat, view : Views]
  BY DEF TypeOK, WorkerStates, Active, ReadingStages
<1>2. CASE ReadScope(w)
  BY <1>1, <1>2 DEF ReadScope, Fresh, FromStage, TypeOK, Views
<1>3. CASE ReadEvents(w)
  BY <1>1, <1>3 DEF ReadEvents, Fresh, FromStage, TypeOK, Views, Oversized
<1>4. CASE ReadEnrichments(w)
  BY <1>1, <1>4 DEF ReadEnrichments, Fresh, FromStage, TypeOK, Views, Oversized
<1>5. CASE ReadFindings(w)
  BY <1>1, <1>5 DEF ReadFindings, Fresh, FromStage, TypeOK, Views, Oversized
<1> QED
  BY <1>2, <1>3, <1>4, <1>5 DEF Read

(* A claim that survives a step was a claim before, and its session is kept. *)
LEMMA ClaimSurvives ==
    ASSUME TypeOK, ClaimsBounded, [Next]_vars, NEW w \in Workers, SameJob(w),
           NEW s \in Sessions, worker[w].session = s,
           dirty'[s] # NoRow, dirty'[s].target = worker[w].target,
           worker[w].epoch = epoch'[s]
    PROVE  Kept(s) /\ SameClaim(w)
<1>1. StepEffect(s)
  BY NextEffect
<1>2. /\ worker[w].epoch <= epoch[s]
      /\ worker[w].epoch = epoch[s] =>
           dirty[s] # NoRow /\ worker[w].target <= dirty[s].target
  BY DEF SameJob, ClaimsBounded, HasRow
<1>3. /\ worker[w].target \in Nat /\ epoch[s] \in Nat
      /\ dirty[s] # NoRow => dirty[s].target \in Nat
  BY DEF SameJob, TypeOK, WorkerStates, Active, ReadingStages, Rows
<1>4. TypeOK'
  BY NextTyped
<1>5. dirty'[s].target \in Nat
  BY <1>4 DEF TypeOK, Rows
<1>6. ~Erased(s)
  BY DEF Erased, HasRow
<1>7. ~Marked(s)
  BY <1>2, <1>3, <1>5 DEF Marked, HasRow
<1>8. Kept(s)
  BY <1>1, <1>6, <1>7 DEF StepEffect
<1> QED
  BY <1>2, <1>8 DEF Kept, SameClaim, SameJob, HoldsTarget, HasRow

(* Whoever may still publish has read what is stored, after every step. *)
LEMMA ReadsFreshKept ==
    ASSUME TypeOK, ClaimsBounded, ReadsFresh, [Next]_vars
    PROVE  ReadsFresh'
<1>0. TypeOK'
  BY NextTyped
<1> SUFFICES ASSUME NEW w \in Workers, SameClaim(w)'
             PROVE  Fresh(worker[w].session, worker[w].view, worker[w].pc)'
  BY DEF ReadsFresh
<1>1. worker'[w].pc \in Active
  BY DEF SameClaim
<1>2. PICK s \in Sessions : worker'[w].session = s
  BY <1>0, <1>1 DEF TypeOK, WorkerStates, Active, ReadingStages
<1>3. /\ dirty'[s] # NoRow /\ dirty'[s].target = worker'[w].target
      /\ worker'[w].epoch = epoch'[s]
  BY <1>2 DEF SameClaim, HoldsTarget, HasRow
<1>4. CASE SameJob(w)
  <2>1. worker[w].session = s
    BY <1>2, <1>4 DEF SameJob
  <2>2. Kept(s) /\ SameClaim(w)
    BY <1>3, <1>4, <2>1, ClaimSurvives DEF SameJob
  <2>3. Fresh(s, worker[w].view, worker[w].pc)
    BY <2>1, <2>2 DEF ReadsFresh
  <2>4. Fresh(s, worker'[w].view, worker'[w].pc)
    BY <1>4, <2>1, <2>3, FreshRead DEF SameJob
  <2>5. PICK view, pc : view = worker'[w].view /\ pc = worker'[w].pc
    OBVIOUS
  <2>6. Fresh(s, view, pc)'
    BY <2>2, <2>4, <2>5, FreshKept
  <2> QED
    BY <1>2, <2>5, <2>6
<1>5. CASE NewJob(w)
  <2>1. worker'[w].pc = "scope"
    BY <1>5 DEF NewJob
  <2> QED
    BY <2>1 DEF Fresh, FromStage
<1> QED
  BY <1>1, <1>4, <1>5, JobEffect

(* The state a step gives to the row of s, when it writes only that. *)
LEMMA SetRowState ==
    ASSUME TypeOK, NEW s \in Sessions, HasRow(s), NEW st, SetRow(s, st)
    PROVE  dirty'[s].state = st
<1>1. dirty[s] \in Rows
  BY DEF TypeOK, HasRow
<1>2. dirty'[s] = [dirty[s] EXCEPT !.state = st]
  BY DEF SetRow, TypeOK
<1> QED
  BY <1>1, <1>2 DEF Rows

(* No step publishes outdated inputs or changes those of a current session. *)
LEMMA CurrentCoversInputsKept ==
    ASSUME TypeOK, ReadsFresh, CurrentCoversInputs, [Next]_vars
    PROVE  CurrentCoversInputs'
<1> SUFFICES ASSUME NEW s \in Sessions, s \notin stale', HasRow(s)',
                    dirty'[s].state = "current"
             PROVE  /\ basis'[s].scope = scope'[s]
                    /\ basis'[s].events = OfSession(events', s)
                    /\ basis'[s].enriched = OfSession(enriched', s)
                    /\ basis'[s].findings \subseteq FindingsOf(findings', s)
                    /\ FindingsOf(findings', s) \ basis'[s].findings \subseteq unmarked'
  BY DEF CurrentCoversInputs
<1>1. StepEffect(s)
  BY NextEffect
<1>2. ~Erased(s) /\ ~Marked(s)
  BY DEF Erased, Marked
<1>3. CASE Kept(s) /\ Idle(s)
  BY <1>3 DEF Kept, Idle, CurrentCoversInputs
<1>4. ASSUME NEW w \in Workers, Claim(w, s) PROVE FALSE
  <2>1. HasRow(s) /\ SetRow(s, "claimed")
    BY <1>4 DEF Claim, Claimable
  <2> QED
    BY <2>1, SetRowState
<1>5. ASSUME NEW w \in Workers, worker[w].session = s, PublishAnalysisFailure(w)
      PROVE  FALSE
  <2>1. HasRow(s) /\ SetRow(s, "failed")
    BY <1>5 DEF PublishAnalysisFailure, HoldsTarget
  <2> QED
    BY <2>1, SetRowState
<1>6. ASSUME NEW w \in Workers, worker[w].session = s, Publish(w)
      PROVE  /\ basis'[s].scope = scope'[s]
             /\ basis'[s].events = OfSession(events', s)
             /\ basis'[s].enriched = OfSession(enriched', s)
             /\ basis'[s].findings \subseteq FindingsOf(findings', s)
             /\ FindingsOf(findings', s) \ basis'[s].findings \subseteq unmarked'
  <2> DEFINE view == worker[w].view
  <2>1. HasRow(s) /\ SetRow(s, AnalysisStatus(view)) /\ HoldsTarget(w)
    BY <1>6 DEF Publish, HoldsTarget
  <2>2. ~Oversized(view)
    <3>1. dirty'[s].state = AnalysisStatus(view)
      BY <2>1, SetRowState
    <3> QED
      BY <3>1 DEF AnalysisStatus
  <2>3. worker[w].epoch = epoch[s]
    BY <1>6 DEF Publish, Settle
  <2>4. SameClaim(w) /\ worker[w].pc = "publish"
    BY <1>6, <2>1, <2>3 DEF SameClaim, Publish, Active
  <2>5. Fresh(s, view, "publish")
    BY <1>6, <2>4 DEF ReadsFresh
  <2>6. basis'[s] = view /\ UNCHANGED <<storeVars, unmarked>>
    BY <1>6 DEF Publish, TypeOK
  <2> QED
    BY <2>2, <2>5, <2>6 DEF Fresh, FromStage, storeVars
<1> QED
  BY <1>1, <1>2, <1>3, <1>4, <1>5, <1>6 DEF StepEffect, Written, Settles

(* A process that holds a session after a step held it before, unless it has  *)
(* just claimed it; and nobody else's write reached the row.                  *)
LEMMA HolderSurvives ==
    ASSUME TypeOK, ClaimsBounded, ExclusiveClaim, [Next]_vars, NEW w \in Workers,
           SameJob(w), NEW s \in Sessions, worker[w].session = s, Holder(w)'
    PROVE  Holder(w) /\ dirty'[s] = dirty[s]
<1>1. /\ worker'[w].session = s /\ s \notin stale'
      /\ dirty'[s] # NoRow /\ dirty'[s].target = worker[w].target
      /\ worker[w].epoch = epoch'[s]
  BY DEF Holder, SameClaim, HoldsTarget, HasRow, SameJob
<1>2. Kept(s) /\ SameClaim(w)
  BY <1>1, ClaimSurvives
<1>3. StepEffect(s) /\ ~Erased(s)
  BY <1>1, NextEffect DEF Erased, HasRow
<1>4. ~Marked(s)
  <2>1. TypeOK'
    BY NextTyped
  <2>2. dirty[s].target \in Nat
    BY <1>2 DEF SameClaim, HoldsTarget, HasRow, TypeOK, Rows
  <2> QED
    BY <1>2, <2>2 DEF Kept, Marked, SameClaim, HoldsTarget
<1>5. CASE Idle(s)
  BY <1>1, <1>2, <1>5 DEF Idle, Holder
<1>6. ASSUME NEW v \in Workers, Claim(v, s) PROVE FALSE
  <2>1. s \notin stale
    BY <1>1, <1>6 DEF Claim
  <2>2. dirty[s].state = "claimed"
    BY <1>2, <2>1 DEF Holder, ExclusiveClaim
  <2> QED
    BY <1>6, <2>2 DEF Claim, Claimable
<1>7. ASSUME NEW v \in Workers, Settles(v, s) PROVE FALSE
  <2>1. worker[v].epoch = epoch[s] /\ s \notin stale
    BY <1>1, <1>7 DEF Settles, Publish, PublishAnalysisFailure, Settle
  <2>2. Holder(v) /\ Holder(w)
    BY <1>2, <1>7, <2>1
    DEF Settles, Publish, PublishAnalysisFailure, Holder, SameClaim, Active
  <2>3. v = w
    BY <1>7, <2>2 DEF ExclusiveClaim, Settles
  <2>4. worker'[w].pc = "drain"
    BY <1>7, <2>3 DEF Settles, Publish, PublishAnalysisFailure, Leave, Stopped, TypeOK
  <2> QED
    BY <2>4 DEF Holder, SameClaim, Active, ReadingStages
<1> QED
  BY <1>3, <1>4, <1>5, <1>6, <1>7 DEF StepEffect, Written

(* No step gives a row that is being worked on to a second worker. *)
LEMMA ExclusiveClaimKept ==
    ASSUME TypeOK, ClaimsBounded, ExclusiveClaim, [Next]_vars
    PROVE  ExclusiveClaim'
<1>0. TypeOK'
  BY NextTyped
<1>1. ASSUME NEW w \in Workers, Holder(w)'
      PROVE  /\ worker'[w].session \in Sessions
             /\ SameJob(w) \/ NewJob(w)
  <2>1. worker'[w].pc \in Active
    BY <1>1 DEF Holder, SameClaim
  <2> QED
    BY <1>0, <2>1, JobEffect DEF TypeOK, WorkerStates, Active, ReadingStages
<1>2. ASSUME NEW w \in Workers, Holder(w)', SameJob(w)
      PROVE  Holder(w) /\ dirty'[worker[w].session] = dirty[worker[w].session]
  BY <1>1, <1>2, HolderSurvives DEF SameJob
<1>3. ASSUME NEW w \in Workers, Holder(w)', NewJob(w)
      PROVE  dirty'[worker'[w].session].state = "claimed"
  <2>1. PICK s \in Sessions : Claim(w, s) /\ worker'[w].session = s
    BY <1>3 DEF NewJob
  <2>2. HasRow(s) /\ SetRow(s, "claimed")
    BY <2>1 DEF Claim, Claimable
  <2> QED
    BY <2>1, <2>2, SetRowState
<1>4. ASSUME NEW w \in Workers, Holder(w)'
      PROVE  dirty'[worker'[w].session].state = "claimed"
  BY <1>1, <1>2, <1>3, <1>4 DEF SameJob, ExclusiveClaim
<1>5. ASSUME NEW v \in Workers, NEW w \in Workers, Holder(v)', Holder(w)',
             worker'[v].session = worker'[w].session, NewJob(v), SameJob(w)
      PROVE  FALSE
  <2>1. PICK s \in Sessions : Claim(v, s) /\ worker'[v].session = s
    BY <1>5 DEF NewJob
  <2>2. Holder(w) /\ worker[w].session = s
    BY <1>2, <1>5, <2>1 DEF SameJob
  <2>3. dirty[s].state = "claimed"
    BY <2>2 DEF ExclusiveClaim
  <2> QED
    BY <2>1, <2>3 DEF Claim, Claimable
<1>6. ASSUME NEW v \in Workers, NEW w \in Workers, Holder(v)', Holder(w)',
             NewJob(v), NewJob(w)
      PROVE  v = w
  <2> SUFFICES ASSUME v # w PROVE FALSE
    OBVIOUS
  <2>1. PICK s \in Sessions : Claim(v, s)
    BY <1>6 DEF NewJob
  <2>2. PICK r \in Sessions : Claim(w, r)
    BY <1>6 DEF NewJob
  <2>3. worker'[w] = worker[w]
    BY <2>1 DEF Claim, TypeOK
  <2>4. worker[w].pc = "drain" /\ worker'[w].pc = "scope"
    BY <1>6, <2>2 DEF NewJob, Claim
  <2> QED
    BY <2>3, <2>4
<1>7. ASSUME NEW v \in Workers, NEW w \in Workers, Holder(v)', Holder(w)',
             worker'[v].session = worker'[w].session
      PROVE  v = w
  <2>1. CASE SameJob(v) /\ SameJob(w)
    BY <1>2, <1>7, <2>1 DEF SameJob, ExclusiveClaim
  <2> QED
    BY <1>1, <1>5, <1>6, <1>7, <2>1
<1> QED
  BY <1>4, <1>7 DEF ExclusiveClaim

-----------------------------------------------------------------------------
Safe == TypeOK /\ QueueInv

(* The inductive invariant holds in an empty store. *)
LEMMA InitSafe == Init => Safe
<1> SUFFICES ASSUME Init PROVE QueueInv
  BY InitTyped DEF Safe
<1>1. \A w \in Workers : worker[w].pc \notin Active
  BY DEF Init, Stopped, Active, ReadingStages
<1> QED
  BY <1>1 DEF Init, QueueInv, InputsHaveRow, ClaimsBounded, ReadsFresh, SameClaim, Holder,
              CurrentCoversInputs, ExclusiveClaim, HasRow

(* The inductive invariant is kept by every step. *)
LEMMA SafeKept == Safe /\ [Next]_vars => Safe'
  BY NextTyped, InputsHaveRowKept, ClaimsBoundedKept, ReadsFreshKept,
     CurrentCoversInputsKept, ExclusiveClaimKept
  DEF Safe, QueueInv

(* The invariant of the queue holds in every reachable state. *)
THEOREM QueueInvariant == Spec => []QueueInv
<1>1. Safe => QueueInv
  BY DEF Safe
<1> QED
  BY InitSafe, SafeKept, <1>1, PTL DEF Spec

(* A session shown as current was analysed on exactly what is stored, unless  *)
(* a claim on an erased row settled it.                                       *)
THEOREM CurrentIsCurrent == Spec => []CurrentCoversInputs
<1>1. Safe => CurrentCoversInputs
  BY DEF Safe, QueueInv
<1> QED
  BY InitSafe, SafeKept, <1>1, PTL DEF Spec

(* Two processes never hold the same target of the same row.                  *)
THEOREM ClaimsAreExclusive == Spec => []ExclusiveClaim
<1>1. Safe => ExclusiveClaim
  BY DEF Safe, QueueInv
<1> QED
  BY InitSafe, SafeKept, <1>1, PTL DEF Spec
=============================================================================
