-------------------------- MODULE Acquisition_proofs --------------------------
(***************************************************************************)
(* Any number of "belay local" processes with any workers: at most one of   *)
(* them runs workers at a time.  And whoever analyses projects whose         *)
(* transcripts go on: what is shown as current fits the transcripts.  And   *)
(* however many tailers read a spool that is rotated, truncated and written: *)
(* no cursor passes over a line.                                             *)
(***************************************************************************)
EXTENDS IntelligenceLease, IssueAnalysis, LiveTail, FiniteSetTheorems, SequenceTheorems,
        WellFoundedInduction, TLAPS

-----------------------------------------------------------------------------
(* The lease.                                                                *)

(* The inductive invariant.  A process is past the lease exactly while the   *)
(* lease is its own, and its workers run in one phase only: what returns,    *)
(* releases or dies has no worker left.                                      *)
OwnersHoldLease ==
    \A p \in Processes :
        /\ runtime[p] \in {"own", "run", "release"} <=> lease = p
        /\ running[p] # {} => runtime[p] = "run"

LeaseInv == LeaseTypeOK /\ OwnersHoldLease

-----------------------------------------------------------------------------
LEMMA LeaseInitially ==
    ASSUME LeaseAssumption, LeaseInit
    PROVE  LeaseInv
BY DEF LeaseAssumption, LeaseInit, LeaseInv, LeaseTypeOK, OwnersHoldLease, Phases

(* The processes that a step leaves alone keep what they have.               *)
LEMMA StepKeepsLease ==
    ASSUME LeaseAssumption, LeaseInv, [LeaseNext]_leaseVars
    PROVE  LeaseInv'
<1> USE DEF LeaseAssumption, LeaseInv, LeaseTypeOK, OwnersHoldLease, Phases
<1>1. CASE Inspect
  BY <1>1 DEF Inspect
<1>2. CASE InspectReleases
  BY <1>2 DEF InspectReleases
<1>3. ASSUME NEW p \in Processes, TryAcquire(p)
      PROVE  LeaseInv'
  BY <1>3 DEF TryAcquire
<1>4. ASSUME NEW p \in Processes, StartWorkers(p)
      PROVE  LeaseInv'
  BY <1>4 DEF StartWorkers
<1>5. ASSUME NEW p \in Processes, StartFails(p)
      PROVE  LeaseInv'
  BY <1>5 DEF StartFails
<1>6. ASSUME NEW p \in Processes, OwnerReturns(p)
      PROVE  LeaseInv'
  BY <1>6 DEF OwnerReturns, OwnerDone
<1>7. ASSUME NEW p \in Processes, Release(p)
      PROVE  LeaseInv'
  BY <1>7 DEF Release, Released
<1>8. ASSUME NEW p \in Processes, Interrupt(p)
      PROVE  LeaseInv'
  BY <1>8 DEF Interrupt
<1>9. ASSUME NEW p \in Processes, Dies(p)
      PROVE  LeaseInv'
  BY <1>9 DEF Dies
<1>10. ASSUME NEW p \in Processes, NEW w \in Workers, WorkerEnds(p, w)
       PROVE  LeaseInv'
  BY <1>10 DEF WorkerEnds
<1>11. CASE UNCHANGED leaseVars
  BY <1>11 DEF leaseVars
<1> QED
  BY <1>1, <1>2, <1>3, <1>4, <1>5, <1>6, <1>7, <1>8, <1>9, <1>10, <1>11 DEF LeaseNext

(* The lease, the phases of the processes and their workers keep their types *)
(* (runIntelligenceRuntime, RunOwner).                                       *)
THEOREM LeaseTyped ==
    ASSUME LeaseAssumption
    PROVE  LeaseSpec => []LeaseTypeOK
<1>1. LeaseInit => LeaseInv
  BY LeaseInitially
<1>2. LeaseInv /\ [LeaseNext]_leaseVars => LeaseInv'
  BY StepKeepsLease
<1>3. LeaseInv => LeaseTypeOK
  BY DEF LeaseInv
<1> QED
  BY <1>1, <1>2, <1>3, PTL DEF LeaseSpec

(* No two processes run background workers at the same time, whatever dies,  *)
(* is interrupted or fails to start in between (runIntelligenceWorkers,      *)
(* tryAcquireIntelligenceLease).                                             *)
THEOREM WorkersRunUnderLease ==
    ASSUME LeaseAssumption
    PROVE  LeaseSpec => []WorkersUnderLease
<1>1. LeaseInit => LeaseInv
  BY LeaseInitially
<1>2. LeaseInv /\ [LeaseNext]_leaseVars => LeaseInv'
  BY StepKeepsLease
<1>3. LeaseInv => WorkersUnderLease
  BY DEF LeaseInv, OwnersHoldLease, WorkersUnderLease
<1> QED
  BY <1>1, <1>2, <1>3, PTL DEF LeaseSpec

-----------------------------------------------------------------------------
(* The analysis of projects.                                                 *)

Rows == [project : Projects, coverage : Coverages] \cup {Unknown}
Contents == SUBSET (Groups \X Rows \X SUBSET Batch)

StoreTypeOK ==
    /\ session \in [Groups -> Rows] /\ turns \in [Groups -> SUBSET Batch]
    /\ project \in [Projects -> [generation : Nat, analyzed : Nat]]
    /\ analysis \in [Projects -> Contents]

Works == [step : {"rest", "sessions", "turns", "publish"}, list : Seq(Projects \X Nat),
          groups : SUBSET Groups, meta : [Groups -> Rows] \cup {<<>>}, content : Contents]

AnalysisTypeOK ==
    /\ StoreTypeOK
    /\ analyzer \in [Analyzers -> Works]
    /\ dirtied \in Seq(Projects)

(* The strengthening.  An analyser lists generations that were there, and as   *)
(* long as the one of its project is still the last, what it has loaded is    *)
(* what the store has.                                                       *)
Listed(w) ==
    /\ w.step # "rest" => w.list # <<>>
    /\ w.step = "turns" => w.meta \in [Groups -> Rows]
    /\ \A k \in DOMAIN w.list : w.list[k][2] <= project[w.list[k][1]].generation

Loaded(w) ==
    LET p == w.list[1][1] IN
    (w.step # "rest" /\ StillCurrent(p, w.list[1][2])) =>
        /\ w.step = "turns" =>
              /\ w.groups = LoadedSessions(p)
              /\ \A g \in w.groups : w.meta[g] = session[g]
        /\ w.step = "publish" => w.content = ProjectContent(p)

AnalysisInv ==
    /\ AnalysisTypeOK
    /\ \A p \in Projects : project[p].analyzed <= project[p].generation
    /\ \A a \in Analyzers : Listed(analyzer[a]) /\ Loaded(analyzer[a])
    /\ AnalysisCurrent

(* What a transaction does to a project: its content changes only with its     *)
(* generation, which only grows.                                             *)
Moves(p) ==
    /\ project'[p].generation >= project[p].generation
    /\ project'[p].generation = project[p].generation =>
          /\ LoadedSessions(p)' = LoadedSessions(p) /\ ProjectContent(p)' = ProjectContent(p)
          /\ \A g \in LoadedSessions(p) : session'[g] = session[g]

LEMMA AppendMoves ==
    ASSUME StoreTypeOK, NEW g \in Groups, NEW q \in Projects, NEW batch \in SUBSET Batch,
           \A p \in Projects : project[p].generation < MaxGeneration,
           AppendTranscriptBatch(g, [project |-> q, coverage |-> "live"], batch)
    PROVE  /\ StoreTypeOK' /\ analysis' = analysis
           /\ \A p \in Projects : Moves(p) /\ project'[p].analyzed = project[p].analyzed
<1> DEFINE s == [project |-> q, coverage |-> "live"]
<1>1. s \in Rows
  BY DEF Rows, Coverages
<1>2. /\ session' \in [Groups -> Rows] /\ session'[g] = s
      /\ \A h \in Groups \ {g} : session'[h] = session[h]
      /\ turns' \in [Groups -> SUBSET Batch] /\ turns'[g] = turns[g] \cup batch
      /\ \A h \in Groups \ {g} : turns'[h] = turns[h]
      /\ analysis' = analysis
  BY <1>1 DEF StoreTypeOK, AppendTranscriptBatch
<1>3. CASE s = session[g] /\ batch \subseteq turns[g]
  <2>1. project' = project /\ session' = session /\ turns' = turns
    BY <1>2, <1>3 DEF StoreTypeOK, AppendTranscriptBatch
  <2> QED
    BY <1>2, <2>1 DEF StoreTypeOK, Moves, LoadedSessions, ProjectContent, ContentOf
<1>4. CASE ~(s = session[g] /\ batch \subseteq turns[g])
  <2>1. project' = [p \in Projects |-> IF p \in Dirtied(session[g], s)
                       THEN [project[p] EXCEPT !.generation = NextGeneration(@)] ELSE project[p]]
    BY <1>4 DEF AppendTranscriptBatch
  <2>2. \A p \in Projects :
          /\ project'[p] \in [generation : Nat, analyzed : Nat]
          /\ project'[p].analyzed = project[p].analyzed
          /\ project'[p].generation =
               IF p \in Dirtied(session[g], s) THEN project[p].generation + 1
               ELSE project[p].generation
    BY <2>1 DEF StoreTypeOK, NextGeneration
  <2>3. StoreTypeOK'
    BY <1>2, <2>1, <2>2 DEF StoreTypeOK
  <2>4. ASSUME NEW p \in Projects
        PROVE  Moves(p)
    <3>1. CASE p \in Dirtied(session[g], s)
      BY <2>2, <3>1 DEF Moves, StoreTypeOK
    <3>2. CASE p \notin Dirtied(session[g], s)
      <4>1. LoadedSessions(p)' = LoadedSessions(p) /\ g \notin LoadedSessions(p)
        BY <1>2, <3>2 DEF LoadedSessions, Dirtied
      <4>2. \A h \in LoadedSessions(p) : session'[h] = session[h] /\ turns'[h] = turns[h]
        BY <1>2, <4>1 DEF LoadedSessions
      <4>3. ProjectContent(p)' = ProjectContent(p)
        BY <4>1, <4>2 DEF ProjectContent, ContentOf
      <4> QED
        BY <2>2, <4>1, <4>2, <4>3, <3>2 DEF Moves, StoreTypeOK
    <3> QED
      BY <3>1, <3>2
  <2> QED
    BY <1>2, <2>2, <2>3, <2>4
<1> QED
  BY <1>3, <1>4

(* The order in which projects are served names projects.                    *)
LEMMA OrderTyped ==
    ASSUME NEW next, NEW order \in Dirties(next)
    PROVE  order \in Seq(Projects)
<1> DEFINE dirty == {p \in Projects : next[p].generation > next[p].analyzed}
<1>1. Cardinality(dirty) \in Nat
  BY ProjectsAssumption, FS_Subset, FS_CardinalityType
<1>2. order \in [1 .. Cardinality(dirty) -> Projects]
  BY DEF Dirties
<1>3. \E n \in Nat : order \in [1 .. n -> Projects]
  BY <1>1, <1>2
<1> HIDE DEF dirty
<1> QED
  BY <1>3, SeqDef, Zenon

(* An analyser whose project is not touched keeps what it has.               *)
LEMMA WorkStands ==
    ASSUME AnalysisTypeOK, StoreTypeOK', \A p \in Projects : Moves(p),
           NEW w \in Works, Listed(w), Loaded(w)
    PROVE  Listed(w)' /\ Loaded(w)'
<1>1. \A k \in DOMAIN w.list : w.list[k][1] \in Projects /\ w.list[k][2] \in Nat
  BY DEF Works
<1>2. \A p \in Projects : /\ project[p].generation \in Nat /\ project'[p].generation \in Nat
                          /\ project'[p].generation >= project[p].generation
  BY DEF Moves, AnalysisTypeOK, StoreTypeOK
<1>3. Listed(w)'
  <2>1. ASSUME NEW k \in DOMAIN w.list
        PROVE  w.list[k][2] <= project'[w.list[k][1]].generation
    <3>1. w.list[k][2] <= project[w.list[k][1]].generation
      BY DEF Listed
    <3> DEFINE p == w.list[k][1]
    <3>2. p \in Projects /\ w.list[k][2] \in Nat
      BY <1>1
    <3>3. project[p].generation \in Nat /\ project'[p].generation \in Nat
          /\ project'[p].generation >= project[p].generation
      BY <1>2, <3>2
    <3> QED
      BY <3>1, <3>2, <3>3
  <2> QED
    BY <2>1 DEF Listed
<1>4. Loaded(w)'
  <2> DEFINE p == w.list[1][1]
             expected == w.list[1][2]
  <2>1. SUFFICES ASSUME w.step # "rest", project'[p].generation = expected
                 PROVE  Loaded(w)'
    BY DEF Loaded, StillCurrent
  <2>2. p \in Projects /\ expected \in Nat /\ expected <= project[p].generation
    BY <1>1, <2>1 DEF Listed, Works
  <2>3. project'[p].generation = project[p].generation
    BY <1>2, <2>1, <2>2
  <2>4. /\ LoadedSessions(p)' = LoadedSessions(p) /\ ProjectContent(p)' = ProjectContent(p)
        /\ \A g \in LoadedSessions(p) : session'[g] = session[g]
    BY <2>2, <2>3 DEF Moves
  <2> QED
    BY <2>1, <2>3, <2>4 DEF Loaded, StillCurrent
<1> QED
  BY <1>3, <1>4

-----------------------------------------------------------------------------
LEMMA AnalysisInitially ==
    ASSUME AnalysisInit
    PROVE  AnalysisInv
<1>1. AnalysisTypeOK
  BY DEF AnalysisInit, StoreInit, NotLoaded, AnalysisTypeOK, StoreTypeOK, Works, Rows, Contents
<1>2. \A a \in Analyzers : Listed(analyzer[a]) /\ Loaded(analyzer[a])
  BY DEF AnalysisInit, NotLoaded, Listed, Loaded
<1>3. \A p \in Projects : project[p].analyzed <= project[p].generation
  BY DEF AnalysisInit, StoreInit
<1>4. AnalysisCurrent
  BY DEF AnalysisInit, StoreInit, AnalysisCurrent, ProjectContent, ContentOf, LoadedSessions
<1> QED
  BY <1>1, <1>2, <1>3, <1>4 DEF AnalysisInv

(* An analyser goes on, and the store stays as it is.                        *)
LEMMA AnalyserGoesOn ==
    ASSUME AnalysisInv, UNCHANGED <<dirtied, storeVars>>,
           NEW a \in Analyzers, NEW w \in Works, Listed(w), Loaded(w),
           analyzer' = [analyzer EXCEPT ![a] = w]
    PROVE  AnalysisInv'
<1>1. UNCHANGED <<dirtied, session, turns, project, analysis>>
  BY DEF storeVars
<1>2. AnalysisTypeOK' /\ AnalysisCurrent'
  BY <1>1 DEF AnalysisInv, AnalysisTypeOK, StoreTypeOK, AnalysisCurrent, DirtyProjects,
              ProjectContent, ContentOf, LoadedSessions
<1>3. ASSUME NEW v \in Works, Listed(v), Loaded(v)
      PROVE  Listed(v)' /\ Loaded(v)'
  BY <1>1, <1>3 DEF Listed, Loaded, StillCurrent, LoadedSessions, ProjectContent, ContentOf
<1>4. ASSUME NEW b \in Analyzers
      PROVE  Listed(analyzer[b])' /\ Loaded(analyzer[b])'
  <2>1. PICK v : v = analyzer'[b]
    OBVIOUS
  <2>2. v \in Works /\ Listed(v) /\ Loaded(v)
    BY <2>1 DEF AnalysisInv, AnalysisTypeOK
  <2>3. Listed(v)' /\ Loaded(v)'
    BY <1>3, <2>2
  <2> QED
    BY <2>1, <2>3 DEF Listed, Loaded
<1>5. \A p \in Projects : (project[p].analyzed <= project[p].generation)'
  BY <1>1 DEF AnalysisInv
<1> QED
  BY <1>2, <1>4, <1>5 DEF AnalysisInv

LEMMA TailOfList ==
    ASSUME NEW S, NEW list \in Seq(S), list # <<>>, Len(list) # 1
    PROVE  /\ Tail(list) \in Seq(S) /\ Tail(list) # <<>>
           /\ \A k \in DOMAIN Tail(list) : k + 1 \in DOMAIN list /\ Tail(list)[k] = list[k + 1]
<1>1. /\ Tail(list) \in Seq(S) /\ Len(Tail(list)) = Len(list) - 1
      /\ \A k \in 1 .. Len(Tail(list)) : Tail(list)[k] = list[k + 1]
  BY HeadTailProperties
<1>2. Len(list) \in Nat /\ Len(list) > 1 /\ DOMAIN list = 1 .. Len(list)
  <2>1. Len(list) \in Nat \ {0}
    BY EmptySeq, Zenon
  <2>2. DOMAIN list = 1 .. Len(list)
    BY LenProperties
  <2> QED
    BY <2>1, <2>2
<1>3. DOMAIN Tail(list) = 1 .. Len(Tail(list)) /\ Len(Tail(list)) > 0
  BY <1>1, <1>2, LenProperties
<1>4. Tail(list) # <<>>
  BY <1>3, EmptySeq
<1> QED
  BY <1>1, <1>2, <1>3, <1>4

(* Where an analyser goes on with its list.                                  *)
LEMMA RestIsListed ==
    ASSUME AnalysisInv, NEW a \in Analyzers, analyzer[a].step # "rest", NEW w, w = Rest(a)
    PROVE  w \in Works /\ Listed(w) /\ Loaded(w)
<1> DEFINE list == analyzer[a].list
<1>1. list \in Seq(Projects \X Nat) /\ list # <<>> /\ Listed(analyzer[a])
  BY DEF AnalysisInv, AnalysisTypeOK, Works, Listed
<1>2. CASE Len(list) = 1
  BY <1>2 DEF Rest, NotLoaded, Works, Contents, Listed, Loaded
<1>3. CASE Len(list) # 1
  <2>1. /\ Tail(list) \in Seq(Projects \X Nat) /\ Tail(list) # <<>>
        /\ \A k \in DOMAIN Tail(list) : k + 1 \in DOMAIN list /\ Tail(list)[k] = list[k + 1]
    BY <1>1, <1>3, TailOfList
  <2>2. w = [step |-> "sessions", list |-> Tail(list), groups |-> {}, meta |-> <<>>, content |-> {}]
    BY <1>3 DEF Rest, NotLoaded
  <2>3. w \in Works /\ Loaded(w)
    BY <2>1, <2>2 DEF Works, Contents, Loaded
  <2>4. Listed(w)
    BY <1>1, <2>1, <2>2 DEF Listed
  <2> QED
    BY <2>3, <2>4
<1> QED
  BY <1>2, <1>3

LEMMA ListKeeps ==
    ASSUME AnalysisInv, NEW a \in Analyzers, List(a)
    PROVE  AnalysisInv'
<1> DEFINE n == IF Len(dirtied) < Limit THEN Len(dirtied) ELSE Limit
<1>1. dirtied \in Seq(Projects) /\ dirtied # <<>> /\ Len(dirtied) \in Nat \ {0}
  <2>1. dirtied \in Seq(Projects) /\ dirtied # <<>>
    BY DEF AnalysisInv, AnalysisTypeOK, List
  <2> QED
    BY <2>1, EmptySeq, Zenon
<1>2. n \in Nat \ {0} /\ n <= Len(dirtied)
  BY <1>1, LimitAssumption
<1>3. \A k \in 1 .. n : dirtied[k] \in Projects
  BY <1>1, <1>2, LenProperties
<1>4. /\ ListHead \in Seq(Projects) /\ Len(ListHead) = n
      /\ DOMAIN ListHead = 1 .. n /\ \A k \in 1 .. n : ListHead[k] \in Projects
  <2>1. ListHead \in Seq(Projects) /\ Len(ListHead) = n - 1 + 1
    BY <1>2, <1>3, SubSeqProperties DEF ListHead
  <2> HIDE DEF n
  <2> QED
    BY <1>2, <2>1, LenProperties
<1> HIDE DEF n
<1>5. PICK list : list = [k \in DOMAIN ListHead |-> <<ListHead[k], project[ListHead[k]].generation>>]
  OBVIOUS
<1>6. \A p \in Projects : project[p].generation \in Nat
  BY DEF AnalysisInv, AnalysisTypeOK, StoreTypeOK
<1>7. list \in [1 .. n -> Projects \X Nat] /\ list # <<>>
  <2>1. list = [k \in 1 .. n |-> <<ListHead[k], project[ListHead[k]].generation>>]
    BY <1>4, <1>5
  <2>2. \A k \in 1 .. n : <<ListHead[k], project[ListHead[k]].generation>> \in Projects \X Nat
    BY <1>4, <1>6
  <2>3. list \in [1 .. n -> Projects \X Nat]
    BY <2>1, <2>2
  <2>4. 1 \in DOMAIN list
    BY <1>2, <2>1
  <2>5. list # <<>>
    BY <2>4
  <2> QED
    BY <2>3, <2>5
<1>8. list \in Seq(Projects \X Nat)
  <2>1. \E m \in Nat : list \in [1 .. m -> Projects \X Nat]
    BY <1>2, <1>7
  <2> QED
    BY <2>1, SeqDef, Zenon
<1>9. PICK w : w = [NotLoaded EXCEPT !.step = "sessions", !.list = list]
  OBVIOUS
<1>10. w = [step |-> "sessions", list |-> list, groups |-> {}, meta |-> <<>>, content |-> {}]
  BY <1>9 DEF NotLoaded
<1>11. w \in Works /\ Loaded(w)
  BY <1>8, <1>10 DEF Works, Contents, Loaded
<1>12. Listed(w)
  BY <1>4, <1>5, <1>6, <1>7, <1>10 DEF Listed
<1>13. analyzer' = [analyzer EXCEPT ![a] = w] /\ UNCHANGED <<dirtied, storeVars>>
  BY <1>5, <1>9 DEF List
<1> QED
  BY <1>11, <1>12, <1>13, AnalyserGoesOn

LEMMA LoadSessionsKeeps ==
    ASSUME AnalysisInv, NEW a \in Analyzers, LoadSessions(a)
    PROVE  AnalysisInv'
<1>1. analyzer[a] \in Works /\ Listed(analyzer[a]) /\ analyzer[a].step = "sessions"
  BY DEF AnalysisInv, AnalysisTypeOK, LoadSessions
<1>2. CASE Project(a) \in Unreadable
  <2>1. PICK w : w = Rest(a)
    OBVIOUS
  <2> QED
    BY <1>1, <1>2, <2>1, RestIsListed, AnalyserGoesOn DEF LoadSessions
<1>3. CASE Project(a) \notin Unreadable
  <2>1. PICK w : w = [analyzer[a] EXCEPT !.step = "turns", !.groups = LoadedSessions(Project(a)),
                                         !.meta = session]
    OBVIOUS
  <2>2. /\ w \in Works /\ w.step = "turns" /\ w.list = analyzer[a].list
        /\ w.groups = LoadedSessions(Project(a)) /\ w.meta = session
    BY <1>1, <2>1 DEF Works, LoadedSessions, AnalysisInv, AnalysisTypeOK, StoreTypeOK
  <2>3. Listed(w) /\ Loaded(w)
    BY <1>1, <2>2 DEF Listed, Loaded, Project, AnalysisInv, AnalysisTypeOK, StoreTypeOK
  <2>4. analyzer' = [analyzer EXCEPT ![a] = w] /\ UNCHANGED <<dirtied, storeVars>>
    BY <1>3, <2>1 DEF LoadSessions
  <2> QED
    BY <2>2, <2>3, <2>4, AnalyserGoesOn
<1> QED
  BY <1>2, <1>3

LEMMA LoadTurnsKeeps ==
    ASSUME AnalysisInv, NEW a \in Analyzers, LoadTurns(a)
    PROVE  AnalysisInv'
<1>1. /\ analyzer[a] \in Works /\ Listed(analyzer[a]) /\ Loaded(analyzer[a])
      /\ analyzer[a].step = "turns" /\ analyzer[a].meta \in [Groups -> Rows]
  BY DEF AnalysisInv, AnalysisTypeOK, LoadTurns, Listed
<1>2. PICK content : content = ContentOf(analyzer[a].groups, analyzer[a].meta)
  OBVIOUS
<1>3. content \in Contents
  BY <1>1, <1>2 DEF ContentOf, Contents, Works, AnalysisInv, AnalysisTypeOK, StoreTypeOK
<1>4. PICK w : w = [analyzer[a] EXCEPT !.step = "publish", !.content = content,
                                       !.groups = {}, !.meta = <<>>]
  OBVIOUS
<1>5. w \in Works /\ w.step = "publish" /\ w.list = analyzer[a].list /\ w.content = content
  BY <1>1, <1>3, <1>4 DEF Works
<1>6. Listed(w)
  BY <1>1, <1>5 DEF Listed
<1>7. Loaded(w)
  <2> DEFINE p == w.list[1][1]
  <2>1. SUFFICES ASSUME StillCurrent(p, w.list[1][2])
                 PROVE  w.content = ProjectContent(p)
    BY <1>5 DEF Loaded
  <2>2. analyzer[a].groups = LoadedSessions(p)
        /\ \A g \in analyzer[a].groups : analyzer[a].meta[g] = session[g]
    BY <1>1, <1>5, <2>1 DEF Loaded
  <2> QED
    BY <1>2, <1>5, <2>2 DEF ProjectContent, ContentOf
<1>8. analyzer' = [analyzer EXCEPT ![a] = w] /\ UNCHANGED <<dirtied, storeVars>>
  BY <1>1, <1>2, <1>4 DEF LoadTurns, AnalysisInv, AnalysisTypeOK, Works
<1> QED
  BY <1>5, <1>6, <1>7, <1>8, AnalyserGoesOn

LEMMA StopKeeps ==
    ASSUME AnalysisInv, NEW a \in Analyzers, Stop(a)
    PROVE  AnalysisInv'
<1>1. NotLoaded \in Works /\ Listed(NotLoaded) /\ Loaded(NotLoaded)
  BY DEF NotLoaded, Works, Contents, Listed, Loaded
<1> QED
  BY <1>1, AnalyserGoesOn DEF Stop

(* A transaction of the store, and where the analysers go on after it.        *)
LEMMA TransactionKeeps ==
    ASSUME AnalysisInv, StoreTypeOK', dirtied' \in Seq(Projects), \A p \in Projects : Moves(p),
           analyzer' \in [Analyzers -> Works],
           \A b \in Analyzers : \E v \in Works : analyzer'[b] = v /\ Listed(v) /\ Loaded(v),
           \A p \in Projects : (project[p].analyzed <= project[p].generation)',
           AnalysisCurrent'
    PROVE  AnalysisInv'
<1>1. AnalysisTypeOK /\ AnalysisTypeOK'
  BY DEF AnalysisInv, AnalysisTypeOK
<1>2. ASSUME NEW b \in Analyzers
      PROVE  Listed(analyzer[b])' /\ Loaded(analyzer[b])'
  <2>1. PICK v \in Works : analyzer'[b] = v /\ Listed(v) /\ Loaded(v)
    OBVIOUS
  <2>2. Listed(v)' /\ Loaded(v)'
    BY <1>1, <2>1, WorkStands
  <2> QED
    BY <2>1, <2>2 DEF Listed, Loaded
<1> QED
  BY <1>1, <1>2 DEF AnalysisInv

LEMMA IngestKeeps ==
    ASSUME AnalysisInv, NEW g \in Groups, Ingest(g)
    PROVE  AnalysisInv'
<1>1. PICK q \in Projects, batch \in SUBSET Batch :
         AppendTranscriptBatch(g, [project |-> q, coverage |-> "live"], batch)
  BY DEF Ingest
<1>2. /\ StoreTypeOK' /\ analysis' = analysis
      /\ \A p \in Projects : Moves(p) /\ project'[p].analyzed = project[p].analyzed
  BY <1>1, AppendMoves DEF AnalysisInv, AnalysisTypeOK, Ingest
<1>3. dirtied' \in Seq(Projects)
  <2>1. PICK next : next = project'
    OBVIOUS
  <2> QED
    BY <2>1, OrderTyped DEF Ingest
<1>4. /\ analyzer' \in [Analyzers -> Works]
      /\ \A b \in Analyzers : \E v \in Works : analyzer'[b] = v /\ Listed(v) /\ Loaded(v)
  <2>1. analyzer' = analyzer
    BY DEF Ingest
  <2> QED
    BY <2>1 DEF AnalysisInv, AnalysisTypeOK
<1>5. \A p \in Projects : /\ project[p].generation \in Nat /\ project'[p].generation \in Nat
                          /\ project[p].analyzed \in Nat /\ project'[p].analyzed = project[p].analyzed
                          /\ project[p].analyzed <= project[p].generation
                          /\ project[p].generation <= project'[p].generation
  BY <1>2 DEF Moves, AnalysisInv, AnalysisTypeOK, StoreTypeOK
<1>6. AnalysisCurrent'
  <2>1. ASSUME NEW p \in Projects, ~(project'[p].generation > project'[p].analyzed)
        PROVE  analysis'[p] = ProjectContent(p)'
    <3>1. project'[p].generation = project[p].generation
          /\ ~(project[p].generation > project[p].analyzed)
      BY <1>5, <2>1
    <3>2. analysis[p] = ProjectContent(p)
      BY <3>1 DEF AnalysisInv, AnalysisCurrent, DirtyProjects
    <3> QED
      BY <1>2, <3>1, <3>2 DEF Moves
  <2> QED
    BY <2>1 DEF AnalysisCurrent, DirtyProjects
<1>7. \A p \in Projects : (project[p].analyzed <= project[p].generation)'
  BY <1>5
<1> QED
  BY <1>2, <1>3, <1>4, <1>6, <1>7, TransactionKeeps

LEMMA PublishKeeps ==
    ASSUME AnalysisInv, NEW a \in Analyzers, Publish(a)
    PROVE  AnalysisInv'
<1> DEFINE p == Project(a)
           expected == GenerationListed(a)
<1>1. /\ analyzer[a] \in Works /\ Listed(analyzer[a]) /\ Loaded(analyzer[a])
      /\ analyzer[a].step = "publish"
  BY DEF AnalysisInv, AnalysisTypeOK, Publish
<1>2. p \in Projects /\ expected \in Nat
  BY <1>1 DEF Listed, Works, Project, GenerationListed
<1>3. dirtied' \in Seq(Projects)
  <2>1. PICK next : next = project'
    OBVIOUS
  <2> QED
    BY <2>1, OrderTyped DEF Publish
<1>4. PICK w : w = Rest(a)
  OBVIOUS
<1>5. w \in Works /\ Listed(w) /\ Loaded(w)
  BY <1>1, <1>4, RestIsListed
<1>6. /\ analyzer' \in [Analyzers -> Works]
      /\ \A b \in Analyzers : \E v \in Works : analyzer'[b] = v /\ Listed(v) /\ Loaded(v)
  <2>1. analyzer' = [analyzer EXCEPT ![a] = w]
    BY <1>4 DEF Publish
  <2>2. analyzer' \in [Analyzers -> Works] /\ analyzer'[a] = w
        /\ \A b \in Analyzers \ {a} : analyzer'[b] = analyzer[b]
    BY <1>5, <2>1 DEF AnalysisInv, AnalysisTypeOK
  <2> QED
    BY <1>5, <2>2 DEF AnalysisInv, AnalysisTypeOK
<1>7. session' = session /\ turns' = turns
  BY DEF Publish, ReplaceProjectIssueAnalysis, storeVars
<1>8. \A q \in Projects : ProjectContent(q)' = ProjectContent(q)
                         /\ LoadedSessions(q)' = LoadedSessions(q)
  BY <1>7 DEF ProjectContent, ContentOf, LoadedSessions
<1>9. CASE StillCurrent(p, expected)
  <2>1. /\ analysis' = [analysis EXCEPT ![p] = analyzer[a].content]
        /\ project' = [project EXCEPT ![p].analyzed = expected]
    BY <1>9 DEF Publish, ReplaceProjectIssueAnalysis
  <2>2. analyzer[a].content = ProjectContent(p) /\ analyzer[a].content \in Contents
    BY <1>1, <1>9 DEF Loaded, Project, GenerationListed, Works
  <2>3. project'[p].generation = expected /\ project'[p].analyzed = expected
    BY <1>2, <1>9, <2>1 DEF StillCurrent, AnalysisInv, AnalysisTypeOK, StoreTypeOK
  <2>4. \A q \in Projects : project'[q].generation = project[q].generation
                           /\ project'[q] \in [generation : Nat, analyzed : Nat]
                           /\ (q # p => project'[q] = project[q])
    BY <1>2, <2>1 DEF AnalysisInv, AnalysisTypeOK, StoreTypeOK
  <2>5. StoreTypeOK'
    BY <1>7, <2>1, <2>2, <2>4 DEF AnalysisInv, AnalysisTypeOK, StoreTypeOK
  <2>6. \A q \in Projects : Moves(q)
    BY <1>7, <1>8, <2>4, <2>5 DEF Moves, StoreTypeOK
  <2>7. \A q \in Projects : (project[q].analyzed <= project[q].generation)'
    BY <1>2, <2>3, <2>4 DEF AnalysisInv
  <2>8. AnalysisCurrent'
    <3>1. ASSUME NEW q \in Projects, ~(project'[q].generation > project'[q].analyzed)
          PROVE  analysis'[q] = ProjectContent(q)'
      <4>1. CASE q = p
        BY <1>2, <1>8, <2>1, <2>2, <4>1 DEF AnalysisInv, AnalysisTypeOK, StoreTypeOK
      <4>2. CASE q # p
        <5>1. analysis'[q] = analysis[q] /\ project'[q] = project[q]
          BY <2>1, <2>4, <4>2 DEF AnalysisInv, AnalysisTypeOK, StoreTypeOK
        <5>2. analysis[q] = ProjectContent(q)
          BY <3>1, <5>1 DEF AnalysisInv, AnalysisCurrent, DirtyProjects
        <5> QED
          BY <1>8, <5>1, <5>2
      <4> QED
        BY <4>1, <4>2
    <3> QED
      BY <3>1 DEF AnalysisCurrent, DirtyProjects
  <2> QED
    BY <1>3, <1>6, <2>5, <2>6, <2>7, <2>8, TransactionKeeps
<1>10. CASE ~StillCurrent(p, expected)
  <2>1. UNCHANGED <<session, turns, project, analysis>>
    BY <1>10 DEF Publish, ReplaceProjectIssueAnalysis, storeVars
  <2>2. StoreTypeOK' /\ \A q \in Projects : (project[q].analyzed <= project[q].generation)'
    BY <2>1 DEF AnalysisInv, AnalysisTypeOK, StoreTypeOK
  <2>3. \A q \in Projects : Moves(q)
    BY <1>8, <2>1, <2>2 DEF Moves, StoreTypeOK
  <2>4. AnalysisCurrent'
    BY <1>8, <2>1 DEF AnalysisInv, AnalysisCurrent, DirtyProjects
  <2> QED
    BY <1>3, <1>6, <2>2, <2>3, <2>4, TransactionKeeps
<1> QED
  BY <1>9, <1>10

LEMMA AnalysisStepKeeps ==
    ASSUME AnalysisInv, [AnalysisNext]_analysisVars
    PROVE  AnalysisInv'
<1>1. CASE \E g \in Groups : Ingest(g)
  BY <1>1, IngestKeeps
<1>2. ASSUME NEW a \in Analyzers,
             List(a) \/ LoadSessions(a) \/ LoadTurns(a) \/ Publish(a) \/ Stop(a)
      PROVE  AnalysisInv'
  BY <1>2, ListKeeps, LoadSessionsKeeps, LoadTurnsKeeps, PublishKeeps, StopKeeps
<1>3. CASE UNCHANGED analysisVars
  <2>1. UNCHANGED <<analyzer, dirtied, session, turns, project, analysis>>
    BY <1>3 DEF analysisVars
  <2> QED
    BY <2>1 DEF AnalysisInv, AnalysisTypeOK, StoreTypeOK, Listed, Loaded, StillCurrent,
                AnalysisCurrent, DirtyProjects, ProjectContent, ContentOf, LoadedSessions
<1> QED
  BY <1>1, <1>2, <1>3 DEF AnalysisNext

(* Whatever the importers append and the analysers load, publish or leave,    *)
(* in any number and any order: what an analyser holds of a project is what   *)
(* the store has of it as long as the generation it listed is the last        *)
(* (ListDirtyTranscriptProjects, LoadTranscriptProjectData,                   *)
(* markTranscriptProjectDirtyTx).                                            *)
THEOREM AnalysisInvariant == AnalysisSpec => []AnalysisInv
<1>1. AnalysisInit => AnalysisInv
  BY AnalysisInitially
<1>2. AnalysisInv /\ [AnalysisNext]_analysisVars => AnalysisInv'
  BY AnalysisStepKeeps
<1> QED
  BY <1>1, <1>2, PTL DEF AnalysisSpec

(* A project that owes no analysis shows the issues of the transcripts it has: *)
(* ReplaceProjectIssueAnalysis refuses the generation it was not made for.     *)
THEOREM AnalysesAreCurrent == AnalysisSpec => []AnalysisCurrent
<1>1. AnalysisInv => AnalysisCurrent
  BY DEF AnalysisInv
<1> QED
  BY <1>1, AnalysisInvariant, PTL

-----------------------------------------------------------------------------
(* The spool.                                                                *)

Units == Lines \X (Nat \ {0})
Cursors == [offset : Nat, file : Files \cup {0}, bytes : Nat, prefix : Seq(Units)]
Polls == [step : {"rest", "load", "read", "import"}, file : Files \cup {0}, size : Nat,
          cursor : Cursors, body : Seq(Units), end : Nat]

(* What the hook writes: whole lines, one after the other, in each file.      *)
InOrder(c) ==
    /\ \A k \in 1 .. Len(c) : c[k][2] <= Size[c[k][1]]
    /\ c # <<>> => c[1][2] = 1
    /\ \A k \in 1 .. Len(c) - 1 : EndsLine(c[k]) => c[k + 1][2] = 1
    /\ \A k \in 1 .. Len(c) : \A j \in 1 .. k :
          \/ c[k][1] = c[j][1] /\ c[k][2] = c[j][2] + (k - j)
          \/ \E e \in j .. k - 1 : c[e][1] = c[j][1] /\ EndsLine(c[e])

WriterSound ==
    /\ files \in [Files -> Seq(Units)] /\ current \in Files
    /\ written \in Units \cup {<<0, 0>>} /\ (written # <<0, 0>> => written[2] <= Size[written[1]])
    /\ \A f \in Files : /\ InOrder(files[f])
                        /\ f > current => files[f] = <<>>
                        /\ \A k \in 1 .. Len(files[f]) : files[f][k][1] <= written[1]
    /\ IF files[current] = <<>> THEN AtLineEnd
       ELSE files[current][Len(files[current])] = written

(* An offset between two lines, or within one that is too large anyway.       *)
Boundary(c, o) == o = 0 \/ EndsLine(c[o]) \/ Size[c[o][1]] > MaxRecordBytes

Passed(f, o) ==
    /\ o \in 0 .. Len(files[f]) /\ Boundary(files[f], o)
    /\ \A k \in 1 .. o : EndsLine(files[f][k]) => Dealt(files[f][k][1])

(* The file of a cursor was emptied, and what is in it now is younger.        *)
Emptied(c) == files[c.file] # <<>> => files[c.file][1][1] > c.prefix[1][1]

CursorSound(c) ==
    IF c.file = 0 THEN c.offset = 0
    ELSE /\ c.file <= current /\ c.offset > 0 /\ c.bytes > 0
         /\ c.file \notin torn =>
                /\ c.prefix # <<>> /\ c.prefix[1][1] <= written[1]
                /\ Passed(c.file, c.offset) \/ Emptied(c)

\* What is left of a batch is what the file has before its end.
BatchSound(f, body, end) ==
    /\ Len(body) <= end /\ end <= Len(files[f])
    /\ \A k \in 1 .. Len(body) : body[k] = files[f][end - Len(body) + k]
    /\ Passed(f, end - Len(body))
    /\ \/ body = <<>>
       \/ EndsLine(body[Len(body)])
       \/ Len(body) > MaxRecordBytes /\ \A k \in 1 .. Len(body) : ~EndsLine(body[k])

PollSound(w) ==
    /\ w.step # "rest" => w.file \in Files /\ w.file <= current
    /\ w.step = "import" => w.end > 0
    /\ w.file \notin torn =>
        /\ w.step \in {"load", "read"} => w.size <= Len(files[w.file])
        /\ w.step = "read" => w.cursor.offset <= w.size /\ Passed(w.file, w.cursor.offset)
        /\ w.step = "import" => BatchSound(w.file, w.body, w.end)

SpoolInv ==
    /\ WriterSound
    /\ cursor \in Cursors /\ CursorSound(cursor)
    /\ tailer \in [Tailers -> Polls] /\ \A t \in Tailers : PollSound(tailer[t])
    /\ OnlyOversizedQuarantined

-----------------------------------------------------------------------------
(* Pieces of a file. *)

Less == {xy \in Nat \X Nat : xy[1] < xy[2]}

LEMMA NatHasLeast ==
    ASSUME NEW S \in SUBSET Nat, S # {}
    PROVE  \E k \in S : \A e \in S : k <= e
<1>1. IsWellFoundedOn(Less, Nat)
  BY Zenon, NatLessThanWellFounded DEF OpToRel, Less
<1>2. PICK k \in S : \A e \in S : <<e, k>> \notin Less
  BY <1>1, WFMin
<1>3. ASSUME NEW e \in S PROVE k <= e
  <2>1. <<e, k>> \notin Less
    BY <1>2
  <2> QED
    BY <2>1 DEF Less
<1> QED
  BY <1>3

LEMMA LeastAndGreatest ==
    ASSUME NEW n \in Nat, NEW S \in SUBSET (1 .. n), S # {}
    PROVE  /\ \E k \in S : \A e \in S : k <= e
           /\ \E k \in S : \A e \in S : e <= k
<1>1. S \in SUBSET Nat
  OBVIOUS
<1>2. \E k \in S : \A e \in S : k <= e
  BY <1>1, NatHasLeast
<1>3. \E k \in S : \A e \in S : e <= k
  <2> DEFINE T == {n - k : k \in S}
  <2>1. T \in SUBSET Nat /\ T # {}
    <3>1. \A k \in S : n - k \in Nat
      OBVIOUS
    <3>2. PICK k \in S : TRUE
      OBVIOUS
    <3>3. n - k \in T
      BY <3>2
    <3> QED
      BY <3>1, <3>3
  <2>2. \E m \in T : \A e \in T : m <= e
    <3> HIDE DEF T
    <3> QED
      BY <2>1, NatHasLeast
  <2>3. PICK m \in T : \A e \in T : m <= e
    BY <2>2
  <2>4. PICK k \in S : m = n - k
    BY <2>3
  <2>5. ASSUME NEW e \in S PROVE e <= k
    <3>1. n - e \in T
      OBVIOUS
    <3>2. n - k <= n - e
      BY <2>3, <2>4, <3>1
    <3>3. n \in Nat /\ k \in 1 .. n /\ e \in 1 .. n
      OBVIOUS
    <3> HIDE DEF T
    <3> QED
      BY <3>2, <3>3
  <2> QED
    BY <2>5
<1> QED
  BY <1>2, <1>3

(* SubSeq, of a sequence of units and with bounds that are in it.             *)
LEMMA Slice ==
    ASSUME NEW s \in Seq(Units), NEW m \in Nat, NEW n \in Nat, 1 <= m, m <= n + 1, n <= Len(s)
    PROVE  /\ SubSeq(s, m, n) \in Seq(Units) /\ Len(SubSeq(s, m, n)) = n + 1 - m
           /\ \A k \in 1 .. n + 1 - m : SubSeq(s, m, n)[k] = s[m + k - 1]
<1>1. \A k \in m .. n : s[k] \in Units
  BY ElementOfSeq
<1>2. /\ SubSeq(s, m, n) \in Seq(Units)
      /\ Len(SubSeq(s, m, n)) = IF m <= n THEN n - m + 1 ELSE 0
      /\ \A k \in 1 .. n - m + 1 : SubSeq(s, m, n)[k] = s[m + k - 1]
  BY <1>1, SubSeqProperties
<1> QED
  BY <1>2

LEMMA CompleteMeans ==
    ASSUME TailAssumption, NEW body \in Seq(Units), NEW n, n = Complete(body)
    PROVE  /\ n \in 0 .. Len(body)
           /\ \/ n = 0
              \/ n > 0 /\ EndsLine(body[n])
              \/ /\ n = Len(body) /\ Len(body) > MaxRecordBytes
                 /\ \A k \in 1 .. Len(body) : ~EndsLine(body[k])
<1> DEFINE ends == {k \in 1 .. Len(body) : EndsLine(body[k])}
<1>1. Len(body) \in Nat
  BY LenProperties
<1>2. CASE ends # {}
  <2>1. n = CHOOSE k \in ends : \A e \in ends : e <= k
    BY <1>2 DEF Complete
  <2>2. ends \in SUBSET (1 .. Len(body))
    OBVIOUS
  <2>3. \E k \in ends : \A e \in ends : e <= k
    <3> HIDE DEF ends
    <3> QED
      BY <1>1, <1>2, <2>2, LeastAndGreatest
  <2>4. n \in ends
    BY <2>1, <2>3
  <2> QED
    BY <1>1, <2>4
<1>3. CASE ends = {}
  BY <1>1, <1>3 DEF Complete
<1> QED
  BY <1>2, <1>3

LEMMA PieceMeans ==
    ASSUME NEW body \in Seq(Units), body # <<>>
    PROVE  \E n \in 1 .. Len(body) :
              /\ Piece(body) = SubSeq(body, 1, n)
              /\ \A k \in 1 .. n - 1 : ~EndsLine(body[k])
              /\ ~EndsLine(body[n]) => n = Len(body)
<1> DEFINE ends == {k \in 1 .. Len(body) : EndsLine(body[k])}
           end == IF ends = {} THEN Len(body) ELSE CHOOSE k \in ends : \A e \in ends : k <= e
<1>1. Len(body) \in Nat /\ Len(body) > 0
  BY LenProperties, EmptySeq
<1>2. Piece(body) = SubSeq(body, 1, end)
  BY DEF Piece
<1>3. CASE ends = {}
  BY <1>1, <1>2, <1>3
<1>4. CASE ends # {}
  <2>1. ends \in SUBSET (1 .. Len(body))
    OBVIOUS
  <2>2. \E k \in ends : \A e \in ends : k <= e
    <3> HIDE DEF ends
    <3> QED
      BY <1>1, <1>4, <2>1, LeastAndGreatest
  <2>3. end \in ends /\ \A e \in ends : end <= e
    BY <1>4, <2>2
  <2>4. PICK n : n = end
    OBVIOUS
  <2>5. n \in ends /\ \A e \in ends : n <= e
    BY <2>3, <2>4
  <2>6. n \in 1 .. Len(body) /\ EndsLine(body[n])
    BY <2>5
  <2>7. \A k \in 1 .. n - 1 : ~EndsLine(body[k])
    BY <1>1, <2>5, <2>6
  <2> QED
    BY <1>2, <2>4, <2>6, <2>7
<1> QED
  BY <1>3, <1>4

-----------------------------------------------------------------------------
(* What a step leaves of what there was. *)

Grows(f) == /\ Len(files[f]) <= Len(files'[f])
            /\ \A k \in 1 .. Len(files[f]) : files'[f][k] = files[f][k]

SpoolKept ==
    /\ accepted \subseteq accepted' /\ quarantined \subseteq quarantined' /\ torn \subseteq torn'
    /\ current <= current' /\ written[1] <= written'[1]
    /\ \A f \in Files : files[f] = <<>> /\ files'[f] # <<>> => files'[f][1][1] > written[1]

LEMMA UnitTyped ==
    ASSUME TailAssumption, NEW u \in Units
    PROVE  /\ u[1] \in Lines /\ u[1] \in Nat /\ u[1] > 0 /\ u[2] \in Nat /\ u[2] > 0
           /\ Size[u[1]] \in Nat /\ Size[u[1]] > 0
<1>1. u[1] \in Lines /\ u[2] \in Nat \ {0}
  BY DEF Units
<1>2. Lines \subseteq Nat \ {0} /\ Size \in [Lines -> Nat \ {0}]
  BY DEF TailAssumption
<1>3. u[1] \in Nat \ {0} /\ Size[u[1]] \in Nat \ {0}
  BY <1>1, <1>2
<1> QED
  BY <1>1, <1>3

LEMMA ContentTyped ==
    ASSUME TailAssumption, NEW c \in Seq(Units)
    PROVE  /\ Len(c) \in Nat /\ (c = <<>> <=> Len(c) = 0)
           /\ \A k \in 1 .. Len(c) :
                 /\ c[k][1] \in Lines /\ c[k][1] \in Nat /\ c[k][1] > 0
                 /\ c[k][2] \in Nat /\ c[k][2] > 0
                 /\ Size[c[k][1]] \in Nat /\ Size[c[k][1]] > 0
<1>1. Len(c) \in Nat /\ (c = <<>> <=> Len(c) = 0)
  BY LenProperties, EmptySeq
<1>2. \A k \in 1 .. Len(c) : c[k] \in Units
  BY <1>1, ElementOfSeq
<1>3. \A u \in Units : /\ u[1] \in Lines /\ u[1] \in Nat /\ u[1] > 0 /\ u[2] \in Nat /\ u[2] > 0
                       /\ Size[u[1]] \in Nat /\ Size[u[1]] > 0
  BY UnitTyped
<1> QED
  BY <1>1, <1>2, <1>3

LEMMA WriterTyped ==
    ASSUME TailAssumption, WriterSound
    PROVE  /\ current \in Nat /\ written[1] \in Nat /\ written[2] \in Nat /\ Files \subseteq Nat
           /\ \A f \in Files : files[f] \in Seq(Units)
<1>1. \A w \in Units \cup {<<0, 0>>} : w[1] \in Nat /\ w[2] \in Nat
  BY UnitTyped
<1>2. written \in Units \cup {<<0, 0>>} /\ current \in Files /\ files \in [Files -> Seq(Units)]
  BY DEF WriterSound
<1>3. Files \subseteq Nat
  BY DEF TailAssumption
<1> QED
  BY <1>1, <1>2, <1>3

LEMMA WriterTypedNext ==
    ASSUME TailAssumption, WriterSound'
    PROVE  /\ current' \in Nat /\ written'[1] \in Nat /\ written'[2] \in Nat
           /\ \A f \in Files : files'[f] \in Seq(Units)
<1>1. \A w \in Units \cup {<<0, 0>>} : w[1] \in Nat /\ w[2] \in Nat
  BY UnitTyped
<1>2. written' \in Units \cup {<<0, 0>>} /\ current' \in Files
      /\ files' \in [Files -> Seq(Units)]
  BY DEF WriterSound
<1>3. Files \subseteq Nat
  BY DEF TailAssumption
<1> QED
  BY <1>1, <1>2, <1>3

LEMMA PassedStands ==
    ASSUME TailAssumption, WriterSound, WriterSound', SpoolKept, NEW f \in Files, Grows(f),
           NEW o, Passed(f, o)
    PROVE  Passed(f, o)'
<1>1. Len(files[f]) \in Nat /\ Len(files'[f]) \in Nat
  BY LenProperties DEF WriterSound
<1>2. o \in 0 .. Len(files'[f]) /\ \A k \in 1 .. o : files'[f][k] = files[f][k]
  BY <1>1 DEF Passed, Grows
<1> QED
  BY <1>1, <1>2 DEF Passed, Boundary, EndsLine, Dealt, SpoolKept

LEMMA PollStands ==
    ASSUME TailAssumption, WriterSound, WriterSound', SpoolKept, NEW w \in Polls, PollSound(w),
           (w.step # "rest" /\ w.file \notin torn') => Grows(w.file)
    PROVE  PollSound(w)'
<1>1. w.step # "rest" => w.file \in Files /\ w.file <= current'
  <2>1. current \in Nat /\ current' \in Nat /\ Files \subseteq Nat /\ current <= current'
    BY WriterTyped, WriterTypedNext DEF SpoolKept
  <2>2. w.step # "rest" => w.file \in Files /\ w.file <= current
    BY DEF PollSound
  <2>3. ASSUME w.file \in Nat, w.file <= current PROVE w.file <= current'
    BY <2>1, <2>3
  <2> QED
    BY <2>1, <2>2, <2>3
<1>2. CASE w.step = "rest"
  BY <1>2 DEF PollSound
<1>3. CASE w.step # "rest" /\ w.file \in torn'
  BY <1>1, <1>3 DEF PollSound
<1>4. CASE w.step # "rest" /\ w.file \notin torn'
  <2>1. w.file \notin torn /\ w.file \in Files /\ Grows(w.file)
    BY <1>1, <1>4 DEF SpoolKept
  <2>2. Len(files[w.file]) \in Nat /\ Len(files'[w.file]) \in Nat
        /\ Len(files[w.file]) <= Len(files'[w.file])
    BY <2>1, LenProperties DEF WriterSound, Grows
  <2>3. CASE w.step = "load"
    BY <1>1, <1>4, <2>1, <2>2, <2>3 DEF PollSound, Polls
  <2>4. CASE w.step = "read"
    <3>1. /\ Passed(w.file, w.cursor.offset)
          /\ w.cursor.offset <= w.size /\ w.size <= Len(files[w.file])
      BY <2>1, <2>4 DEF PollSound
    <3>2. Passed(w.file, w.cursor.offset)'
      BY <2>1, <3>1, PassedStands
    <3> QED
      BY <1>1, <1>4, <2>1, <2>2, <2>4, <3>1, <3>2 DEF PollSound, Polls
  <2>5. CASE w.step = "import"
    <3>1. BatchSound(w.file, w.body, w.end) /\ w.end > 0
      BY <2>1, <2>5 DEF PollSound
    <3>2. Passed(w.file, w.end - Len(w.body))'
      BY <2>1, <3>1, PassedStands DEF BatchSound
    <3>3. w.end \in Nat /\ Len(w.body) \in Nat
      BY LenProperties DEF Polls
    <3>4. ASSUME NEW k \in 1 .. Len(w.body)
          PROVE  w.body[k] = files'[w.file][w.end - Len(w.body) + k]
      <4>1. w.body[k] = files[w.file][w.end - Len(w.body) + k]
            /\ w.end - Len(w.body) + k \in 1 .. Len(files[w.file])
        BY <2>2, <3>1, <3>3 DEF BatchSound
      <4> QED
        BY <2>1, <4>1 DEF Grows
    <3>5. BatchSound(w.file, w.body, w.end)'
      <4>1. /\ Len(w.body) <= w.end /\ w.end <= Len(files'[w.file])
            /\ \/ w.body = <<>>
               \/ EndsLine(w.body[Len(w.body)])
               \/ Len(w.body) > MaxRecordBytes /\ \A k \in 1 .. Len(w.body) : ~EndsLine(w.body[k])
        BY <2>2, <3>1, <3>3 DEF BatchSound
      <4> QED
        BY <3>2, <3>4, <4>1 DEF BatchSound, EndsLine
    <3> QED
      BY <1>1, <1>4, <2>5, <3>1, <3>5 DEF PollSound
  <2> QED
    BY <1>4, <2>3, <2>4, <2>5 DEF Polls
<1> QED
  BY <1>2, <1>3, <1>4

LEMMA CursorStands ==
    ASSUME TailAssumption, WriterSound, WriterSound', SpoolKept, NEW c \in Cursors, CursorSound(c),
           c.file # 0 => Grows(c.file) \/ files'[c.file] = <<>>
    PROVE  CursorSound(c)'
<1>1. CASE c.file = 0
  BY <1>1 DEF CursorSound
<1>2. ASSUME c.file # 0
      PROVE  c.file \in Files /\ c.file <= current' /\ c.offset > 0 /\ c.bytes > 0
  <2>1. current \in Nat /\ current' \in Nat /\ Files \subseteq Nat /\ current <= current'
    BY WriterTyped, WriterTypedNext DEF SpoolKept
  <2>2. c.file \in Files /\ c.file <= current /\ c.offset > 0 /\ c.bytes > 0
    BY <1>2 DEF CursorSound, Cursors
  <2>3. c.file \in Nat
    BY <2>1, <2>2
  <2> QED
    BY <2>1, <2>2, <2>3
<1>3. CASE c.file # 0 /\ c.file \in torn'
  BY <1>2, <1>3 DEF CursorSound
<1>4. CASE c.file # 0 /\ c.file \notin torn'
  <2>1. /\ c.file \in Files /\ c.file <= current' /\ c.offset > 0 /\ c.bytes > 0
        /\ c.prefix # <<>> /\ c.prefix[1][1] <= written[1]
        /\ Passed(c.file, c.offset) \/ Emptied(c)
    BY <1>2, <1>4 DEF CursorSound, SpoolKept
  <2>2. c.prefix[1][1] \in Nat
    <3>1. c.prefix \in Seq(Units)
      BY DEF Cursors
    <3> QED
      BY <2>1, <3>1, ContentTyped
  <2>3. c.prefix[1][1] <= written'[1] /\ written[1] \in Nat /\ written'[1] \in Nat
    <3>1. written[1] \in Nat /\ written'[1] \in Nat
      BY WriterTyped, WriterTypedNext
    <3> QED
      BY <2>1, <2>2, <3>1 DEF SpoolKept
  <2>4. CASE files'[c.file] = <<>>
    BY <1>4, <2>1, <2>3, <2>4 DEF CursorSound, Emptied
  <2>5. CASE Grows(c.file) /\ files'[c.file] # <<>>
    <3>1. CASE Passed(c.file, c.offset)
      <4>1. Passed(c.file, c.offset)'
        BY <2>1, <2>5, <3>1, PassedStands
      <4> QED
        BY <1>4, <2>1, <2>3, <4>1 DEF CursorSound
    <3>2. CASE Emptied(c) /\ files[c.file] = <<>>
      <4>1. files'[c.file][1][1] > written[1]
        BY <2>1, <2>5, <3>2 DEF SpoolKept
      <4>2. files'[c.file][1][1] \in Nat
        <5>1. files'[c.file] \in Seq(Units)
          BY <2>1 DEF WriterSound
        <5> QED
          BY <2>5, <5>1, ContentTyped
      <4>3. Emptied(c)'
        BY <2>1, <2>2, <2>3, <4>1, <4>2 DEF Emptied
      <4> QED
        BY <1>4, <2>1, <2>3, <4>3 DEF CursorSound
    <3>3. CASE Emptied(c) /\ files[c.file] # <<>>
      <4>1. Len(files[c.file]) \in Nat /\ Len(files[c.file]) > 0
        BY <2>1, <3>3, EmptySeq, LenProperties DEF WriterSound
      <4>2. files'[c.file][1] = files[c.file][1]
        BY <2>5, <4>1 DEF Grows
      <4>3. Emptied(c)'
        BY <3>3, <4>2 DEF Emptied
      <4> QED
        BY <1>4, <2>1, <2>3, <4>3 DEF CursorSound
    <3> QED
      BY <2>1, <3>1, <3>2, <3>3
  <2> QED
    BY <1>4, <2>4, <2>5
<1> QED
  BY <1>1, <1>3, <1>4

-----------------------------------------------------------------------------
(* The steps of a poll. *)

LEMMA RestingIsSound == TailAssumption => Resting \in Polls /\ PollSound(Resting)
<1> SUFFICES ASSUME TailAssumption PROVE Resting \in Polls /\ PollSound(Resting)
  OBVIOUS
<1>1. <<>> \in Seq(Units)
  BY EmptySeq
<1>2. NoCursor \in Cursors
  BY <1>1 DEF NoCursor, Cursors
<1> QED
  BY <1>1, <1>2 DEF Resting, Polls, PollSound

LEMMA WriterWaits ==
    ASSUME WriterSound, UNCHANGED <<files, current, written>>
    PROVE  WriterSound'
BY DEF WriterSound, InOrder, AtLineEnd, EndsLine

(* A poll changes its own record, the cursor and what was imported.           *)
LEMMA PollGoesOn ==
    ASSUME TailAssumption, SpoolInv, NEW t \in Tailers, NEW w \in Polls, PollSound(w)',
           NEW x \in Cursors, CursorSound(x)', cursor' = x, tailer' = [tailer EXCEPT ![t] = w],
           UNCHANGED <<files, current, written, torn>>,
           accepted \subseteq accepted', quarantined \subseteq quarantined',
           OnlyOversizedQuarantined'
    PROVE  SpoolInv'
<1>1. WriterSound /\ WriterSound'
  BY WriterWaits DEF SpoolInv
<1>2. \A f \in Files : Grows(f)
  BY WriterTyped, ContentTyped, <1>1 DEF Grows
<1>3. SpoolKept
  <2>1. current \in Nat /\ written[1] \in Nat
    BY <1>1, WriterTyped
  <2> QED
    BY <2>1 DEF SpoolKept
<1>4. \A u \in Tailers : tailer[u] \in Polls /\ PollSound(tailer[u])
  BY DEF SpoolInv
<1>5. ASSUME NEW u \in Tailers PROVE PollSound(tailer[u])'
  <2>1. PICK y \in Polls : y = tailer[u]
    BY <1>4
  <2>2. PollSound(y)
    BY <1>4, <2>1
  <2>3. PollSound(y)'
    <3>1. y.step # "rest" => y.file \in Files
      BY <2>2 DEF PollSound
    <3> QED
      BY <1>1, <1>2, <1>3, <2>2, <3>1, PollStands
  <2>4. tailer'[u] = IF u = t THEN w ELSE y
    BY <2>1 DEF SpoolInv
  <2> QED
    BY <2>3, <2>4
<1>6. tailer' \in [Tailers -> Polls]
  BY DEF SpoolInv
<1>7. CursorSound(cursor)'
  OBVIOUS
<1> QED
  BY <1>1, <1>5, <1>6, <1>7 DEF SpoolInv

(* A poll that only looks.                                                    *)
LEMMA PollLooks ==
    ASSUME TailAssumption, SpoolInv, NEW t \in Tailers, NEW w \in Polls, PollSound(w),
           tailer' = [tailer EXCEPT ![t] = w],
           UNCHANGED <<files, current, written, cursor, accepted, quarantined, torn>>
    PROVE  SpoolInv'
<1>1. WriterSound /\ WriterSound'
  BY WriterWaits DEF SpoolInv
<1>2. \A f \in Files : Grows(f)
  BY WriterTyped, ContentTyped, <1>1 DEF Grows
<1>3. SpoolKept
  <2>1. current \in Nat /\ written[1] \in Nat
    BY <1>1, WriterTyped
  <2> QED
    BY <2>1 DEF SpoolKept
<1>4. PollSound(w)'
  <2>1. w.step # "rest" => w.file \in Files
    BY DEF PollSound
  <2> QED
    BY <1>1, <1>2, <1>3, <2>1, PollStands
<1>5. PICK x \in Cursors : x = cursor
  BY DEF SpoolInv
<1>6. CursorSound(x)'
  <2>1. CursorSound(x) /\ (x.file # 0 => x.file \in Files)
    BY <1>5 DEF SpoolInv, Cursors
  <2> QED
    BY <1>1, <1>2, <1>3, <2>1, CursorStands
<1>7. OnlyOversizedQuarantined'
  BY DEF SpoolInv, OnlyOversizedQuarantined
<1> QED
  BY <1>4, <1>5, <1>6, <1>7, PollGoesOn

LEMMA OpenKeeps ==
    ASSUME TailAssumption, SpoolInv, NEW t \in Tailers, Open(t)
    PROVE  SpoolInv'
<1>1. PICK w : w = [Resting EXCEPT !.step = "load", !.file = current,
                                   !.size = Len(files[current])]
  OBVIOUS
<1>2. current \in Files /\ current \in Nat /\ files[current] \in Seq(Units)
      /\ Len(files[current]) \in Nat
  BY WriterTyped, LenProperties DEF SpoolInv, WriterSound
<1>3. w \in Polls
  BY <1>1, <1>2, RestingIsSound DEF Resting, Polls
<1>4. PollSound(w)
  BY <1>1, <1>2 DEF Resting, PollSound
<1> QED
  BY <1>1, <1>3, <1>4, PollLooks DEF Open

LEMMA InterruptionKeeps ==
    ASSUME TailAssumption, SpoolInv, NEW t \in Tailers, PollFails(t)
    PROVE  SpoolInv'
BY RestingIsSound, PollLooks DEF PollFails

(* A cursor that will be used as it is belongs to the file, and what it skips *)
(* has been imported: the beginning of an emptied file is not its prefix.     *)
LEMMA UsedAsItIs ==
    ASSUME TailAssumption, WriterSound, cursor \in Cursors, CursorSound(cursor),
           NEW f \in Files, NEW n \in Nat, n <= Len(files[f]), ~Replaced(f, n), f \notin torn
    PROVE  cursor.offset <= n /\ Passed(f, cursor.offset)
<1>1. files[f] \in Seq(Units) /\ Len(files[f]) \in Nat
  BY WriterTyped, LenProperties
<1>2. cursor.offset \in Nat /\ cursor.bytes \in Nat /\ cursor.offset <= n
  BY DEF Cursors, Replaced
<1>3. CASE cursor.file = 0
  <2>1. cursor.offset = 0
    BY <1>3 DEF CursorSound
  <2> QED
    BY <1>1, <1>2, <2>1 DEF Passed, Boundary
<1>4. CASE cursor.file # 0
  <2>1. /\ cursor.file = f /\ cursor.bytes > 0 /\ cursor.prefix # <<>>
        /\ cursor.prefix = Prefix(f, cursor.bytes)
        /\ Passed(f, cursor.offset) \/ Emptied(cursor)
    BY <1>4 DEF CursorSound, Replaced
  <2>2. ~Emptied(cursor)
    <3>1. PICK m : m = SmallerOf(cursor.bytes, Len(files[f]))
      OBVIOUS
    <3>2. m \in Nat /\ m <= Len(files[f])
      BY <1>1, <1>2, <3>1 DEF SmallerOf
    <3>3. /\ cursor.prefix = SubSeq(files[f], 1, m)
          /\ Len(SubSeq(files[f], 1, m)) = m
          /\ \A k \in 1 .. m : SubSeq(files[f], 1, m)[k] = files[f][k]
      <4>1. cursor.prefix = SubSeq(files[f], 1, m)
        BY <2>1, <3>1 DEF Prefix
      <4> QED
        BY <1>1, <3>2, <4>1, Slice
    <3>4. m > 0 /\ files[f] # <<>>
      <4>1. cursor.prefix \in Seq(Units)
        BY DEF Cursors
      <4>2. m # 0
        BY <2>1, <3>3, <4>1, EmptySeq, Zenon
      <4> QED
        BY <1>1, <3>2, <4>2, EmptySeq
    <3>5. cursor.prefix[1][1] = files[f][1][1] /\ files[f][1][1] \in Nat
      BY <1>1, <3>2, <3>3, <3>4, ContentTyped
    <3> QED
      BY <2>1, <3>4, <3>5 DEF Emptied
  <2> QED
    BY <1>2, <2>1, <2>2
<1> QED
  BY <1>3, <1>4

LEMMA LoadKeeps ==
    ASSUME TailAssumption, SpoolInv, NEW t \in Tailers, Load(t)
    PROVE  SpoolInv'
<1> DEFINE reset == Replaced(tailer[t].file, tailer[t].size)
           from == IF reset THEN [cursor EXCEPT !.offset = 0, !.bytes = 0, !.prefix = <<>>]
                            ELSE cursor
           goOn == [tailer[t] EXCEPT !.step = "read", !.cursor = from]
<1>1. /\ tailer[t] \in Polls /\ PollSound(tailer[t]) /\ tailer[t].step = "load"
      /\ cursor \in Cursors /\ CursorSound(cursor) /\ WriterSound
  BY DEF Load, SpoolInv
<1>2. from \in Cursors /\ (reset => from.offset = 0) /\ (~reset => from = cursor)
  <2>1. <<>> \in Seq(Units)
    BY EmptySeq
  <2> QED
    BY <1>1, <2>1 DEF Cursors
<1>3. goOn \in Polls /\ PollSound(goOn)
  <2>1. PICK w \in Polls : w = tailer[t]
    BY <1>1
  <2>2. PICK c \in Cursors : c = from
    BY <1>2
  <2>3. goOn = [w EXCEPT !.step = "read", !.cursor = c]
    BY <2>1, <2>2
  <2>4. w.file \in Files /\ w.file <= current
    BY <1>1, <2>1 DEF PollSound
  <2>5. ASSUME w.file \notin torn
        PROVE  w.size <= Len(files[w.file]) /\ c.offset <= w.size /\ Passed(w.file, c.offset)
    <3>1. w.size <= Len(files[w.file]) /\ w.size \in Nat
      BY <1>1, <2>1, <2>5 DEF PollSound, Polls
    <3>2. CASE reset
      <4>1. c.offset = 0
        BY <1>2, <2>2, <3>2
      <4>2. Len(files[w.file]) \in Nat
        BY <1>1, <2>4, WriterTyped, LenProperties
      <4> QED
        BY <3>1, <4>1, <4>2 DEF Passed, Boundary
    <3>3. CASE ~reset
      <4>1. c = cursor /\ ~Replaced(w.file, w.size)
        BY <1>2, <2>1, <2>2, <3>3
      <4> QED
        BY <1>1, <2>4, <2>5, <3>1, <4>1, UsedAsItIs
    <3> QED
      BY <3>2, <3>3
  <2> HIDE DEF from, goOn, reset
  <2>6. goOn \in Polls
    BY <2>3 DEF Polls
  <2>7. goOn.step = "read" /\ goOn.file = w.file /\ goOn.size = w.size /\ goOn.cursor = c
    BY <2>3 DEF Polls
  <2> QED
    BY <2>4, <2>5, <2>6, <2>7 DEF PollSound
<1>4. PICK w \in Polls : PollSound(w) /\ tailer' = [tailer EXCEPT ![t] = w]
  <2>1. tailer' = [tailer EXCEPT ![t] = IF from.offset = tailer[t].size THEN Resting ELSE goOn]
    BY DEF Load
  <2> HIDE DEF from, goOn
  <2> QED
    BY <1>3, <2>1, RestingIsSound
<1> QED
  BY <1>4, PollLooks DEF Load

LEMMA ReadBodyKeeps ==
    ASSUME TailAssumption, SpoolInv, NEW t \in Tailers, ReadBody(t)
    PROVE  SpoolInv'
<1>1. PICK w \in Polls : w = tailer[t] /\ PollSound(w) /\ w.step = "read"
  BY DEF ReadBody, SpoolInv
<1>2. WriterSound /\ w.file \in Files /\ w.file <= current
  BY <1>1 DEF SpoolInv, PollSound
<1>3. PICK c \in Seq(Units) : c = files[w.file]
  BY <1>2, WriterTyped
<1>4. PICK from \in Nat : from = w.cursor.offset
  BY DEF Polls, Cursors
<1>5. PICK to : to = SmallerOf(SmallerOf(w.size, from + MaxTailBatch), Len(c))
  OBVIOUS
<1>6. to \in Nat /\ to <= Len(c) /\ Len(c) \in Nat
  <2>1. Len(c) \in Nat /\ w.size \in Nat /\ MaxTailBatch \in Nat
    BY LenProperties DEF Polls, TailAssumption
  <2> QED
    BY <1>5, <2>1 DEF SmallerOf
<1>7. PICK body : body = SubSeq(c, from + 1, to)
  OBVIOUS
<1>8. /\ body \in Seq(Units) /\ Len(body) = IF from + 1 <= to THEN to - from ELSE 0
      /\ \A k \in 1 .. Len(body) : body[k] = c[from + k]
  <2>1. \A k \in from + 1 .. to : c[k] \in Units
    BY <1>6, ElementOfSeq
  <2>2. /\ body \in Seq(Units)
        /\ Len(body) = IF from + 1 <= to THEN to - (from + 1) + 1 ELSE 0
        /\ \A k \in 1 .. to - (from + 1) + 1 : body[k] = c[from + 1 + k - 1]
    BY <1>6, <1>7, <2>1, SubSeqProperties
  <2> QED
    BY <1>6, <2>2
<1>9. PICK n : n = Complete(body)
  OBVIOUS
<1>10. /\ n \in 0 .. Len(body)
       /\ \/ n = 0
          \/ n > 0 /\ EndsLine(body[n])
          \/ /\ n = Len(body) /\ Len(body) > MaxRecordBytes
             /\ \A k \in 1 .. Len(body) : ~EndsLine(body[k])
  BY <1>8, <1>9, CompleteMeans
<1>11. tailer' = [tailer EXCEPT ![t] = IF n = 0 THEN Resting
                     ELSE [w EXCEPT !.step = "import", !.body = SubSeq(body, 1, n),
                                    !.end = from + n]]
  BY <1>1, <1>3, <1>4, <1>5, <1>7, <1>9 DEF ReadBody
<1>12. CASE n = 0
  BY <1>11, <1>12, RestingIsSound, PollLooks DEF ReadBody
<1>13. CASE n # 0
  <2>1. PICK read : read = SubSeq(body, 1, n)
    OBVIOUS
  <2>2. n \in Nat /\ n > 0 /\ n <= Len(body) /\ Len(body) \in Nat
    BY <1>8, <1>10, <1>13, LenProperties
  <2>3. read \in Seq(Units) /\ Len(read) = n /\ \A k \in 1 .. n : read[k] = body[k]
    BY <1>8, <2>1, <2>2, Slice
  <2>4. PICK x : x = [w EXCEPT !.step = "import", !.body = read, !.end = from + n]
    OBVIOUS
  <2>5. x \in Polls /\ x.step = "import" /\ x.file = w.file /\ x.body = read /\ x.end = from + n
    <3>1. from + n \in Nat
      BY <2>2
    <3>2. x \in Polls
      BY <2>3, <2>4, <3>1 DEF Polls
    <3> QED
      BY <2>4, <3>2 DEF Polls
  <2>6. ASSUME w.file \notin torn PROVE BatchSound(w.file, read, from + n)
    <3>1. Passed(w.file, from)
      BY <1>1, <1>4, <2>6 DEF PollSound
    <3>2. from + n <= Len(c) /\ from + n - Len(read) = from
      BY <1>6, <1>8, <2>2, <2>3
    <3>3. \A k \in 1 .. n : read[k] = c[from + k]
      <4>1. \A k \in 1 .. n : k \in 1 .. Len(body)
        BY <2>2
      <4> QED
        BY <1>8, <2>3, <4>1
    <3>4. \/ EndsLine(read[n])
          \/ n > MaxRecordBytes /\ \A k \in 1 .. n : ~EndsLine(read[k])
      BY <1>10, <2>2, <2>3
    <3> QED
      BY <1>3, <2>2, <2>3, <3>1, <3>2, <3>3, <3>4 DEF BatchSound
  <2>7. PollSound(x)
    BY <1>2, <2>2, <2>5, <2>6 DEF PollSound
  <2>8. tailer' = [tailer EXCEPT ![t] = x]
    BY <1>11, <1>13, <2>1, <2>4
  <2> QED
    BY <2>5, <2>7, <2>8, PollLooks DEF ReadBody
<1> QED
  BY <1>12, <1>13

(* A piece of a file that begins where a line ends, or within a line that is  *)
(* too large, is of one line; it is its beginning unless the line is too      *)
(* large.                                                                     *)
LEMMA PieceOfFile ==
    ASSUME TailAssumption, NEW c \in Seq(Units), InOrder(c), NEW s \in Nat, NEW n \in Nat,
           n > 0, s + n <= Len(c), Boundary(c, s),
           \A k \in s + 1 .. s + n - 1 : ~EndsLine(c[k])
    PROVE  /\ c[s + n][1] = c[s + 1][1] /\ c[s + n][2] = c[s + 1][2] + (n - 1)
           /\ c[s + n][2] <= Size[c[s + 1][1]]
           /\ c[s + 1][2] = 1 \/ Size[c[s + 1][1]] > MaxRecordBytes
<1>1. Len(c) \in Nat /\ c # <<>>
  <2>1. Len(c) \in Nat /\ Len(c) # 0
    BY LenProperties
  <2> QED
    BY <2>1, EmptySeq
<1>2. s + 1 \in 1 .. Len(c) /\ s + n \in 1 .. Len(c) /\ s + 1 \in 1 .. s + n
  BY <1>1
<1>3. ~ \E e \in s + 1 .. s + n - 1 : c[e][1] = c[s + 1][1] /\ EndsLine(c[e])
  OBVIOUS
<1>4. c[s + n][1] = c[s + 1][1] /\ c[s + n][2] = c[s + 1][2] + ((s + n) - (s + 1))
  BY <1>2, <1>3 DEF InOrder
<1>5. (s + n) - (s + 1) = n - 1
  OBVIOUS
<1>6. c[s + n][2] <= Size[c[s + 1][1]]
  BY <1>2, <1>4 DEF InOrder
<1>7. c[s + 1][2] = 1 \/ Size[c[s + 1][1]] > MaxRecordBytes
  <2>1. CASE s = 0
    BY <1>1, <2>1 DEF InOrder
  <2>2. CASE s > 0 /\ EndsLine(c[s])
    <3>1. s \in 1 .. Len(c) - 1
      BY <1>1, <2>2
    <3> QED
      BY <2>2, <3>1 DEF InOrder
  <2>3. CASE s > 0 /\ ~EndsLine(c[s]) /\ Size[c[s][1]] > MaxRecordBytes
    <3>1. s \in 1 .. s + 1 /\ ~ \E e \in s .. (s + 1) - 1 : c[e][1] = c[s][1] /\ EndsLine(c[e])
      BY <2>3
    <3>2. c[s + 1][1] = c[s][1]
      BY <1>2, <3>1 DEF InOrder
    <3> QED
      BY <2>3, <3>2
  <2> QED
    BY <2>1, <2>2, <2>3 DEF Boundary
<1> QED
  BY <1>4, <1>5, <1>6, <1>7

(* What the import of a piece does to a poll that reads a file as it is.      *)
LEMMA PieceImported ==
    ASSUME TailAssumption, WriterSound, WriterSound', NEW f \in Files, files' = files,
           NEW body \in Seq(Units), body # <<>>, NEW end \in Nat, BatchSound(f, body, end),
           NEW piece, piece = Piece(body),
           accepted \subseteq accepted', quarantined \subseteq quarantined',
           IF Whole(piece) /\ Len(piece) <= MaxRecordBytes
           THEN piece[1][1] \in accepted' /\ quarantined' = quarantined
           ELSE quarantined' = quarantined \cup {piece[1][1]}
    PROVE  /\ BatchSound(f, SubSeq(body, Len(piece) + 1, Len(body)), end)'
           /\ quarantined' # quarantined => \E l \in Lines : /\ quarantined' = quarantined \cup {l}
                                                             /\ Size[l] > MaxRecordBytes
<1>1. PICK c \in Seq(Units) : c = files[f]
  BY WriterTyped
<1>2. InOrder(c)
  BY <1>1 DEF WriterSound
<1>3. Len(c) \in Nat /\ Len(body) \in Nat /\ Len(body) > 0 /\ MaxRecordBytes \in Nat
  BY LenProperties, EmptySeq DEF TailAssumption
<1>4. PICK n \in 1 .. Len(body) : /\ piece = SubSeq(body, 1, n)
                                  /\ \A k \in 1 .. n - 1 : ~EndsLine(body[k])
                                  /\ ~EndsLine(body[n]) => n = Len(body)
  BY PieceMeans
<1>5. n \in Nat /\ n > 0 /\ n <= Len(body)
  BY <1>3, <1>4
<1>6. Len(piece) = n /\ \A k \in 1 .. n : piece[k] = body[k]
  BY <1>3, <1>4, <1>5, Slice
<1>7. /\ Len(body) <= end /\ end <= Len(c)
      /\ \A k \in 1 .. Len(body) : body[k] = c[end - Len(body) + k]
      /\ Passed(f, end - Len(body))
      /\ \/ EndsLine(body[Len(body)])
         \/ Len(body) > MaxRecordBytes /\ \A k \in 1 .. Len(body) : ~EndsLine(body[k])
  BY <1>1 DEF BatchSound
<1>8. PICK s \in Nat : s = end - Len(body)
  BY <1>3, <1>7
<1>9. s + n \in Nat /\ s + n <= Len(c) /\ s + Len(body) = end
  BY <1>3, <1>5, <1>7, <1>8
<1>10. \A k \in 1 .. Len(body) : body[k] = c[s + k]
  BY <1>7, <1>8
<1>11. \A k \in s + 1 .. s + n - 1 : ~EndsLine(c[k])
  <2> SUFFICES ASSUME NEW k \in s + 1 .. s + n - 1 PROVE ~EndsLine(c[k])
    OBVIOUS
  <2>1. k - s \in 1 .. n - 1 /\ k - s \in 1 .. Len(body) /\ s + (k - s) = k
    BY <1>3, <1>5
  <2> QED
    BY <1>4, <1>10, <2>1
<1>12. PICK l : l = c[s + 1][1]
  OBVIOUS
<1>13. PICK k1 : k1 = c[s + 1][2]
  OBVIOUS
<1>14. /\ c[s + n][1] = l /\ c[s + n][2] = k1 + (n - 1) /\ c[s + n][2] <= Size[l]
       /\ k1 = 1 \/ Size[l] > MaxRecordBytes
  <2>1. Boundary(c, s)
    BY <1>1, <1>7, <1>8 DEF Passed
  <2> QED
    BY <1>2, <1>5, <1>9, <1>11, <1>12, <1>13, <2>1, PieceOfFile
<1>15. l \in Lines /\ k1 \in Nat /\ k1 > 0 /\ Size[l] \in Nat
  <2>1. s + 1 \in 1 .. Len(c)
    BY <1>3, <1>5, <1>9
  <2> QED
    BY <1>12, <1>13, <2>1, ContentTyped
<1>16. piece[1] = c[s + 1] /\ piece[Len(piece)] = c[s + n]
  <2>1. 1 \in 1 .. n /\ n \in 1 .. n /\ 1 \in 1 .. Len(body) /\ n \in 1 .. Len(body)
    BY <1>3, <1>5
  <2> QED
    BY <1>6, <1>10, <2>1
<1>17. piece[1][1] = l /\ (Whole(piece) <=> k1 + (n - 1) = Size[l] /\ k1 = 1)
  BY <1>12, <1>13, <1>14, <1>16 DEF Whole, EndsLine
<1>18. ~(Whole(piece) /\ Len(piece) <= MaxRecordBytes) => Size[l] > MaxRecordBytes
  <2>1. CASE EndsLine(c[s + n])
    <3>1. k1 + (n - 1) = Size[l]
      BY <1>14, <2>1 DEF EndsLine
    <3> QED
      BY <1>3, <1>5, <1>6, <1>14, <1>15, <1>17, <3>1
  <2>2. CASE ~EndsLine(c[s + n])
    <3>1. n \in 1 .. Len(body) /\ body[n] = c[s + n]
      BY <1>10
    <3>2. n = Len(body) /\ n > MaxRecordBytes
      BY <1>4, <1>7, <2>2, <3>1
    <3> QED
      BY <1>3, <1>5, <1>14, <1>15, <3>2
  <2> QED
    BY <2>1, <2>2
<1>19. EndsLine(c[s + n]) => Dealt(l)'
  <2> SUFFICES ASSUME EndsLine(c[s + n]) PROVE Dealt(l)'
    OBVIOUS
  <2>1. k1 + (n - 1) = Size[l]
    BY <1>14 DEF EndsLine
  <2>2. CASE Whole(piece) /\ Len(piece) <= MaxRecordBytes
    <3>1. Size[l] = n /\ n <= MaxRecordBytes
      BY <1>5, <1>6, <1>15, <1>17, <2>1, <2>2
    <3>2. l \in accepted'
      BY <1>17, <2>2
    <3> QED
      BY <3>1, <3>2 DEF Dealt
  <2>3. CASE ~(Whole(piece) /\ Len(piece) <= MaxRecordBytes)
    <3>1. l \in quarantined' /\ ~(Size[l] <= MaxRecordBytes)
      BY <1>3, <1>15, <1>17, <1>18, <2>3
    <3> QED
      BY <3>1 DEF Dealt
  <2> QED
    BY <2>2, <2>3
<1>20. Passed(f, s + n)'
  <2>1. Boundary(c, s + n)
    <3>1. CASE EndsLine(c[s + n])
      BY <3>1 DEF Boundary
    <3>2. CASE ~EndsLine(c[s + n])
      <4>1. Size[c[s + n][1]] > MaxRecordBytes
        BY <1>14, <1>17, <1>18, <3>2 DEF EndsLine
      <4> QED
        BY <4>1 DEF Boundary
    <3> QED
      BY <3>1, <3>2
  <2>2. ASSUME NEW k \in 1 .. s + n, EndsLine(c[k]) PROVE Dealt(c[k][1])'
    <3>1. CASE k \in 1 .. s
      <4>1. Dealt(c[k][1])
        BY <1>1, <1>7, <1>8, <2>2, <3>1 DEF Passed
      <4> QED
        BY <4>1 DEF Dealt
    <3>2. CASE k \in s + 1 .. s + n - 1
      BY <1>11, <2>2, <3>2
    <3>3. CASE k = s + n
      BY <1>14, <1>19, <2>2, <3>3
    <3>4. k \in 1 .. s \/ k \in s + 1 .. s + n - 1 \/ k = s + n
      BY <1>5
    <3> QED
      BY <3>1, <3>2, <3>3, <3>4
  <2>3. files'[f] = c /\ s + n \in 0 .. Len(c)
    BY <1>1, <1>9
  <2> QED
    BY <2>1, <2>2, <2>3 DEF Passed, Boundary, EndsLine
<1>21. PICK rest : rest = SubSeq(body, n + 1, Len(body))
  OBVIOUS
<1>22. /\ rest \in Seq(Units) /\ Len(rest) = Len(body) - n
       /\ \A k \in 1 .. Len(body) - n : rest[k] = body[n + k]
  <2>1. /\ rest \in Seq(Units) /\ Len(rest) = Len(body) + 1 - (n + 1)
        /\ \A k \in 1 .. Len(body) + 1 - (n + 1) : rest[k] = body[n + 1 + k - 1]
    <3>1. n + 1 \in Nat /\ 1 <= n + 1 /\ n + 1 <= Len(body) + 1 /\ Len(body) <= Len(body)
      BY <1>3, <1>5
    <3> QED
      BY <1>3, <1>21, <3>1, Slice
  <2> QED
    BY <1>3, <1>5, <2>1
<1>23. BatchSound(f, rest, end)'
  <2>1. Len(rest) <= end /\ end <= Len(c) /\ end - Len(rest) = s + n
    BY <1>3, <1>5, <1>7, <1>8, <1>22
  <2>2. ASSUME NEW k \in 1 .. Len(rest) PROVE rest[k] = c[end - Len(rest) + k]
    <3>1. n + k \in 1 .. Len(body) /\ s + (n + k) = end - Len(rest) + k /\ rest[k] = body[n + k]
      <4>1. k \in 1 .. Len(body) - n
        BY <1>22
      <4>2. k \in Nat /\ n + k \in 1 .. Len(body) /\ s + (n + k) = (s + n) + k
        BY <1>3, <1>5, <4>1
      <4> QED
        BY <1>22, <2>1, <4>1, <4>2
    <3> QED
      BY <1>10, <3>1
  <2>3. \/ rest = <<>>
        \/ EndsLine(rest[Len(rest)])
    <3>1. CASE Len(rest) = 0
      BY <1>22, <3>1, EmptySeq
    <3>2. CASE Len(rest) # 0
      <4>1. n # Len(body) /\ n \in 1 .. Len(body) /\ Len(rest) \in 1 .. Len(body) - n
            /\ n + Len(rest) = Len(body)
        BY <1>3, <1>5, <1>22, <3>2
      <4>2. EndsLine(body[Len(body)])
        BY <1>4, <1>7, <4>1
      <4> QED
        BY <1>22, <4>1, <4>2
    <3> QED
      BY <3>1, <3>2
  <2> QED
    BY <1>1, <1>20, <2>1, <2>2, <2>3 DEF BatchSound, EndsLine
<1> QED
  BY <1>6, <1>15, <1>17, <1>18, <1>21, <1>23

LEMMA ImportPieceKeeps ==
    ASSUME TailAssumption, SpoolInv, NEW t \in Tailers, ImportPiece(t)
    PROVE  SpoolInv'
<1>1. PICK w \in Polls : w = tailer[t] /\ PollSound(w) /\ w.step = "import" /\ w.body # <<>>
  BY DEF ImportPiece, SpoolInv
<1>2. WriterSound /\ WriterSound' /\ w.file \in Files /\ w.file <= current /\ w.end > 0
  <2>1. WriterSound /\ UNCHANGED <<files, current, written>>
    BY DEF ImportPiece, SpoolInv
  <2> QED
    BY <1>1, <2>1, WriterWaits DEF PollSound
<1>3. w.body \in Seq(Units) /\ w.end \in Nat
  BY DEF Polls
<1>4. PICK piece : piece = Piece(w.body)
  OBVIOUS
<1>5. /\ accepted \subseteq accepted' /\ quarantined \subseteq quarantined'
      /\ IF Whole(piece) /\ Len(piece) <= MaxRecordBytes
         THEN piece[1][1] \in accepted' /\ quarantined' = quarantined
         ELSE quarantined' = quarantined \cup {piece[1][1]}
  BY <1>1, <1>4 DEF ImportPiece
<1>6. PICK rest : rest = SubSeq(w.body, Len(piece) + 1, Len(w.body))
  OBVIOUS
<1>7. rest \in Seq(Units)
  <2>1. PICK n \in 1 .. Len(w.body) : piece = SubSeq(w.body, 1, n)
    BY <1>1, <1>3, <1>4, PieceMeans
  <2>2. n \in Nat /\ n <= Len(w.body) /\ Len(w.body) \in Nat
    BY <1>3, <2>1, LenProperties
  <2>3. Len(piece) = n
    BY <1>3, <2>1, <2>2, Slice
  <2> QED
    BY <1>3, <1>6, <2>2, <2>3, Slice
<1>8. PICK x : x = [w EXCEPT !.body = rest]
  OBVIOUS
<1>9. x \in Polls /\ x.step = "import" /\ x.file = w.file /\ x.body = rest /\ x.end = w.end
  BY <1>1, <1>7, <1>8 DEF Polls
<1>10. tailer' = [tailer EXCEPT ![t] = x]
  BY <1>1, <1>4, <1>6, <1>8 DEF ImportPiece, SpoolInv
<1>11. w.file \notin torn => /\ BatchSound(w.file, rest, w.end)'
                             /\ quarantined' # quarantined =>
                                   \E l \in Lines : /\ quarantined' = quarantined \cup {l}
                                                    /\ Size[l] > MaxRecordBytes
  <2> SUFFICES ASSUME w.file \notin torn
               PROVE  /\ BatchSound(w.file, rest, w.end)'
                      /\ quarantined' # quarantined =>
                            \E l \in Lines : /\ quarantined' = quarantined \cup {l}
                                             /\ Size[l] > MaxRecordBytes
    OBVIOUS
  <2>1. BatchSound(w.file, w.body, w.end) /\ files' = files
    BY <1>1 DEF PollSound, ImportPiece
  <2> QED
    BY <1>1, <1>2, <1>3, <1>4, <1>5, <1>6, <2>1, PieceImported
<1>12. PollSound(x)'
  BY <1>2, <1>9, <1>11 DEF PollSound, ImportPiece
<1>13. OnlyOversizedQuarantined'
  <2>1. OnlyOversizedQuarantined /\ torn' = torn
    BY DEF SpoolInv, ImportPiece
  <2> QED
    BY <1>11, <2>1 DEF OnlyOversizedQuarantined
<1>14. PICK c \in Cursors : c = cursor /\ CursorSound(c)
  BY DEF SpoolInv
<1>15. cursor' = c /\ UNCHANGED <<files, current, written, torn>>
  BY <1>14 DEF ImportPiece
<1>16. CursorSound(c)'
  <2>1. \A f \in Files : Grows(f)
    BY <1>2, <1>15, WriterTyped, ContentTyped DEF Grows
  <2>2. SpoolKept
    <3>1. current \in Nat /\ written[1] \in Nat
      BY <1>2, WriterTyped
    <3> QED
      BY <1>5, <1>15, <3>1 DEF SpoolKept
  <2>3. c.file # 0 => c.file \in Files
    BY DEF Cursors
  <2> QED
    BY <1>2, <1>14, <2>1, <2>2, <2>3, CursorStands
<1> QED
  BY <1>5, <1>9, <1>10, <1>12, <1>13, <1>15, <1>16, PollGoesOn

LEMMA CheckpointKeeps ==
    ASSUME TailAssumption, SpoolInv, NEW t \in Tailers, Checkpoint(t)
    PROVE  SpoolInv'
<1>1. PICK w \in Polls : w = tailer[t] /\ PollSound(w) /\ w.step = "import" /\ w.body = <<>>
  BY DEF Checkpoint, MayCheckpoint, SpoolInv
<1>2. WriterSound /\ w.file \in Files /\ w.file <= current /\ w.end > 0 /\ w.end \in Nat
  BY <1>1 DEF SpoolInv, PollSound, Polls
<1>3. PICK c \in Seq(Units) : c = files[w.file]
  BY <1>2, WriterTyped
<1>4. PICK bytes : bytes = SmallerOf(PrefixBytes, w.end)
  OBVIOUS
<1>5. bytes \in Nat /\ bytes > 0 /\ bytes <= w.end
  BY <1>2, <1>4 DEF SmallerOf, TailAssumption
<1>6. PICK m : m = SmallerOf(bytes, Len(c))
  OBVIOUS
<1>7. m \in Nat /\ m <= Len(c) /\ (Len(c) > 0 => m > 0) /\ Len(c) \in Nat
  BY <1>5, <1>6, LenProperties DEF SmallerOf
<1>8. PICK p : p = SubSeq(c, 1, m)
  OBVIOUS
<1>9. p \in Seq(Units) /\ Len(p) = m /\ \A k \in 1 .. m : p[k] = c[k]
  <2>1. 1 \in Nat /\ 1 <= 1 /\ 1 <= m + 1
    BY <1>7
  <2> QED
    BY <1>7, <1>8, <2>1, Slice
<1>10. PICK x : x = [offset |-> w.end, file |-> w.file, bytes |-> bytes, prefix |-> p]
  OBVIOUS
<1>11. x \in Cursors
  BY <1>2, <1>5, <1>9, <1>10 DEF Cursors
<1>12. cursor' = x /\ tailer' = [tailer EXCEPT ![t] = Resting]
       /\ UNCHANGED <<files, current, written, accepted, quarantined, torn>>
  BY <1>1, <1>3, <1>4, <1>6, <1>8, <1>10 DEF Checkpoint, Prefix
<1>13. ASSUME w.file \notin torn
       PROVE  /\ p # <<>> /\ p[1][1] <= written[1]
              /\ Passed(w.file, w.end)
  <2>1. BatchSound(w.file, <<>>, w.end)
    BY <1>1, <1>13 DEF PollSound
  <2>2. w.end <= Len(c) /\ Passed(w.file, w.end - Len(<<>>))
    BY <1>3, <2>1 DEF BatchSound
  <2>3. Len(<<>>) = 0 /\ w.end - 0 = w.end
    BY <1>2, EmptySeq
  <2>4. Passed(w.file, w.end)
    BY <2>2, <2>3
  <2>5. m > 0 /\ 1 \in 1 .. m /\ 1 \in 1 .. Len(c)
    BY <1>2, <1>7, <2>2
  <2>6. p # <<>>
    BY <1>9, <2>5, EmptySeq
  <2>7. p[1] = c[1] /\ c[1][1] <= written[1]
    BY <1>2, <1>3, <1>9, <2>5 DEF WriterSound
  <2> QED
    BY <2>4, <2>6, <2>7
<1>14. CursorSound(x)
  <2>1. x.offset = w.end /\ x.file = w.file /\ x.bytes = bytes /\ x.prefix = p
    BY <1>10
  <2>2. w.file # 0
    BY <1>2 DEF TailAssumption
  <2> QED
    BY <1>2, <1>5, <1>13, <2>1, <2>2 DEF CursorSound
<1>15. CursorSound(x)'
  <2>1. WriterSound'
    BY <1>2, <1>12, WriterWaits
  <2>2. \A f \in Files : Grows(f)
    BY <1>2, <1>12, WriterTyped, ContentTyped DEF Grows
  <2>3. SpoolKept
    <3>1. current \in Nat /\ written[1] \in Nat
      BY <1>2, WriterTyped
    <3> QED
      BY <1>12, <3>1 DEF SpoolKept
  <2>4. x.file # 0 => x.file \in Files
    BY <1>11 DEF Cursors
  <2> QED
    BY <1>2, <1>11, <1>14, <2>1, <2>2, <2>3, <2>4, CursorStands
<1>16. Resting \in Polls /\ PollSound(Resting)'
  BY RestingIsSound DEF Resting, PollSound
<1>17. OnlyOversizedQuarantined'
  BY <1>12 DEF SpoolInv, OnlyOversizedQuarantined
<1> QED
  BY <1>11, <1>12, <1>15, <1>16, <1>17, PollGoesOn

-----------------------------------------------------------------------------
(* The steps of the hook and of the file system. *)

LEMMA SurroundingsMove ==
    ASSUME TailAssumption, SpoolInv, WriterSound', SpoolKept,
           UNCHANGED <<cursor, tailer, quarantined>>,
           \A f \in Files : Grows(f) \/ files'[f] = <<>>,
           \A f \in Files : f \notin torn' =>
               Grows(f) \/ \A t \in Tailers : tailer[t].step # "rest" => tailer[t].file # f
    PROVE  SpoolInv'
<1>1. WriterSound /\ \A t \in Tailers : tailer[t] \in Polls /\ PollSound(tailer[t])
  BY DEF SpoolInv
<1>2. ASSUME NEW t \in Tailers PROVE PollSound(tailer[t])'
  <2>1. PICK w \in Polls : w = tailer[t] /\ PollSound(w)
    BY <1>1
  <2>2. w.step # "rest" => w.file \in Files
    BY <2>1 DEF PollSound
  <2>3. (w.step # "rest" /\ w.file \notin torn') => Grows(w.file)
    BY <2>1, <2>2
  <2>4. PollSound(w)'
    BY <1>1, <2>1, <2>3, PollStands
  <2> QED
    BY <2>1, <2>4
<1>3. PICK c \in Cursors : c = cursor /\ CursorSound(c)
  BY DEF SpoolInv
<1>4. CursorSound(c)'
  <2>1. c.file # 0 => c.file \in Files
    BY DEF Cursors
  <2> QED
    BY <1>1, <1>3, <2>1, CursorStands
<1>5. CursorSound(cursor)'
  BY <1>3, <1>4
<1>6. OnlyOversizedQuarantined'
  BY DEF SpoolInv, OnlyOversizedQuarantined, SpoolKept
<1> QED
  BY <1>2, <1>5, <1>6 DEF SpoolInv

(* What is appended to a file in order is in order when it goes on with the   *)
(* line of the last unit, or begins a line after the end of one.              *)
LEMMA AppendedInOrder ==
    ASSUME TailAssumption, NEW c \in Seq(Units), InOrder(c), NEW u \in Units,
           u[2] <= Size[u[1]],
           c = <<>> \/ EndsLine(c[Len(c)]) => u[2] = 1,
           c # <<>> /\ ~EndsLine(c[Len(c)]) => u = <<c[Len(c)][1], c[Len(c)][2] + 1>>
    PROVE  InOrder(Append(c, u))
<1>1. PICK n \in Nat : n = Len(c)
  BY LenProperties
<1>2. PICK d \in Seq(Units) : d = Append(c, u)
  BY AppendProperties
<1>3. Len(d) = n + 1 /\ d[n + 1] = u /\ \A k \in 1 .. n : d[k] = c[k]
  BY <1>1, <1>2, AppendProperties
<1>4. \A k \in 1 .. Len(d) : d[k][2] <= Size[d[k][1]]
  BY <1>1, <1>3 DEF InOrder
<1>5. d[1][2] = 1
  <2>1. CASE n = 0
    <3>1. c = <<>>
      BY <1>1, <2>1, EmptySeq
    <3> QED
      BY <1>3, <2>1, <3>1
  <2>2. CASE n # 0
    <3>1. c # <<>> /\ 1 \in 1 .. n
      BY <1>1, <2>2, EmptySeq
    <3> QED
      BY <1>3, <3>1 DEF InOrder
  <2> QED
    BY <2>1, <2>2
<1>6. ASSUME NEW k \in 1 .. Len(d) - 1, EndsLine(d[k]) PROVE d[k + 1][2] = 1
  <2>1. CASE k = n
    <3>1. k \in 1 .. n
      BY <1>3
    <3> QED
      BY <1>1, <1>3, <1>6, <2>1, <3>1
  <2>2. CASE k # n
    <3>1. k \in 1 .. Len(c) - 1 /\ k \in 1 .. n /\ k + 1 \in 1 .. n
      BY <1>1, <1>3, <2>2
    <3> QED
      BY <1>3, <1>6, <3>1 DEF InOrder
  <2> QED
    BY <2>1, <2>2
<1>7. ASSUME NEW k \in 1 .. Len(d), NEW j \in 1 .. k
      PROVE  \/ d[k][1] = d[j][1] /\ d[k][2] = d[j][2] + (k - j)
             \/ \E e \in j .. k - 1 : d[e][1] = d[j][1] /\ EndsLine(d[e])
  <2>1. CASE k \in 1 .. n
    <3>1. j \in 1 .. n /\ \A e \in j .. k - 1 : e \in 1 .. n
      BY <1>1, <2>1
    <3>2. \/ c[k][1] = c[j][1] /\ c[k][2] = c[j][2] + (k - j)
          \/ \E e \in j .. k - 1 : c[e][1] = c[j][1] /\ EndsLine(c[e])
      BY <1>1, <2>1 DEF InOrder
    <3> QED
      BY <1>3, <2>1, <3>1, <3>2
  <2>2. CASE k = n + 1 /\ j = n + 1
    <3>1. d[k] \in Units /\ k - j = 0
      BY <1>3, <2>2
    <3>2. d[k][2] \in Nat
      BY <3>1, UnitTyped
    <3> QED
      BY <2>2, <3>1, <3>2
  <2>3. CASE k = n + 1 /\ j \in 1 .. n
    <3>1. n \in 1 .. n /\ n \in 1 .. Len(c) /\ j \in Nat /\ c # <<>>
      BY <1>1, <2>3, EmptySeq
    <3>2. CASE \E e \in j .. n - 1 : c[e][1] = c[j][1] /\ EndsLine(c[e])
      <4>1. PICK e \in j .. n - 1 : c[e][1] = c[j][1] /\ EndsLine(c[e])
        BY <3>2
      <4>2. e \in 1 .. n /\ e \in j .. k - 1
        BY <2>3, <3>1
      <4> QED
        BY <1>3, <2>3, <4>1, <4>2
    <3>3. CASE c[n][1] = c[j][1] /\ c[n][2] = c[j][2] + (n - j)
      <4>1. CASE EndsLine(c[n])
        <5>1. n \in j .. k - 1
          BY <2>3, <3>1
        <5> QED
          BY <1>3, <2>3, <3>1, <3>3, <4>1, <5>1
      <4>2. CASE ~EndsLine(c[n])
        <5>1. u[1] = c[n][1] /\ u[2] = c[n][2] + 1
          BY <1>1, <3>1, <4>2
        <5>2. c[j][2] \in Nat /\ k - j = (n - j) + 1
          <6>1. j \in 1 .. Len(c)
            BY <1>1, <2>3
          <6> QED
            BY <2>3, <3>1, <6>1, ContentTyped
        <5>3. u[2] = c[j][2] + (k - j)
          BY <3>1, <3>3, <5>1, <5>2
        <5> QED
          BY <1>3, <2>3, <3>3, <5>1, <5>3
      <4> QED
        BY <4>1, <4>2
    <3> QED
      BY <1>1, <2>3, <3>1, <3>2, <3>3 DEF InOrder
  <2>4. k \in 1 .. n \/ k = n + 1
    BY <1>3
  <2>5. j \in 1 .. n \/ j = n + 1 \/ k \in 1 .. n
    BY <1>3, <2>4
  <2> QED
    BY <2>1, <2>2, <2>3, <2>4, <2>5
<1>8. InOrder(d)
  BY <1>4, <1>5, <1>6, <1>7 DEF InOrder
<1> QED
  BY <1>2, <1>8

LEMMA HookAppendsKeeps ==
    ASSUME TailAssumption, SpoolInv, HookAppends
    PROVE  SpoolInv'
<1>1. WriterSound
  BY DEF SpoolInv
<1>2. PICK c \in Seq(Units) : c = files[current]
  BY <1>1, WriterTyped DEF WriterSound
<1>3. current \in Files /\ current \in Nat /\ Files \subseteq Nat /\ files \in [Files -> Seq(Units)]
      /\ written[1] \in Nat /\ written[2] \in Nat
  BY <1>1, WriterTyped DEF WriterSound
<1>4. PICK u : u = IF AtLineEnd THEN <<written[1] + 1, 1>> ELSE <<written[1], written[2] + 1>>
  OBVIOUS
<1>5. u[1] \in Lines /\ written' = u /\ files' = [files EXCEPT ![current] = Append(c, u)]
      /\ UNCHANGED <<current, cursor, tailer, accepted, quarantined, torn>>
  BY <1>2, <1>4 DEF HookAppends
<1>6. written[1] <= u[1] /\ u[1] \in Nat
  BY <1>3, <1>4
<1>7. ~AtLineEnd => /\ written \in Units /\ written[2] < Size[written[1]]
                    /\ u = <<written[1], written[2] + 1>>
  <2> SUFFICES ASSUME ~AtLineEnd
               PROVE  /\ written \in Units /\ written[2] < Size[written[1]]
                      /\ u = <<written[1], written[2] + 1>>
    OBVIOUS
  <2>1. written \in Units /\ written[2] <= Size[written[1]]
    BY <1>1 DEF WriterSound, AtLineEnd
  <2>2. written[1] > 0 /\ written[2] \in Nat /\ Size[written[1]] \in Nat /\ written[1] \in Nat
    BY <2>1, UnitTyped
  <2>3. written[2] # Size[written[1]]
    BY <2>2 DEF AtLineEnd
  <2> QED
    BY <1>4, <2>1, <2>2, <2>3
<1>8. u \in Units /\ u[2] <= Size[u[1]]
  <2>1. Size[u[1]] \in Nat /\ Size[u[1]] > 0
    <3>1. PICK l \in Lines : l = u[1]
      BY <1>5
    <3>2. Size[l] \in Nat \ {0}
      BY DEF TailAssumption
    <3> QED
      BY <3>1, <3>2
  <2>2. CASE AtLineEnd
    <3>1. u = <<written[1] + 1, 1>>
      BY <1>4, <2>2
    <3> QED
      BY <1>5, <2>1, <3>1 DEF Units
  <2>3. CASE ~AtLineEnd
    <3>1. u = <<written[1], written[2] + 1>> /\ written[2] + 1 \in Nat \ {0}
          /\ written[2] + 1 <= Size[written[1]]
      BY <1>3, <1>7, <2>1, <2>3
    <3> QED
      BY <1>5, <3>1 DEF Units
  <2> QED
    BY <2>2, <2>3
<1>9. c # <<>> => c[Len(c)] = written
  BY <1>1, <1>2 DEF WriterSound
<1>10. c = <<>> \/ EndsLine(c[Len(c)]) => AtLineEnd
  <2>1. c = <<>> => AtLineEnd
    BY <1>1, <1>2 DEF WriterSound
  <2>2. ASSUME c # <<>>, EndsLine(c[Len(c)]) PROVE AtLineEnd
    <3>1. Len(c) \in 1 .. Len(c) /\ c[Len(c)] = written
      BY <1>9, <2>2, EmptySeq, LenProperties
    <3>2. written[1] > 0
      BY <3>1, ContentTyped
    <3> QED
      BY <2>2, <3>1, <3>2 DEF AtLineEnd, EndsLine
  <2> QED
    BY <2>1, <2>2
<1>11. InOrder(Append(c, u))
  <2>1. InOrder(c)
    BY <1>1, <1>2, <1>3 DEF WriterSound
  <2>2. c = <<>> \/ EndsLine(c[Len(c)]) => u[2] = 1
    BY <1>4, <1>10
  <2>3. c # <<>> /\ ~EndsLine(c[Len(c)]) => ~AtLineEnd
    <3> SUFFICES ASSUME c # <<>>, ~EndsLine(c[Len(c)]) PROVE ~AtLineEnd
      OBVIOUS
    <3>1. Len(c) \in 1 .. Len(c) /\ c[Len(c)] = written
      BY <1>9, EmptySeq, LenProperties
    <3>2. written[1] > 0
      BY <3>1, ContentTyped
    <3> QED
      BY <3>1, <3>2 DEF AtLineEnd, EndsLine
  <2>4. c # <<>> /\ ~EndsLine(c[Len(c)]) => u = <<c[Len(c)][1], c[Len(c)][2] + 1>>
    BY <1>7, <1>9, <2>3
  <2> QED
    BY <1>8, <2>1, <2>2, <2>4, AppendedInOrder
<1>12. PICK d \in Seq(Units) : d = Append(c, u)
  BY <1>8, AppendProperties
<1>13. /\ Len(d) = Len(c) + 1 /\ d[Len(c) + 1] = u /\ Len(c) \in Nat
       /\ \A k \in 1 .. Len(c) : d[k] = c[k]
  BY <1>8, <1>12, AppendProperties, LenProperties
<1>14. d # <<>> /\ d[Len(d)] = u
  BY <1>13, EmptySeq
<1>15. /\ files' \in [Files -> Seq(Units)] /\ files'[current] = d
       /\ \A f \in Files \ {current} : files'[f] = files[f]
  BY <1>3, <1>5, <1>12
<1>16. WriterSound'
  <2>1. ASSUME NEW f \in Files
        PROVE  /\ InOrder(files'[f]) /\ (f > current => files'[f] = <<>>)
               /\ \A k \in 1 .. Len(files'[f]) : files'[f][k][1] <= u[1]
    <3>1. CASE f = current
      <4>1. ASSUME NEW k \in 1 .. Len(d) PROVE d[k][1] <= u[1]
        <5>1. CASE k = Len(c) + 1
          BY <1>6, <1>13, <5>1
        <5>2. CASE k # Len(c) + 1
          <6>1. k \in 1 .. Len(c)
            BY <1>13, <5>2
          <6>2. d[k][1] <= written[1] /\ d[k][1] \in Nat
            BY <1>1, <1>2, <1>3, <1>13, <6>1, ContentTyped DEF WriterSound
          <6> QED
            BY <1>3, <1>6, <6>2
        <5> QED
          BY <5>1, <5>2
      <4>2. ~(f > current)
        BY <1>3, <3>1
      <4> QED
        BY <1>11, <1>12, <1>15, <3>1, <4>1, <4>2
    <3>2. CASE f # current
      <4>1. files'[f] = files[f]
        BY <1>15, <3>2
      <4>2. /\ InOrder(files[f]) /\ (f > current => files[f] = <<>>)
            /\ \A k \in 1 .. Len(files[f]) : files[f][k][1] <= written[1]
        BY <1>1 DEF WriterSound
      <4>3. \A k \in 1 .. Len(files[f]) : files[f][k][1] <= u[1]
        <5>1. \A k \in 1 .. Len(files[f]) : files[f][k][1] \in Nat
          BY <1>1, WriterTyped, ContentTyped
        <5> QED
          BY <1>3, <1>6, <4>2, <5>1
      <4> QED
        BY <4>1, <4>2, <4>3
    <3> QED
      BY <3>1, <3>2
  <2>2. files'[current] # <<>> /\ files'[current][Len(files'[current])] = u
    BY <1>14, <1>15
  <2>3. current' = current /\ written' = u
    BY <1>5
  <2>4. \A f \in Files : InOrder(files[f])'
    BY <2>1 DEF InOrder, EndsLine
  <2> QED
    BY <1>3, <1>8, <1>15, <2>1, <2>2, <2>3, <2>4 DEF WriterSound
<1>17. \A f \in Files : Grows(f)
  <2> SUFFICES ASSUME NEW f \in Files PROVE Grows(f)
    OBVIOUS
  <2>1. CASE f = current
    BY <1>2, <1>13, <1>15, <2>1 DEF Grows
  <2>2. CASE f # current
    <3>1. Len(files[f]) \in Nat /\ files'[f] = files[f]
      BY <1>1, <1>15, <2>2, WriterTyped, LenProperties
    <3> QED
      BY <3>1 DEF Grows
  <2> QED
    BY <2>1, <2>2
<1>18. SpoolKept
  <2>1. ASSUME NEW f \in Files, files[f] = <<>>, files'[f] # <<>>
        PROVE  files'[f][1][1] > written[1]
    <3>1. f = current /\ c = <<>>
      BY <1>2, <1>15, <2>1
    <3>2. files'[f][1] = u
      BY <1>13, <1>15, <3>1, EmptySeq
    <3>3. u[1] = written[1] + 1
      BY <1>4, <1>10, <3>1
    <3> QED
      BY <1>3, <3>2, <3>3
  <2>2. current <= current' /\ written[1] <= written'[1]
    BY <1>3, <1>5, <1>6
  <2> QED
    BY <1>5, <2>1, <2>2 DEF SpoolKept
<1> QED
  BY <1>5, <1>16, <1>17, <1>18, SurroundingsMove

LEMMA RotateKeeps ==
    ASSUME TailAssumption, SpoolInv, Rotate
    PROVE  SpoolInv'
<1>1. WriterSound /\ current \in Nat /\ written[1] \in Nat /\ Files \subseteq Nat
  BY WriterTyped DEF SpoolInv
<1>2. /\ current' = current + 1 /\ current' \in Files /\ AtLineEnd
      /\ UNCHANGED <<files, written, cursor, tailer, accepted, quarantined, torn>>
  BY DEF Rotate
<1>3. \A f \in Files : f > current' => f > current
  BY <1>1, <1>2
<1>4. files[current'] = <<>>
  BY <1>1, <1>2 DEF WriterSound
<1>5. AtLineEnd'
  BY <1>2 DEF AtLineEnd
<1>6. \A f \in Files : InOrder(files[f])'
  BY <1>1, <1>2 DEF WriterSound, InOrder, EndsLine
<1>7. WriterSound'
  BY <1>1, <1>2, <1>3, <1>4, <1>5, <1>6 DEF WriterSound
<1>8. \A f \in Files : Grows(f)
  BY <1>1, <1>2, WriterTyped, ContentTyped DEF Grows
<1>9. SpoolKept
  BY <1>1, <1>2 DEF SpoolKept
<1> QED
  BY <1>2, <1>7, <1>8, <1>9, SurroundingsMove

LEMMA ReplaceInPlaceKeeps ==
    ASSUME TailAssumption, SpoolInv, ReplaceInPlace
    PROVE  SpoolInv'
<1>1. WriterSound /\ current \in Files /\ current \in Nat /\ written[1] \in Nat
      /\ files \in [Files -> Seq(Units)]
  BY WriterTyped DEF SpoolInv, WriterSound
<1>2. /\ AtLineEnd /\ files' = [files EXCEPT ![current] = <<>>]
      /\ torn \subseteq torn'
      /\ (\E t \in Tailers : tailer[t].step # "rest" /\ tailer[t].file = current)
             => current \in torn'
      /\ UNCHANGED <<current, written, cursor, tailer, accepted, quarantined>>
  BY DEF ReplaceInPlace
<1>3. <<>> \in Seq(Units) /\ Len(<<>>) = 0
  BY EmptySeq
<1>4. /\ files' \in [Files -> Seq(Units)] /\ files'[current] = <<>>
      /\ \A f \in Files \ {current} : files'[f] = files[f]
  BY <1>1, <1>2, <1>3
<1>5. \A f \in Files : InOrder(files[f])'
  <2> SUFFICES ASSUME NEW f \in Files PROVE InOrder(files[f])'
    OBVIOUS
  <2>1. CASE f = current
    BY <1>3, <1>4, <2>1 DEF InOrder
  <2>2. CASE f # current
    <3>1. InOrder(files[f]) /\ files'[f] = files[f]
      BY <1>1, <1>4, <2>2 DEF WriterSound
    <3> QED
      BY <3>1 DEF InOrder, EndsLine
  <2> QED
    BY <2>1, <2>2
<1>6. AtLineEnd'
  BY <1>2 DEF AtLineEnd
<1>7. WriterSound'
  <2>1. \A f \in Files : /\ f > current => files'[f] = <<>>
                         /\ \A k \in 1 .. Len(files'[f]) : files'[f][k][1] <= written[1]
    <3> SUFFICES ASSUME NEW f \in Files
                 PROVE  /\ f > current => files'[f] = <<>>
                        /\ \A k \in 1 .. Len(files'[f]) : files'[f][k][1] <= written[1]
      OBVIOUS
    <3>1. CASE f = current
      BY <1>3, <1>4, <3>1
    <3>2. CASE f # current
      BY <1>1, <1>4, <3>2 DEF WriterSound
    <3> QED
      BY <3>1, <3>2
  <2> QED
    BY <1>1, <1>2, <1>4, <1>5, <1>6, <2>1 DEF WriterSound
<1>8. \A f \in Files \ {current} : Grows(f)
  BY <1>1, <1>4, WriterTyped, ContentTyped DEF Grows
<1>9. SpoolKept
  BY <1>1, <1>2, <1>4 DEF SpoolKept
<1> QED
  BY <1>2, <1>4, <1>7, <1>8, <1>9, SurroundingsMove

-----------------------------------------------------------------------------
(* The invariant. *)

LEMMA TailInitSound == TailAssumption /\ TailInit => SpoolInv
<1> SUFFICES ASSUME TailAssumption, TailInit PROVE SpoolInv
  OBVIOUS
<1>1. <<>> \in Seq(Units) /\ Len(<<>>) = 0
  BY EmptySeq
<1>2. \A f \in Files : files[f] = <<>>
  BY DEF TailInit
<1>3. InOrder(<<>>)
  BY <1>1 DEF InOrder
<1>4. current \in Files /\ AtLineEnd /\ written = <<0, 0>>
  BY DEF TailInit, TailAssumption, AtLineEnd
<1>5. files \in [Files -> Seq(Units)]
  BY <1>1 DEF TailInit
<1>6. WriterSound
  BY <1>1, <1>2, <1>3, <1>4, <1>5 DEF WriterSound
<1>7. cursor \in Cursors /\ CursorSound(cursor)
  BY <1>1 DEF TailInit, NoCursor, Cursors, CursorSound
<1>8. tailer \in [Tailers -> Polls] /\ \A t \in Tailers : PollSound(tailer[t])
  BY RestingIsSound DEF TailInit
<1> QED
  BY <1>6, <1>7, <1>8 DEF SpoolInv, TailInit, OnlyOversizedQuarantined

LEMMA TailStepSound == TailAssumption /\ SpoolInv /\ [TailNext]_tailVars => SpoolInv'
<1> SUFFICES ASSUME TailAssumption, SpoolInv, [TailNext]_tailVars PROVE SpoolInv'
  OBVIOUS
<1>1. CASE HookAppends
  BY <1>1, HookAppendsKeeps
<1>2. CASE Rotate
  BY <1>2, RotateKeeps
<1>3. CASE ReplaceInPlace
  BY <1>3, ReplaceInPlaceKeeps
<1>4. ASSUME NEW t \in Tailers, Open(t) PROVE SpoolInv'
  BY <1>4, OpenKeeps
<1>5. ASSUME NEW t \in Tailers, Load(t) PROVE SpoolInv'
  BY <1>5, LoadKeeps
<1>6. ASSUME NEW t \in Tailers, ReadBody(t) PROVE SpoolInv'
  BY <1>6, ReadBodyKeeps
<1>7. ASSUME NEW t \in Tailers, ImportPiece(t) PROVE SpoolInv'
  BY <1>7, ImportPieceKeeps
<1>8. ASSUME NEW t \in Tailers, Checkpoint(t) PROVE SpoolInv'
  BY <1>8, CheckpointKeeps
<1>9. ASSUME NEW t \in Tailers, PollFails(t) PROVE SpoolInv'
  BY <1>9, InterruptionKeeps
<1>10. CASE UNCHANGED tailVars
  <2>1. WriterSound /\ WriterSound' /\ current \in Nat /\ written[1] \in Nat
    <3>1. WriterSound /\ UNCHANGED <<files, current, written>>
      BY <1>10 DEF SpoolInv, tailVars
    <3> QED
      BY <3>1, WriterWaits, WriterTyped
  <2>2. \A f \in Files : Grows(f)
    BY <1>10, <2>1, WriterTyped, ContentTyped DEF Grows, tailVars
  <2>3. SpoolKept
    BY <1>10, <2>1 DEF SpoolKept, tailVars
  <2> QED
    BY <1>10, <2>1, <2>2, <2>3, SurroundingsMove DEF tailVars
<1> QED
  BY <1>1, <1>2, <1>3, <1>4, <1>5, <1>6, <1>7, <1>8, <1>9, <1>10 DEF TailNext

(* For every number of tailers, files and lines, and all sizes: a file holds   *)
(* whole lines in their order, a poll that reads a file as it is holds what    *)
(* comes before the end of its batch, and all that comes before that, or       *)
(* before a saved cursor, was imported, or the cursor's file was emptied and   *)
(* what it holds now is younger than the prefix that was saved.                *)
THEOREM SpoolInvariant == ASSUME TailAssumption PROVE TailSpec => []SpoolInv
<1>1. TailInit => SpoolInv
  BY TailInitSound
<1>2. SpoolInv /\ [TailNext]_tailVars => SpoolInv'
  BY TailStepSound
<1> QED
  BY <1>1, <1>2, PTL DEF TailSpec

LEMMA SpoolInvSuffices == ASSUME TailAssumption, SpoolInv PROVE NothingPassedOver
<1> SUFFICES ASSUME ~Replaced(current, Len(files[current])), current \notin torn,
                    NEW k \in 1 .. SmallerOf(cursor.offset, Len(files[current])),
                    EndsLine(files[current][k])
             PROVE  Dealt(files[current][k][1])
  BY DEF NothingPassedOver
<1>1. WriterSound /\ cursor \in Cursors /\ CursorSound(cursor) /\ current \in Files
  BY DEF SpoolInv, WriterSound
<1>2. PICK n \in Nat : n = Len(files[current])
  BY <1>1, WriterTyped, LenProperties
<1>3. cursor.offset <= n /\ Passed(current, cursor.offset)
  BY <1>1, <1>2, UsedAsItIs
<1>4. cursor.offset \in Nat
  BY <1>1 DEF Cursors
<1>5. k \in 1 .. cursor.offset
  BY <1>2, <1>3, <1>4 DEF SmallerOf
<1> QED
  BY <1>3, <1>5 DEF Passed

(* Whatever tailers, rotations, replacements and interruptions do, a line that *)
(* ends before a cursor that the next poll will use as it is was accepted, or  *)
(* quarantined because it is too large, and nothing else is quarantined.       *)
THEOREM SpoolIsSound == ASSUME TailAssumption PROVE TailSpec => []SpoolSound
<1>1. SpoolInv => SpoolSound
  BY SpoolInvSuffices DEF SpoolInv, SpoolSound
<1> QED
  BY <1>1, SpoolInvariant, PTL
=============================================================================
