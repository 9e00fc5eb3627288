------------------------ MODULE ProjectionHistory_proofs ------------------------
(***************************************************************************)
(* What a reader of the issue projection may rely on, for any number of    *)
(* sessions, events, findings, importers and reconcilers: the queue and the *)
(* published status agree, a generation shows one version of everything and *)
(* never changes while it is retained, and an occurrence has its evidence.  *)
(***************************************************************************)
EXTENDS ProjectionHistory, AnalysisQueue_proofs, FiniteSetTheorems

-----------------------------------------------------------------------------
(* Closing rows. *)

(* What Close makes of a row.                                                *)
Ended(r, T, at) ==
    IF r.session \in T /\ r.until = Open THEN [r EXCEPT !.until = at[r.session]] ELSE r

LEMMA CloseIsEnded ==
    ASSUME NEW rows, NEW T, NEW at
    PROVE  Close(rows, T, at) = {Ended(r, T, at) : r \in rows}
BY DEF Close, Ended

(* A row that is closed keeps all but its end.                               *)
LEMMA EndedRevision ==
    ASSUME NEW r \in Revisions, NEW T, NEW at \in [T -> Nat]
    PROVE  /\ Ended(r, T, at) \in Revisions
           /\ Ended(r, T, at).session = r.session
           /\ Ended(r, T, at).status = r.status
           /\ Ended(r, T, at).target = r.target
           /\ Ended(r, T, at).from = r.from
           /\ Ended(r, T, at).until =
                IF r.session \in T /\ r.until = Open THEN at[r.session] ELSE r.until
           /\ Shown(Ended(r, T, at)) = Shown(r)
BY DEF Ended, Revisions, Shown, Open

LEMMA EndedOccurrence ==
    ASSUME NEW o \in Occurrences, NEW T, NEW at \in [T -> Nat]
    PROVE  /\ Ended(o, T, at) \in Occurrences
           /\ Ended(o, T, at).session = o.session
           /\ Ended(o, T, at).origin = o.origin
           /\ Ended(o, T, at).status = o.status
           /\ Ended(o, T, at).cites = o.cites
           /\ Ended(o, T, at).from = o.from
           /\ Ended(o, T, at).until =
                IF o.session \in T /\ o.until = Open THEN at[o.session] ELSE o.until
           /\ Shown(Ended(o, T, at)) = Shown(o)
BY DEF Ended, Occurrences, Shown, Open

(* What a reader of generation g sees of a table.                             *)
ShownAt(rows, g) == {Shown(r) : r \in VisibleAt(rows, g)}

(* The ends that are written and the rows that are added come after g.        *)
After(T, at, new, g) ==
    /\ g \in Nat /\ at \in [T -> Nat] /\ new \subseteq Revisions \cup Occurrences
    /\ (\A s \in T : g < at[s]) /\ \A n \in new : g < n.from

(* Whoever reads a generation before them sees what was there.                *)
LEMMA CloseUnseen ==
    ASSUME NEW rows, rows \subseteq Revisions \cup Occurrences,
           NEW T, NEW at, NEW new, NEW g, After(T, at, new, g)
    PROVE  ShownAt(Close(rows, T, at) \cup new, g) = ShownAt(rows, g)
<1> USE DEF After
<1>1. \A r \in rows :
        /\ Ended(r, T, at).from = r.from /\ Shown(Ended(r, T, at)) = Shown(r)
        /\ Ended(r, T, at).until =
             IF r.session \in T /\ r.until = Open THEN at[r.session] ELSE r.until
        /\ r.from \in Nat /\ r.until \in Nat
  BY EndedRevision, EndedOccurrence DEF Revisions, Occurrences
<1>2. \A r \in rows : r \in VisibleAt(rows, g) <=>
                       Ended(r, T, at) \in VisibleAt(Close(rows, T, at) \cup new, g)
  BY <1>1, CloseIsEnded DEF VisibleAt, Open
<1>3. \A q \in VisibleAt(Close(rows, T, at) \cup new, g) : \E r \in rows : q = Ended(r, T, at)
  <2>1. \A n \in new : n.from \in Nat
    BY DEF Revisions, Occurrences
  <2> QED
    BY <2>1, CloseIsEnded DEF VisibleAt
<1> QED
  BY <1>1, <1>2, <1>3 DEF VisibleAt, ShownAt

-----------------------------------------------------------------------------
(* The inductive invariant: beside the properties, the rows of the queue and  *)
(* of the history are dated, and the versions of a session follow each other. *)

Dated(rows, g) ==
    \A r \in rows : /\ r.from <= g
                    /\ r.until # Open => r.from < r.until /\ r.until <= g

Apart(q, r) == \/ q.until # Open /\ q.until <= r.from
               \/ r.until # Open /\ r.until <= q.from

RevisionsApart(rows) == \A q, r \in rows : q.session = r.session => q = r \/ Apart(q, r)
OccurrencesApart ==
    \A o, p \in occurrences : o.session = p.session /\ o.origin = p.origin => o = p \/ Apart(o, p)

HistorySafe ==
    /\ HistoryTypeOK
    /\ Dated(revisions, generation) /\ Dated(occurrences, generation)
    /\ RevisionsApart(revisions) /\ OccurrencesApart
    /\ QueueMatchesRevision /\ OccurrencesGrounded

HistoryInv == TypeOK /\ InputsHaveRow /\ HistorySafe

-----------------------------------------------------------------------------
(* What the transactions have in common: the open revisions of some sessions  *)
(* end, each at a generation of its own, and a new one begins there.          *)

Begins(T, at, new) ==
    /\ new \subseteq Revisions
    /\ \A n \in new : n.session \in T /\ n.from = at[n.session] /\ n.until = Open
    /\ \A m, n \in new : m.session = n.session => m = n
    /\ \A s \in T : \E n \in new : n.session = s

Succession(T, at, new, g) ==
    /\ T \subseteq Sessions /\ g \in Nat /\ generation <= g /\ at \in [T -> generation + 1 .. g]
    /\ Begins(T, at, new)

Succeeded(T, at, new) == Close(revisions, T, at) \cup new

(* ... which leaves the versions dated and apart.                             *)
LEMMA SuccessionApart ==
    ASSUME HistoryInv, NEW T, NEW at, NEW new, NEW g, Succession(T, at, new, g),
           NEW rows, rows = Succeeded(T, at, new)
    PROVE  rows \subseteq Revisions /\ Dated(rows, g) /\ RevisionsApart(rows)
<1> USE DEF HistoryInv, HistorySafe, HistoryTypeOK, Succession, Begins, Open
<1>0. at \in [T -> Nat] /\ \A s \in T : generation < at[s] /\ at[s] <= g
  OBVIOUS
<1>1. \A r \in revisions :
        /\ Ended(r, T, at) \in Revisions
        /\ Ended(r, T, at).session = r.session /\ Ended(r, T, at).from = r.from
        /\ Ended(r, T, at).until =
             IF r.session \in T /\ r.until = Open THEN at[r.session] ELSE r.until
        /\ r.from \in Nat /\ r.until \in Nat
  BY <1>0, EndedRevision DEF Revisions
<1>2. \A q \in rows : q \in new \/ \E r \in revisions : q = Ended(r, T, at)
  BY CloseIsEnded DEF Succeeded
<1>3. rows \subseteq Revisions
  BY <1>1, <1>2
<1>4. Dated(rows, g)
  <2> SUFFICES ASSUME NEW q \in rows
               PROVE  /\ q.from <= g
                      /\ q.until # Open => q.from < q.until /\ q.until <= g
    BY DEF Dated
  <2>1. CASE q \in new
    BY <1>0, <2>1
  <2>2. ASSUME NEW r \in revisions, q = Ended(r, T, at)
        PROVE  /\ q.from <= g
               /\ q.until # Open => q.from < q.until /\ q.until <= g
    <3>1. r.from <= generation /\ (r.until # Open => r.from < r.until /\ r.until <= generation)
      BY DEF Dated
    <3> QED
      BY <1>0, <1>1, <2>2, <3>1
  <2> QED
    BY <1>2, <2>1, <2>2
<1>5. RevisionsApart(rows)
  <2> SUFFICES ASSUME NEW p \in rows, NEW q \in rows, p.session = q.session
               PROVE  p = q \/ Apart(p, q)
    BY DEF RevisionsApart
  <2>1. ASSUME NEW n \in new, NEW r \in revisions, n.session = r.session
        PROVE  Apart(n, Ended(r, T, at)) /\ Apart(Ended(r, T, at), n)
    <3>1. r.until # Open => r.until <= generation
      BY DEF Dated
    <3> QED
      BY <1>0, <1>1, <2>1, <3>1 DEF Apart
  <2>2. ASSUME NEW r \in revisions, NEW t \in revisions, r.session = t.session
        PROVE  Ended(r, T, at) = Ended(t, T, at) \/ Apart(Ended(r, T, at), Ended(t, T, at))
    BY <1>1, <2>2 DEF RevisionsApart, Apart
  <2> QED
    BY <1>1, <1>2, <2>1, <2>2
<1> QED
  BY <1>3, <1>4, <1>5

OpenOf(rows, s) == {r \in rows : r.session = s /\ r.until = Open}

(* ... leaves each revision at its session, its beginning and its status,     *)
(* and opens one revision for each of the sessions.                          *)
LEMMA SuccessionKeeps ==
    ASSUME HistoryInv, NEW T, NEW at, NEW new, NEW g, Succession(T, at, new, g)
    PROVE  /\ \A r \in revisions : \E q \in Succeeded(T, at, new) :
                 q.session = r.session /\ q.from = r.from /\ q.status = r.status
           /\ \A n \in new : OpenOf(Succeeded(T, at, new), n.session) = {n}
           /\ \A s \in Sessions \ T :
                 OpenOf(Succeeded(T, at, new), s) = OpenOf(revisions, s)
<1> DEFINE rows == Succeeded(T, at, new)
<1> USE DEF HistoryInv, HistorySafe, HistoryTypeOK, Succession, Begins, Open
<1>0. at \in [T -> Nat] /\ \A s \in T : at[s] # 0
  OBVIOUS
<1>1. \A r \in revisions :
        /\ Ended(r, T, at).session = r.session /\ Ended(r, T, at).from = r.from
        /\ Ended(r, T, at).status = r.status
        /\ Ended(r, T, at).until =
             IF r.session \in T /\ r.until = Open THEN at[r.session] ELSE r.until
        /\ r.session \notin T \/ r.until # Open => Ended(r, T, at) = r
  BY <1>0, EndedRevision DEF Ended
<1>2. rows = {Ended(r, T, at) : r \in revisions} \cup new
  BY CloseIsEnded DEF Succeeded
<1> HIDE DEF rows
<1>3. \A r \in revisions : Ended(r, T, at) \in rows
  BY <1>2
<1>4. \A n \in new : OpenOf(rows, n.session) = {n}
  BY <1>0, <1>1, <1>2 DEF OpenOf
<1>5. \A s \in Sessions \ T : OpenOf(rows, s) = OpenOf(revisions, s)
  BY <1>1, <1>2 DEF OpenOf
<1> QED
  BY <1>1, <1>3, <1>4, <1>5 DEF rows

(* ... and what a reader of a generation before it sees.                     *)
LEMMA SuccessionUnseen ==
    ASSUME HistoryInv, NEW T, NEW at, NEW new, NEW h, Succession(T, at, new, h),
           NEW g \in Nat, g <= generation
    PROVE  ShownAt(Succeeded(T, at, new), g) = ShownAt(revisions, g)
<1>1. at \in [T -> Nat] /\ \A s \in T : g < at[s]
  BY DEF Succession, HistoryInv, HistorySafe, HistoryTypeOK
<1>2. \A n \in new : g < n.from
  BY <1>1 DEF Succession, Begins
<1>3. After(T, at, new, g) /\ revisions \subseteq Revisions \cup Occurrences
  BY <1>1, <1>2 DEF After, Succession, Begins, HistoryInv, HistorySafe, HistoryTypeOK
<1> QED
  BY <1>3, CloseUnseen DEF Succeeded

(* The queue changes along with a succession: the other rows stay or are      *)
(* claimed, the new revisions tell what the rows of T have become, and the    *)
(* revisions that are deleted are of sessions that have left the queue.       *)
RowFollows(s) ==
    HasRow(s)' => /\ HasRow(s) /\ dirty'[s].target = dirty[s].target
                  /\ \/ dirty'[s].state = dirty[s].state
                     \/ dirty[s].state \in {"pending", "failed"} /\ dirty'[s].state = "claimed"

Tells(n) ==
    HasRow(n.session)' =>
        n.target = dirty'[n.session].target /\ n.status = dirty'[n.session].state

LEMMA QueueMatchesRevisionKept ==
    ASSUME HistoryInv, NEW T, NEW at, NEW new, NEW g, Succession(T, at, new, g),
           revisions' \subseteq Succeeded(T, at, new),
           \A r \in Succeeded(T, at, new) \ revisions' : ~HasRow(r.session)',
           \A s \in Sessions \ T : RowFollows(s),
           \A n \in new : Tells(n)
    PROVE  QueueMatchesRevision'
<1> USE DEF RowFollows, Tells
<1> DEFINE rows == Succeeded(T, at, new)
<1>1. /\ \A n \in new : OpenOf(rows, n.session) = {n}
      /\ \A s \in Sessions \ T : OpenOf(rows, s) = OpenOf(revisions, s)
  BY SuccessionKeeps
<1>2. revisions' \subseteq rows /\ \A r \in rows \ revisions' : ~HasRow(r.session)'
  OBVIOUS
<1> HIDE DEF rows
<1>3. \A s \in Sessions : HasRow(s)' => OpenRevisions(s)' = OpenOf(rows, s)
  BY <1>2 DEF OpenRevisions, OpenOf
<1> SUFFICES ASSUME NEW s \in Sessions, HasRow(s)'
             PROVE  \E r \in revisions' :
                      /\ OpenRevisions(s)' = {r}
                      /\ r.target = dirty'[s].target
                      /\ r.status \in IF dirty'[s].state = "claimed"
                                      THEN {"pending", "failed"} ELSE {dirty'[s].state}
  BY DEF QueueMatchesRevision
<1>4. CASE s \in T
  <2>1. PICK n \in new : n.session = s
    BY <1>4 DEF Succession, Begins
  <2>2. n.status # "claimed"
    BY DEF Succession, Begins, Revisions, RevisionStatuses
  <2>3. OpenRevisions(s)' = {n}
    BY <1>1, <1>3, <2>1
  <2>4. n \in revisions'
    BY <2>3 DEF OpenRevisions
  <2> QED
    BY <2>1, <2>2, <2>3, <2>4
<1>5. CASE s \notin T
  <2>1. HasRow(s)
    BY <1>5
  <2>2. PICK r \in revisions :
          /\ OpenRevisions(s) = {r}
          /\ r.target = dirty[s].target
          /\ r.status \in IF dirty[s].state = "claimed"
                          THEN {"pending", "failed"} ELSE {dirty[s].state}
    BY <2>1 DEF HistoryInv, HistorySafe, QueueMatchesRevision
  <2>3. OpenRevisions(s)' = {r}
    BY <1>1, <1>3, <1>5, <2>2 DEF OpenOf, OpenRevisions
  <2>4. r \in revisions'
    BY <2>3 DEF OpenRevisions
  <2> QED
    BY <1>5, <2>2, <2>3, <2>4
<1> QED
  BY <1>4, <1>5

(* An occurrence that was there is still grounded if its events are kept and  *)
(* its session keeps its revisions; a new one if it was published with one.   *)
OccurrenceFollows(o, new) ==
    /\ o.cites # {} /\ o.cites \subseteq OfSession(events', o.session)
    /\ \E r \in revisions \cup new :
         r.session = o.session /\ r.from = o.from /\ r.status = o.status

LEMMA OccurrencesGroundedKept ==
    ASSUME HistoryInv, NEW T, NEW at, NEW new, NEW g, Succession(T, at, new, g),
           revisions' \subseteq Succeeded(T, at, new),
           \A o \in occurrences' : OccurrenceFollows(o, new),
           \A r \in Succeeded(T, at, new) \ revisions' :
               \A o \in occurrences' : r.session # o.session
    PROVE  OccurrencesGrounded'
<1> USE DEF OccurrenceFollows
<1> DEFINE rows == Succeeded(T, at, new)
<1>1. \A r \in revisions : \E q \in rows :
        q.session = r.session /\ q.from = r.from /\ q.status = r.status
  BY SuccessionKeeps
<1>2. new \subseteq rows
  BY DEF Succeeded
<1>3. /\ revisions' \subseteq rows
      /\ \A r \in rows \ revisions' : \A o \in occurrences' : r.session # o.session
  OBVIOUS
<1> HIDE DEF rows
<1> SUFFICES ASSUME NEW o \in occurrences'
             PROVE  \E q \in revisions' :
                      q.session = o.session /\ q.from = o.from /\ q.status = o.status
  BY DEF OccurrencesGrounded
<1>4. PICK r \in revisions \cup new :
        r.session = o.session /\ r.from = o.from /\ r.status = o.status
  OBVIOUS
<1>5. PICK q \in rows : q.session = o.session /\ q.from = o.from /\ q.status = o.status
  BY <1>1, <1>2, <1>4
<1> QED
  BY <1>3, <1>5

-----------------------------------------------------------------------------
(* Marking sessions. *)

(* What the revision closed last had analysed is a generation.               *)
LEMMA AnalyzedTyped ==
    ASSUME NEW rows \in SUBSET Revisions, NEW s, NEW g
    PROVE  AnalyzedAt(rows, s, g) \in Nat
<1> DEFINE closed == {r \in rows : r.session = s /\ r.until = g}
<1>1. closed # {} => (CHOOSE r \in closed : TRUE) \in Revisions
  OBVIOUS
<1> QED
  BY <1>1 DEF AnalyzedAt, Revisions

(* The pending revision of a marked session tells what its row becomes.      *)
LEMMA PendingTyped ==
    ASSUME TypeOK, HistoryTypeOK, NEW s \in Sessions, NEW g \in Nat
    PROVE  /\ PendingRevision(s, g) \in Revisions
           /\ PendingRevision(s, g).session = s
           /\ PendingRevision(s, g).from = g
           /\ PendingRevision(s, g).until = Open
           /\ PendingRevision(s, g).target = MarkedRow(dirty[s]).target
           /\ PendingRevision(s, g).status = MarkedRow(dirty[s]).state
<1>1. MarkedRow(dirty[s]).target \in Nat /\ MarkedRow(dirty[s]).state = "pending"
  BY DEF MarkedRow, TypeOK, Rows
<1>2. AnalyzedAt(revisions, s, g) \in Nat
  BY AnalyzedTyped DEF HistoryTypeOK
<1> QED
  BY <1>1, <1>2 DEF PendingRevision, Revision, Revisions, RevisionStatuses, Open

Pending(T, at) == {PendingRevision(s, at[s]) : s \in T}

LEMMA MarkedSuccession ==
    ASSUME HistoryInv, NEW T \in SUBSET Sessions, NEW g \in Nat, generation <= g,
           NEW at \in [T -> generation + 1 .. g]
    PROVE  /\ Succession(T, at, Pending(T, at), g)
           /\ MarkedRevisions(T, at) = Succeeded(T, at, Pending(T, at))
           /\ \A n \in Pending(T, at) :
                /\ n.target = MarkedRow(dirty[n.session]).target
                /\ n.status = MarkedRow(dirty[n.session]).state
<1> USE DEF HistoryInv, HistorySafe
<1>1. \A s \in T : at[s] \in Nat
  BY DEF HistoryTypeOK
<1>2. \A s \in T :
        /\ PendingRevision(s, at[s]) \in Revisions
        /\ PendingRevision(s, at[s]).session = s
        /\ PendingRevision(s, at[s]).from = at[s]
        /\ PendingRevision(s, at[s]).until = Open
        /\ PendingRevision(s, at[s]).target = MarkedRow(dirty[s]).target
        /\ PendingRevision(s, at[s]).status = MarkedRow(dirty[s]).state
  BY <1>1, PendingTyped
<1>3. Begins(T, at, Pending(T, at))
  BY <1>2 DEF Begins, Pending
<1> QED
  BY <1>2, <1>3 DEF Succession, Pending, MarkedRevisions, Succeeded

(* One session is marked in the queue and in the history.                    *)
LEMMA MarkKeeps ==
    ASSUME HistoryInv, NEW s \in Sessions, MarkDirty({s}), MarkHistory(s),
           events \subseteq events', retention' \in Nat
    PROVE  HistorySafe'
<1>0. generation \in Nat /\ generation + 1 \in Nat /\ generation <= generation + 1
  BY DEF HistoryInv, HistorySafe, HistoryTypeOK
<1>1. PICK g, at : g = generation + 1 /\ at = [t \in {s} |-> generation + 1]
  OBVIOUS
<1>2. PICK new : new = Pending({s}, at)
  OBVIOUS
<1>3. /\ Succession({s}, at, new, g)
      /\ MarkedRevisions({s}, at) = Succeeded({s}, at, new)
      /\ \A n \in new : /\ n.target = MarkedRow(dirty[n.session]).target
                        /\ n.status = MarkedRow(dirty[n.session]).state
  <2>1. at \in [{s} -> generation + 1 .. g]
    BY <1>0, <1>1
  <2> QED
    BY <1>0, <1>1, <1>2, <2>1, MarkedSuccession
<1>4. /\ generation' = g /\ revisions' = Succeeded({s}, at, new)
      /\ oldest' = oldest /\ occurrences' = occurrences
  BY <1>1, <1>3 DEF MarkHistory
<1>5. \A t \in Sessions : dirty'[t] = IF t = s THEN MarkedRow(dirty[t]) ELSE dirty[t]
  BY DEF MarkDirty
<1>6. \A n \in new : n.session = s
  BY <1>3 DEF Succession, Begins
<1>7. revisions' \subseteq Revisions /\ Dated(revisions', g) /\ RevisionsApart(revisions')
  BY <1>3, <1>4, SuccessionApart
<1>8. QueueMatchesRevision'
  <2>1. \A t \in Sessions \ {s} : RowFollows(t)
    BY <1>5 DEF RowFollows, HasRow
  <2>2. \A n \in new : Tells(n)
    BY <1>3, <1>5, <1>6 DEF Tells
  <2> QED
    BY <1>3, <1>4, <2>1, <2>2, QueueMatchesRevisionKept
<1>9. OccurrencesGrounded'
  <2>1. \A o \in occurrences' : OccurrenceFollows(o, new)
    BY <1>4 DEF HistoryInv, HistorySafe, OccurrencesGrounded, OccurrenceFollows, OfSession
  <2> QED
    BY <1>3, <1>4, <2>1, OccurrencesGroundedKept
<1>10. Dated(occurrences', generation')
  BY <1>0, <1>1, <1>4 DEF HistoryInv, HistorySafe, Dated, HistoryTypeOK, Occurrences
<1> QED
  BY <1>0, <1>1, <1>4, <1>7, <1>8, <1>9, <1>10
  DEF HistoryInv, HistorySafe, HistoryTypeOK, OccurrencesApart

-----------------------------------------------------------------------------
(* Settling a claim. *)

(* One session gets a new revision.                                          *)
LEMMA OneSuccession ==
    ASSUME HistoryInv, NEW s \in Sessions, NEW n \in Revisions,
           n.session = s, n.from = generation + 1, n.until = Open,
           NEW at, at = [t \in {s} |-> generation + 1]
    PROVE  Succession({s}, at, {n}, generation + 1)
<1>1. generation \in Nat
  BY DEF HistoryInv, HistorySafe, HistoryTypeOK
<1>2. at \in [{s} -> generation + 1 .. generation + 1] /\ at[s] = generation + 1
  BY <1>1
<1>3. Begins({s}, at, {n})
  BY <1>2 DEF Begins
<1> QED
  BY <1>1, <1>2, <1>3 DEF Succession

(* The claimed row becomes what the new revision says.                       *)
LEMMA SettledMatchesRevision ==
    ASSUME HistoryInv, NEW s \in Sessions, HasRow(s), NEW st \in RowStates, SetRow(s, st),
           NEW n \in Revisions, n.session = s, n.target = dirty[s].target, n.status = st,
           NEW at, Succession({s}, at, {n}, generation + 1),
           revisions' = Succeeded({s}, at, {n})
    PROVE  QueueMatchesRevision'
<1>1. dirty[s] \in Rows /\ dirty' = [dirty EXCEPT ![s].state = st]
  BY DEF HistoryInv, TypeOK, HasRow, SetRow
<1>2. /\ dirty'[s].target = dirty[s].target /\ dirty'[s].state = st
      /\ \A t \in Sessions \ {s} : dirty'[t] = dirty[t]
  BY <1>1 DEF HistoryInv, TypeOK, Rows
<1>3. \A t \in Sessions \ {s} : RowFollows(t)
  BY <1>2 DEF RowFollows, HasRow
<1>4. \A m \in {n} : Tells(m)
  BY <1>2 DEF Tells
<1> QED
  BY <1>3, <1>4, QueueMatchesRevisionKept

(* Occurrences that are published at the next generation follow those whose   *)
(* session is published anew.                                                *)
LEMMA PublishedApart ==
    ASSUME HistoryInv, NEW s \in Sessions, NEW at, at = [t \in {s} |-> generation + 1],
           NEW new \in SUBSET Occurrences,
           \A n \in new : n.session = s /\ n.from = generation + 1 /\ n.until = Open,
           \A m, n \in new : m.origin = n.origin => m = n,
           occurrences' = Close(occurrences, {s}, at) \cup new
    PROVE  /\ occurrences' \subseteq Occurrences
           /\ Dated(occurrences', generation + 1)
           /\ OccurrencesApart'
<1> USE DEF HistoryInv, HistorySafe, HistoryTypeOK, Open
<1>0. generation \in Nat /\ at \in [{s} -> Nat] /\ at[s] = generation + 1
  OBVIOUS
<1>1. \A o \in occurrences :
        /\ Ended(o, {s}, at) \in Occurrences
        /\ Ended(o, {s}, at).session = o.session /\ Ended(o, {s}, at).origin = o.origin
        /\ Ended(o, {s}, at).from = o.from
        /\ Ended(o, {s}, at).until =
             IF o.session = s /\ o.until = Open THEN generation + 1 ELSE o.until
        /\ o.from \in Nat /\ o.until \in Nat
  BY <1>0, EndedOccurrence DEF Occurrences
<1>2. \A p \in occurrences' : p \in new \/ \E o \in occurrences : p = Ended(o, {s}, at)
  BY CloseIsEnded
<1>3. occurrences' \subseteq Occurrences
  BY <1>1, <1>2
<1>4. \A o \in occurrences : /\ o.from <= generation
                             /\ o.until # Open => o.from < o.until /\ o.until <= generation
  BY DEF Dated
<1>5. Dated(occurrences', generation + 1)
  BY <1>0, <1>1, <1>2, <1>4 DEF Dated
<1>6. OccurrencesApart'
  <2> SUFFICES ASSUME NEW p \in occurrences', NEW q \in occurrences',
                      p.session = q.session, p.origin = q.origin
               PROVE  p = q \/ Apart(p, q)
    BY DEF OccurrencesApart, Apart
  <2>1. ASSUME NEW n \in new, NEW o \in occurrences, n.session = o.session
        PROVE  Apart(n, Ended(o, {s}, at)) /\ Apart(Ended(o, {s}, at), n)
    <3>1. n.from = generation + 1
      OBVIOUS
    <3>2. Ended(o, {s}, at).until # Open /\ Ended(o, {s}, at).until <= generation + 1
      <4>1. o.session = s
        BY <2>1
      <4>2. Ended(o, {s}, at).until = IF o.until = Open THEN generation + 1 ELSE o.until
        BY <1>1, <4>1
      <4>3. o.until # Open => o.until <= generation
        BY <1>4
      <4>4. o.until \in Nat
        BY <1>1
      <4> QED
        BY <1>0, <4>2, <4>3, <4>4
    <3> QED
      BY <3>1, <3>2 DEF Apart
  <2>2. ASSUME NEW o \in occurrences, NEW r \in occurrences,
               o.session = r.session, o.origin = r.origin
        PROVE  Ended(o, {s}, at) = Ended(r, {s}, at)
                 \/ Apart(Ended(o, {s}, at), Ended(r, {s}, at))
    BY <1>1, <2>2 DEF OccurrencesApart, Apart
  <2>3. CASE p \in new /\ q \in new
    BY <2>3
  <2>4. ASSUME NEW n \in new, NEW o \in occurrences, n.session = Ended(o, {s}, at).session
        PROVE  Apart(n, Ended(o, {s}, at)) /\ Apart(Ended(o, {s}, at), n)
    BY <1>1, <2>1, <2>4
  <2>5. ASSUME NEW o \in occurrences, NEW r \in occurrences,
               p = Ended(o, {s}, at), q = Ended(r, {s}, at)
        PROVE  p = q \/ Apart(p, q)
    BY <1>1, <2>2, <2>5
  <2>6. CASE p \in new /\ q \notin new
    BY <1>2, <2>4, <2>6
  <2>7. CASE p \notin new /\ q \in new
    <3>1. PICK o \in occurrences : p = Ended(o, {s}, at)
      BY <1>2, <2>7
    <3> QED
      BY <2>4, <2>7, <3>1
  <2>8. CASE p \notin new /\ q \notin new
    <3>1. PICK o \in occurrences, r \in occurrences : p = Ended(o, {s}, at) /\ q = Ended(r, {s}, at)
      BY <1>2, <2>8
    <3> QED
      BY <2>5, <3>1
  <2> QED
    BY <2>3, <2>6, <2>7, <2>8
<1> QED
  BY <1>3, <1>5, <1>6

(* What a view leads to, as occurrences.                                     *)
LEMMA ProjectedTyped ==
    ASSUME NEW s \in Sessions, NEW view \in Views, NEW g \in Nat,
           Evidence(view) \subseteq Events
    PROVE  /\ Projected(s, view, g) \subseteq Occurrences
           /\ \A o \in Projected(s, view, g) :
                /\ o.session = s /\ o.from = g /\ o.until = Open
                /\ o.status = AnalysisStatus(view)
                /\ o.cites # {} /\ o.cites \subseteq Evidence(view)
           /\ \A o, p \in Projected(s, view, g) : o.origin = p.origin => o = p
<1>1. \A o \in Projected(s, view, g) :
        /\ o \in [session : {s}, origin : Origins, status : {AnalysisStatus(view)},
                  cites : {BelayEvidence(view), NumbatEvidence(view)}, from : {g}, until : {Open}]
        /\ o.cites # {}
        /\ o.cites = IF o.origin = "belay" THEN BelayEvidence(view) ELSE NumbatEvidence(view)
  BY DEF Projected
<1>2. AnalysisStatus(view) \in Settled
  BY DEF AnalysisStatus, Settled
<1>3. Projected(s, view, g) \subseteq Occurrences
  BY <1>1, <1>2 DEF Occurrences, Evidence, Open
<1>4. \A o, p \in Projected(s, view, g) : o.origin = p.origin => o = p
  BY <1>1
<1> QED
  BY <1>1, <1>3, <1>4 DEF Evidence

-----------------------------------------------------------------------------
(* ReplaceSessionProjection and PublishAnalysisFailure. *)

(* A claim that is settled is on a session and on a row.                     *)
LEMMA ClaimTyped ==
    ASSUME TypeOK, NEW w \in Workers, worker[w].pc \in Active
    PROVE  worker[w].session \in Sessions /\ worker[w].view \in Views
BY DEF TypeOK, WorkerStates, Active, ReadingStages

LEMMA PublishKeeps ==
    ASSUME HistoryInv, NEW w \in Workers, HPublish(w)
    PROVE  HistorySafe'
<1>1. PICK s, view, g, at, n :
        /\ s = worker[w].session /\ view = worker[w].view /\ g = generation + 1
        /\ at = [t \in {s} |-> g]
        /\ n = Revision(s, AnalysisStatus(view), dirty[s].target, dirty[s].target, g)
  OBVIOUS
<1>2. /\ Publish(w) /\ generation' = g /\ revisions' = Close(revisions, {s}, at) \cup {n}
      /\ occurrences' = Close(occurrences, {s}, at) \cup Projected(s, view, g)
      /\ oldest' = oldest /\ retention' = retention
  BY <1>1 DEF HPublish
<1>3. /\ s \in Sessions /\ view \in Views /\ HasRow(s)
      /\ Evidence(view) \subseteq OfSession(events, s)
      /\ SetRow(s, AnalysisStatus(view)) /\ events' = events
  BY <1>1, <1>2, ClaimTyped DEF Publish, HoldsTarget, MustFail, Active, HistoryInv, storeVars
<1>4. /\ AnalysisStatus(view) \in Settled /\ dirty[s].target \in Nat
      /\ generation \in Nat /\ g \in Nat
  BY <1>1, <1>3 DEF AnalysisStatus, Settled, HistoryInv, TypeOK, HasRow, Rows,
                    HistorySafe, HistoryTypeOK
<1>5. /\ n \in Revisions /\ n.session = s /\ n.from = generation + 1 /\ n.until = Open
      /\ n.target = dirty[s].target /\ n.status = AnalysisStatus(view)
  BY <1>1, <1>3, <1>4 DEF Revision, Revisions, RevisionStatuses, Settled, Open
<1>6. Succession({s}, at, {n}, g)
  BY <1>1, <1>3, <1>5, OneSuccession
<1>7. revisions' = Succeeded({s}, at, {n})
  BY <1>2 DEF Succeeded
<1>8. revisions' \subseteq Revisions /\ Dated(revisions', g) /\ RevisionsApart(revisions')
  BY <1>6, <1>7, SuccessionApart
<1>9. QueueMatchesRevision'
  <2>1. AnalysisStatus(view) \in RowStates /\ Succession({s}, at, {n}, generation + 1)
    BY <1>1, <1>4, <1>6 DEF RowStates, Settled
  <2> QED
    BY <1>3, <1>5, <1>7, <2>1, SettledMatchesRevision
<1>10. /\ Projected(s, view, g) \subseteq Occurrences
       /\ \A o \in Projected(s, view, g) :
                /\ o.session = s /\ o.from = g /\ o.until = Open
                /\ o.status = AnalysisStatus(view)
                /\ o.cites # {} /\ o.cites \subseteq Evidence(view)
       /\ \A o, p \in Projected(s, view, g) : o.origin = p.origin => o = p
  <2>1. Evidence(view) \subseteq Events
    BY <1>3 DEF OfSession, HistoryInv, TypeOK
  <2> QED
    BY <1>3, <1>4, <2>1, ProjectedTyped
<1>11. occurrences' \subseteq Occurrences /\ Dated(occurrences', g) /\ OccurrencesApart'
  <2>1. PICK new : new = Projected(s, view, g)
    OBVIOUS
  <2>2. /\ new \in SUBSET Occurrences
        /\ \A o \in new : o.session = s /\ o.from = generation + 1 /\ o.until = Open
        /\ \A o, p \in new : o.origin = p.origin => o = p
    BY <1>1, <1>10, <2>1
  <2>3. at = [t \in {s} |-> generation + 1] /\ occurrences' = Close(occurrences, {s}, at) \cup new
    BY <1>1, <1>2, <2>1
  <2>4. /\ occurrences' \subseteq Occurrences
        /\ Dated(occurrences', generation + 1) /\ OccurrencesApart'
    BY <1>3, <2>2, <2>3, PublishedApart
  <2> QED
    BY <1>1, <2>4
<1>12. OccurrencesGrounded'
  <2>1. ASSUME NEW o \in occurrences' PROVE OccurrenceFollows(o, {n})
    <3>1. CASE o \in Projected(s, view, g)
      BY <1>1, <1>3, <1>5, <1>10, <3>1 DEF OccurrenceFollows
    <3>2. ASSUME NEW p \in occurrences, o = Ended(p, {s}, at) PROVE OccurrenceFollows(o, {n})
      <4>1. at \in [{s} -> Nat]
        BY <1>1, <1>4
      <4>2. o.session = p.session /\ o.status = p.status /\ o.cites = p.cites /\ o.from = p.from
        BY <3>2, <4>1, EndedOccurrence DEF HistoryInv, HistorySafe, HistoryTypeOK
      <4> QED
        BY <1>3, <4>2 DEF OccurrenceFollows, HistoryInv, HistorySafe, OccurrencesGrounded
    <3> QED
      BY <1>2, <3>1, <3>2, CloseIsEnded
  <2> QED
    BY <1>6, <1>7, <2>1, OccurrencesGroundedKept
<1> QED
  BY <1>2, <1>4, <1>8, <1>9, <1>11, <1>12 DEF HistoryInv, HistorySafe, HistoryTypeOK

LEMMA FailureKeeps ==
    ASSUME HistoryInv, NEW w \in Workers, HPublishAnalysisFailure(w)
    PROVE  HistorySafe'
<1>1. PICK s, g, at, closed, n :
        /\ s = worker[w].session /\ g = generation + 1 /\ at = [t \in {s} |-> g]
        /\ closed = Close(revisions, {s}, at)
        /\ n = Revision(s, "failed", dirty[s].target, AnalyzedAt(closed, s, g), g)
  OBVIOUS
<1>2. /\ PublishAnalysisFailure(w) /\ generation' = g /\ revisions' = closed \cup {n}
      /\ occurrences' = occurrences /\ oldest' = oldest /\ retention' = retention
  BY <1>1 DEF HPublishAnalysisFailure
<1>3. s \in Sessions /\ HasRow(s) /\ SetRow(s, "failed") /\ events' = events
  BY <1>1, <1>2, ClaimTyped DEF PublishAnalysisFailure, HoldsTarget, HistoryInv, storeVars
<1>4. dirty[s].target \in Nat /\ generation \in Nat /\ g \in Nat
  BY <1>1, <1>3 DEF HistoryInv, TypeOK, HasRow, Rows, HistorySafe, HistoryTypeOK
<1>5. closed \subseteq Revisions
  <2>1. at \in [{s} -> Nat]
    BY <1>1, <1>4
  <2> QED
    BY <1>1, <2>1, CloseIsEnded, EndedRevision DEF HistoryInv, HistorySafe, HistoryTypeOK
<1>6. AnalyzedAt(closed, s, g) \in Nat
  BY <1>5, AnalyzedTyped
<1>7. /\ n \in Revisions /\ n.session = s /\ n.from = generation + 1 /\ n.until = Open
      /\ n.target = dirty[s].target /\ n.status = "failed"
  BY <1>1, <1>3, <1>4, <1>6 DEF Revision, Revisions, RevisionStatuses, Open
<1>8. Succession({s}, at, {n}, g)
  BY <1>1, <1>3, <1>7, OneSuccession
<1>9. revisions' = Succeeded({s}, at, {n})
  BY <1>1, <1>2 DEF Succeeded
<1>10. revisions' \subseteq Revisions /\ Dated(revisions', g) /\ RevisionsApart(revisions')
  BY <1>8, <1>9, SuccessionApart
<1>11. QueueMatchesRevision'
  BY <1>1, <1>3, <1>7, <1>8, <1>9, SettledMatchesRevision DEF RowStates
<1>12. OccurrencesGrounded'
  <2>1. \A o \in occurrences' : OccurrenceFollows(o, {n})
    BY <1>2, <1>3 DEF OccurrenceFollows, HistoryInv, HistorySafe, OccurrencesGrounded
  <2> QED
    BY <1>8, <1>9, <2>1, OccurrencesGroundedKept
<1>13. Dated(occurrences', generation')
  BY <1>1, <1>2, <1>4 DEF HistoryInv, HistorySafe, Dated, HistoryTypeOK, Occurrences
<1> QED
  BY <1>2, <1>4, <1>10, <1>11, <1>12, <1>13
  DEF HistoryInv, HistorySafe, HistoryTypeOK, OccurrencesApart

-----------------------------------------------------------------------------
(* Retention. *)

(* An occurrence has a session with events, which has a queue row.           *)
LEMMA OccurrenceHasRow ==
    ASSUME HistoryInv, NEW o \in occurrences
    PROVE  o.session \in PrunableSessions
<1>1. o.session \in Sessions
  BY DEF HistoryInv, HistorySafe, HistoryTypeOK, Occurrences
<1>2. PICK e \in events : EventSession[e] = o.session
  BY DEF HistoryInv, HistorySafe, OccurrencesGrounded, OfSession
<1> QED
  BY <1>1, <1>2 DEF HistoryInv, InputsHaveRow, PrunableSessions

(* What a prune marks is a finite set of sessions.                           *)
LEMMA MarkedFinite ==
    ASSUME NEW marked \in SUBSET Sessions
    PROVE  Cardinality(marked) \in Nat
BY SessionsAssumption, FS_Subset, FS_CardinalityType

LEMMA PruneMarks ==
    ASSUME HistoryInv, NEW D \in SUBSET events, NEW F \in SUBSET findings,
           NEW I \in SUBSET occurrences
    PROVE  Affected(D, F, {o.session : o \in LostOccurrences(D, I)}) \in SUBSET Sessions
<1>1. \A e \in D : EventSession[e] \in Sessions
  BY InputsAssumption DEF HistoryInv, TypeOK
<1>2. \A f \in LostFindings(D, F) : EventSession[FindingEvent[f]] \in Sessions
  BY InputsAssumption DEF HistoryInv, TypeOK, LostFindings
<1>3. \A o \in LostOccurrences(D, I) : o.session \in Sessions
  BY DEF LostOccurrences, HistoryInv, HistorySafe, HistoryTypeOK, Occurrences
<1> QED
  BY <1>1, <1>2, <1>3 DEF Affected

(* A prune as a succession: the sessions it marks get new revisions, each at  *)
(* a generation of its own, and what it deletes belongs to emptied sessions.  *)
PruneParts(D, F, T, lost, marked, at, new, next, forgotten) ==
    /\ Prune(D, F, T) /\ marked = Affected(D, F, T)
    /\ lost \subseteq occurrences /\ T = {o.session : o \in lost}
    /\ \A o \in occurrences \ lost : o.cites \cap D = {}
    /\ Succession(marked, at, new, next) /\ next \in Nat
    /\ \A n \in new : /\ n.target = MarkedRow(dirty[n.session]).target
                      /\ n.status = MarkedRow(dirty[n.session]).state
    /\ forgotten \subseteq revisions /\ \A r \in forgotten : r.session \in Emptied(D)
    /\ revisions' = Succeeded(marked, at, new) \ forgotten
    /\ occurrences' = occurrences \ lost
    /\ LET changed == lost # {} \/ forgotten # {} \/ D # {}
       IN  /\ generation' = IF changed THEN next + 1 ELSE next
           /\ oldest' = IF changed THEN next + 1 ELSE oldest
           /\ retention' = IF changed \/ F # {} THEN retention + 1 ELSE retention

LEMMA PruneIsSuccession ==
    ASSUME HistoryInv, NEW D \in SUBSET events, NEW F \in SUBSET findings,
           NEW I \in SUBSET occurrences, NEW c, HPrune(D, F, I, c)
    PROVE  \E T, lost, marked, at, new, next, forgotten :
              PruneParts(D, F, T, lost, marked, at, new, next, forgotten)
<1>1. PICK lost, T, marked, next :
        /\ lost = LostOccurrences(D, I) /\ T = {o.session : o \in lost}
        /\ marked = Affected(D, F, T) /\ next = generation + Cardinality(marked)
  OBVIOUS
<1>2. /\ Prune(D, F, T) /\ occurrences' = occurrences \ lost
      /\ \E forgotten \in Forgettable(ExpiredRevisions(D, marked, c)), at \in Numberings(marked) :
             LET changed == lost # {} \/ forgotten # {} \/ D # {}
             IN  /\ revisions' = MarkedRevisions(marked, at) \ forgotten
                 /\ generation' = IF changed THEN next + 1 ELSE next
                 /\ oldest' = RetainFrom(changed, next + 1)
                 /\ retention' = RetentionAfter(changed, F)
  BY <1>1 DEF HPrune
<1>3. PICK forgotten \in Forgettable(ExpiredRevisions(D, marked, c)), at \in Numberings(marked) :
             LET changed == lost # {} \/ forgotten # {} \/ D # {}
             IN  /\ revisions' = MarkedRevisions(marked, at) \ forgotten
                 /\ generation' = IF changed THEN next + 1 ELSE next
                 /\ oldest' = RetainFrom(changed, next + 1)
                 /\ retention' = RetentionAfter(changed, F)
  BY <1>2
<1>4. marked \in SUBSET Sessions
  BY <1>1, PruneMarks
<1>5. generation \in Nat /\ next \in Nat /\ generation <= next
  BY <1>1, <1>4, MarkedFinite DEF HistoryInv, HistorySafe, HistoryTypeOK
<1>6. at \in [marked -> generation + 1 .. next]
  BY <1>1 DEF Numberings
<1>7. PICK new : new = Pending(marked, at)
  OBVIOUS
<1>8. /\ Succession(marked, at, new, next)
      /\ MarkedRevisions(marked, at) = Succeeded(marked, at, new)
      /\ \A n \in new : /\ n.target = MarkedRow(dirty[n.session]).target
                        /\ n.status = MarkedRow(dirty[n.session]).state
  BY <1>4, <1>5, <1>6, <1>7, MarkedSuccession
<1>9. forgotten \subseteq revisions /\ \A r \in forgotten : r.session \in Emptied(D)
  BY DEF Forgettable, ExpiredRevisions
<1>10. lost \subseteq occurrences /\ \A o \in occurrences \ lost : o.cites \cap D = {}
  BY <1>1 DEF LostOccurrences
<1>11. PruneParts(D, F, T, lost, marked, at, new, next, forgotten)
  BY <1>1, <1>2, <1>3, <1>5, <1>8, <1>9, <1>10 DEF PruneParts, RetainFrom, RetentionAfter
<1> QED
  BY <1>11

LEMMA PruneKeeps ==
    ASSUME HistoryInv, NEW D \in SUBSET events, NEW F \in SUBSET findings,
           NEW T, NEW lost, NEW marked, NEW at, NEW new, NEW next, NEW forgotten,
           PruneParts(D, F, T, lost, marked, at, new, next, forgotten)
    PROVE  HistorySafe'
<1>1. /\ Prune(D, F, T) /\ marked = Affected(D, F, T) /\ lost \subseteq occurrences
      /\ \A o \in occurrences \ lost : o.cites \cap D = {}
      /\ Succession(marked, at, new, next) /\ next \in Nat
      /\ \A n \in new : /\ n.target = MarkedRow(dirty[n.session]).target
                        /\ n.status = MarkedRow(dirty[n.session]).state
      /\ \A r \in forgotten : r.session \in Emptied(D)
      /\ revisions' = Succeeded(marked, at, new) \ forgotten
      /\ occurrences' = occurrences \ lost
  BY DEF PruneParts
<1>2. /\ generation' \in Nat /\ next <= generation' /\ generation <= generation'
      /\ oldest' \in Nat /\ retention' \in Nat
  BY <1>1 DEF PruneParts, Succession, HistoryInv, HistorySafe, HistoryTypeOK
<1>3. /\ revisions' \subseteq Revisions /\ Dated(revisions', next) /\ RevisionsApart(revisions')
  <2>1. PICK rows : rows = Succeeded(marked, at, new)
    OBVIOUS
  <2>2. rows \subseteq Revisions /\ Dated(rows, next) /\ RevisionsApart(rows)
    BY <1>1, <2>1, SuccessionApart
  <2>3. revisions' \subseteq rows
    BY <1>1, <2>1
  <2> QED
    BY <2>2, <2>3 DEF Dated, RevisionsApart
<1>4. \A s \in Sessions : dirty'[s] = PrunedRow(s, D, F, T)
  BY <1>1 DEF Prune
<1>5. \A s \in Emptied(D) : ~HasRow(s)'
  BY <1>4 DEF PrunedRow, HasRow, Emptied
<1>6. QueueMatchesRevision'
  <2>1. \A s \in Sessions \ marked : RowFollows(s)
    BY <1>1, <1>4, <1>5 DEF RowFollows, PrunedRow, HasRow
  <2>2. \A n \in new : n.session \in Sessions /\ n.session \in marked
    BY <1>1 DEF Succession, Begins
  <2>3. \A n \in new : Tells(n)
    BY <1>1, <1>4, <1>5, <2>2 DEF Tells, PrunedRow
  <2>4. \A r \in Succeeded(marked, at, new) \ revisions' : ~HasRow(r.session)'
    BY <1>1, <1>5
  <2> QED
    BY <1>1, <2>1, <2>3, <2>4, QueueMatchesRevisionKept
<1>7. OccurrencesGrounded'
  <2>1. \A o \in occurrences' :
          o.cites # {} /\ o.cites \subseteq OfSession(events', o.session)
    BY <1>1 DEF Prune, OfSession, HistoryInv, HistorySafe, OccurrencesGrounded
  <2>2. \A o \in occurrences' : OccurrenceFollows(o, new)
    BY <1>1, <2>1 DEF OccurrenceFollows, HistoryInv, HistorySafe, OccurrencesGrounded
  <2>3. \A r \in Succeeded(marked, at, new) \ revisions' :
               \A o \in occurrences' : r.session # o.session
    BY <1>1, <2>1 DEF Emptied, Prune
  <2> QED
    BY <1>1, <2>2, <2>3, OccurrencesGroundedKept
<1>8. Dated(revisions', generation') /\ Dated(occurrences', generation')
  BY <1>1, <1>2, <1>3
  DEF HistoryInv, HistorySafe, Dated, HistoryTypeOK, Revisions, Occurrences
<1> QED
  BY <1>1, <1>2, <1>3, <1>6, <1>7, <1>8
  DEF HistoryInv, HistorySafe, HistoryTypeOK, OccurrencesApart

-----------------------------------------------------------------------------
(* The steps of the other transactions. *)

(* A transaction that writes none of the history tables changes a row only by *)
(* claiming it.                                                              *)
LEMMA UnrecordedRows ==
    ASSUME HistoryInv, Unrecorded
    PROVE  events' = events /\ \A s \in Sessions : RowFollows(s)
<1>1. CASE dirty' = dirty /\ events' = events
  BY <1>1 DEF RowFollows, HasRow
<1>2. ASSUME NEW w \in Workers, NEW r \in Sessions, Claim(w, r)
      PROVE  events' = events /\ \A s \in Sessions : RowFollows(s)
  <2>1. /\ dirty[r] \in Rows /\ dirty[r].state \in {"pending", "failed"}
        /\ dirty' = [dirty EXCEPT ![r].state = "claimed"] /\ events' = events
    BY <1>2 DEF Claim, Claimable, HasRow, SetRow, HistoryInv, TypeOK, storeVars
  <2>2. /\ dirty'[r] = [dirty[r] EXCEPT !.state = "claimed"]
        /\ \A s \in Sessions \ {r} : dirty'[s] = dirty[s]
    BY <2>1 DEF HistoryInv, TypeOK
  <2>3. dirty'[r].target = dirty[r].target /\ dirty'[r].state = "claimed" /\ HasRow(r)
    BY <1>2, <2>1, <2>2 DEF Rows, Claim, Claimable
  <2>4. RowFollows(r)
    BY <2>1, <2>3 DEF RowFollows
  <2>5. \A s \in Sessions \ {r} : RowFollows(s)
    BY <2>2 DEF RowFollows, HasRow
  <2> QED
    BY <2>1, <2>4, <2>5
<1>3. (\E w \in Workers, r \in Sessions : Claim(w, r)) \/ (dirty' = dirty /\ events' = events)
  BY DEF Unrecorded, RecordFinding, ImporterStop, Start, Startup, StartupDone, Recovered,
     Read, ReadScope, ReadEvents, ReadEnrichments, ReadFindings, Discard, Abandon, Stop,
     RetryDue, storeVars, queueVars
<1> QED
  BY <1>1, <1>2, <1>3

(* If the history is left alone so is what is said of it.                     *)
LEMMA QuietKeeps ==
    ASSUME HistoryInv, UNCHANGED historyVars, events' = events,
           \A s \in Sessions : RowFollows(s)
    PROVE  HistorySafe'
<1>1. QueueMatchesRevision'
  BY DEF HistoryInv, HistorySafe, QueueMatchesRevision, OpenRevisions, RowFollows, historyVars
<1> QED
  BY <1>1 DEF HistoryInv, HistorySafe, HistoryTypeOK, OccurrencesApart, OccurrencesGrounded,
              OfSession, historyVars

(* The queue leaves the sessions that it does not mark alone.                 *)
LEMMA SameRows ==
    ASSUME UNCHANGED dirty PROVE \A s \in Sessions : RowFollows(s)
BY DEF RowFollows, HasRow

LEMMA ImporterKeeps ==
    ASSUME HistoryInv, NEW i \in Importers,
           \/ \E e \in Events : HAppendEvent(i, e)
           \/ HUpsertSessionScope(i) \/ HUpsertEventEnrichment(i) \/ HMarkFindingSession(i)
    PROVE  HistorySafe'
<1> USE InputsAssumption
<1>0. /\ importer[i] \in ImporterStates /\ retention \in Nat
      /\ UNCHANGED historyVars => retention' \in Nat
  BY DEF HistoryInv, TypeOK, HistorySafe, HistoryTypeOK, historyVars
<1>1. ASSUME NEW e \in Events, HAppendEvent(i, e) PROVE HistorySafe'
  <2>1. AppendEvent(i, e) /\ events \subseteq events' /\ retention' = retention
    BY <1>1 DEF HAppendEvent, AppendEvent
  <2>2. CASE e \in events
    <3>1. UNCHANGED historyVars /\ events' = events /\ UNCHANGED dirty
      BY <1>1, <2>2 DEF HAppendEvent, AppendEvent, queueVars
    <3> QED
      BY <3>1, SameRows, QuietKeeps
  <2>3. CASE e \notin events
    <3>1. MarkDirty({EventSession[e]}) /\ MarkHistory(EventSession[e])
      BY <1>1, <2>3 DEF HAppendEvent, AppendEvent
    <3> QED
      BY <1>0, <2>1, <3>1, MarkKeeps
  <2> QED
    BY <2>2, <2>3
<1>2. CASE HUpsertSessionScope(i)
  <2>1. /\ importer[i].item \in Events /\ UpsertSessionScope(i) /\ events' = events
        /\ EventSession[importer[i].item] \in Sessions
    BY <1>0, <1>2 DEF HUpsertSessionScope, UpsertSessionScope, ImporterStates
  <2>2. PICK s \in Sessions : s = EventSession[importer[i].item]
    BY <2>1
  <2>3. CASE scope' = scope
    <3>1. UNCHANGED historyVars
      BY <1>2, <2>3 DEF HUpsertSessionScope
    <3>2. MergeScope(scope[s], EventProject[importer[i].item]) = scope[s]
      BY <2>1, <2>2, <2>3 DEF UpsertSessionScope, HistoryInv, TypeOK
    <3>3. UNCHANGED dirty
      BY <2>1, <2>2, <3>2 DEF UpsertSessionScope, queueVars
    <3> QED
      BY <2>1, <3>1, <3>3, SameRows, QuietKeeps
  <2>4. CASE scope' # scope
    <3>1. MarkHistory(s) /\ retention' = retention + 1
      BY <1>2, <2>2, <2>4 DEF HUpsertSessionScope
    <3>2. MergeScope(scope[s], EventProject[importer[i].item]) # scope[s]
      BY <2>1, <2>2, <2>4 DEF UpsertSessionScope, HistoryInv, TypeOK
    <3>3. MarkDirty({s})
      BY <2>1, <2>2, <3>2 DEF UpsertSessionScope
    <3> QED
      BY <1>0, <2>1, <3>1, <3>3, MarkKeeps
  <2> QED
    BY <2>3, <2>4
<1>3. CASE HUpsertEventEnrichment(i)
  <2>1. /\ importer[i].item \in Events /\ UpsertEventEnrichment(i) /\ events' = events
        /\ EventSession[importer[i].item] \in Sessions /\ retention' = retention
    BY <1>0, <1>3 DEF HUpsertEventEnrichment, UpsertEventEnrichment, ImporterStates
  <2>2. CASE enriched' = enriched
    <3>1. UNCHANGED historyVars
      BY <1>3, <2>2 DEF HUpsertEventEnrichment
    <3>2. UNCHANGED dirty
      BY <2>1, <2>2 DEF UpsertEventEnrichment, queueVars
    <3> QED
      BY <2>1, <3>1, <3>2, SameRows, QuietKeeps
  <2>3. CASE enriched' # enriched
    <3>1. MarkHistory(EventSession[importer[i].item])
      BY <1>3, <2>3 DEF HUpsertEventEnrichment
    <3>2. MarkDirty({EventSession[importer[i].item]})
      BY <2>1, <2>3 DEF UpsertEventEnrichment
    <3> QED
      BY <1>0, <2>1, <3>1, <3>2, MarkKeeps
  <2> QED
    BY <2>2, <2>3
<1>4. CASE HMarkFindingSession(i)
  <2>1. importer[i].item \in Findings /\ EventSession[FindingEvent[importer[i].item]] \in Sessions
    BY <1>0, <1>4 DEF HMarkFindingSession, MarkFindingSession, ImporterStates
  <2>2. /\ MarkDirty({EventSession[FindingEvent[importer[i].item]]}) /\ events' = events
        /\ MarkHistory(EventSession[FindingEvent[importer[i].item]]) /\ retention' = retention
    BY <1>4 DEF HMarkFindingSession, MarkFindingSession, storeVars
  <2> QED
    BY <1>0, <2>1, <2>2, MarkKeeps
<1> QED
  BY <1>1, <1>2, <1>3, <1>4

(* A transaction on the history is one on the queue.                         *)
LEMMA HistoryIsQueue ==
    ASSUME HistoryInv, HistoryNext
    PROVE  Next
<1>1. CASE HRetentionPrune
  <2>1. PICK D \in SUBSET events, F \in SUBSET findings, I \in SUBSET occurrences, c \in Cutoffs :
          HPrune(D, F, I, c)
    BY <1>1 DEF HRetentionPrune
  <2>2. Prune(D, F, {o.session : o \in LostOccurrences(D, I)})
    BY <2>1 DEF HPrune
  <2>3. LostOccurrences(D, I) \subseteq occurrences
    BY DEF LostOccurrences
  <2>4. {o.session : o \in LostOccurrences(D, I)} \in SUBSET PrunableSessions
    BY <2>3, OccurrenceHasRow
  <2> QED
    BY <2>2, <2>4 DEF Next, RetentionPrune
<1>2. CASE ~HRetentionPrune
  BY <1>2 DEF HistoryNext, HAppendEvent, HUpsertSessionScope, HUpsertEventEnrichment,
     HMarkFindingSession, HStartupMark, HPublish, HPublishAnalysisFailure, Unrecorded,
     Next, ImporterNext, WorkerNext
<1> QED
  BY <1>1, <1>2

(* The inductive invariant holds at first and is kept by every step.          *)
LEMMA HistoryInit_Inv == Init /\ HistoryInit => HistoryInv
<1> SUFFICES ASSUME Init, HistoryInit PROVE HistoryInv
  OBVIOUS
<1>1. TypeOK
  BY InitTyped
<1>2. InputsHaveRow
  BY InitSafe DEF Safe, QueueInv
<1>3. QueueMatchesRevision
  BY DEF Init, HasRow, QueueMatchesRevision
<1> QED
  BY <1>1, <1>2, <1>3 DEF HistoryInit, HistoryInv, HistorySafe, HistoryTypeOK, Dated,
     RevisionsApart, OccurrencesApart, OccurrencesGrounded

LEMMA HistoryInvKept ==
    ASSUME HistoryInv, [HistoryNext]_allVars
    PROVE  HistoryInv'
<1>1. CASE UNCHANGED allVars
  BY <1>1 DEF allVars, vars, historyVars, HistoryInv, TypeOK, InputsHaveRow, HasRow, HistorySafe,
     HistoryTypeOK, OccurrencesApart, QueueMatchesRevision, OpenRevisions, OccurrencesGrounded
<1>2. CASE HistoryNext
  <2>1. TypeOK' /\ InputsHaveRow'
    BY <1>2, HistoryIsQueue, NextTyped, InputsHaveRowKept DEF HistoryInv
  <2>2. ASSUME NEW w \in Workers, NEW s \in Sessions, HStartupMark(w, s) PROVE HistorySafe'
    BY <2>2, MarkKeeps DEF HStartupMark, StartupMark, storeVars, HistoryInv, HistorySafe, HistoryTypeOK
  <2>3. ASSUME HRetentionPrune PROVE HistorySafe'
    BY <2>3, PruneIsSuccession, PruneKeeps DEF HRetentionPrune
  <2>4. ASSUME Unrecorded PROVE HistorySafe'
    <3>1. UNCHANGED historyVars
      BY <2>4 DEF Unrecorded
    <3>2. events' = events /\ \A s \in Sessions : RowFollows(s)
      BY <2>4, UnrecordedRows
    <3> QED
      BY <3>1, <3>2, QuietKeeps
  <2>5. ASSUME NEW w \in Workers, HPublish(w) \/ HPublishAnalysisFailure(w) PROVE HistorySafe'
    BY <2>5, PublishKeeps, FailureKeeps
  <2>6. ASSUME NEW i \in Importers,
               \/ \E e \in Events : HAppendEvent(i, e)
               \/ HUpsertSessionScope(i) \/ HUpsertEventEnrichment(i) \/ HMarkFindingSession(i)
        PROVE  HistorySafe'
    BY <2>6, ImporterKeeps
  <2>7. HistorySafe'
    <3>1. CASE \E i \in Importers, e \in Events : HAppendEvent(i, e)
      BY <2>6, <3>1
    <3>2. CASE \E i \in Importers :
                 HUpsertSessionScope(i) \/ HUpsertEventEnrichment(i) \/ HMarkFindingSession(i)
      BY <2>6, <3>2
    <3>3. CASE \E w \in Workers, s \in Sessions : HStartupMark(w, s)
      BY <2>2, <3>3
    <3>4. CASE \E w \in Workers : HPublish(w) \/ HPublishAnalysisFailure(w)
      BY <2>5, <3>4
    <3> QED
      BY <1>2, <2>3, <2>4, <3>1, <3>2, <3>3, <3>4 DEF HistoryNext
  <2> QED
    BY <2>1, <2>7 DEF HistoryInv
<1> QED
  BY <1>1, <1>2

(* The inductive invariant of the projection and its queue. *)
THEOREM HistoryInvariant == HistorySpec => []HistoryInv
<1>1. Init /\ HistoryInit => HistoryInv
  BY HistoryInit_Inv
<1>2. HistoryInv /\ [HistoryNext]_allVars => HistoryInv'
  BY HistoryInvKept
<1> QED
  BY <1>1, <1>2, PTL DEF HistorySpec

(* The queue and the published status never disagree: projection.go writes    *)
(* both in one transaction, and no order of transactions separates them.      *)
THEOREM QueueAgreesWithStatus == HistorySpec => []QueueMatchesRevision
<1>1. HistoryInv => QueueMatchesRevision
  BY DEF HistoryInv, HistorySafe
<1> QED
  BY <1>1, HistoryInvariant, PTL

(* A retained occurrence has its events and its revision, whatever is pruned. *)
THEOREM EvidenceRetained == HistorySpec => []OccurrencesGrounded
<1>1. HistoryInv => OccurrencesGrounded
  BY DEF HistoryInv, HistorySafe
<1> QED
  BY <1>1, HistoryInvariant, PTL

(* A generation shows one status of a session and one occurrence per origin.  *)
THEOREM OneVersion == HistorySpec => []OneVersionVisible
<1>1. ASSUME HistoryInv PROVE OneVersionVisible
  <2> USE <1>1 DEF HistoryInv, HistorySafe, HistoryTypeOK
  <2> SUFFICES ASSUME NEW g \in oldest .. generation
               PROVE  /\ \A q, r \in VisibleAt(revisions, g) : q.session = r.session => q = r
                      /\ \A o, p \in VisibleAt(occurrences, g) :
                            o.session = p.session /\ o.origin = p.origin => o = p
    BY DEF OneVersionVisible
  <2>1. g \in Nat
    OBVIOUS
  <2>2. ASSUME NEW q \in VisibleAt(revisions, g), NEW r \in VisibleAt(revisions, g), Apart(q, r)
        PROVE  FALSE
    BY <2>1, <2>2 DEF VisibleAt, Apart, Revisions
  <2>3. ASSUME NEW q \in VisibleAt(occurrences, g), NEW r \in VisibleAt(occurrences, g), Apart(q, r)
        PROVE  FALSE
    BY <2>1, <2>3 DEF VisibleAt, Apart, Occurrences
  <2>4. VisibleAt(revisions, g) \subseteq revisions /\ VisibleAt(occurrences, g) \subseteq occurrences
    BY DEF VisibleAt
  <2> QED
    BY <2>2, <2>3, <2>4 DEF RevisionsApart, OccurrencesApart
<1> QED
  BY <1>1, HistoryInvariant, PTL

-----------------------------------------------------------------------------
(* What a step does to a reader: what the generations that stay readable show *)
(* is as before, and unless the retention generation moves every row is where *)
(* the cursor found it.                                                      *)
ReadsTheSame ==
    \A g \in oldest' .. generation : /\ ShownAt(revisions', g) = ShownAt(revisions, g)
                                     /\ ShownAt(occurrences', g) = ShownAt(occurrences, g)

RevisionsStay ==
    \A r \in revisions : \E q \in revisions' : q.session = r.session /\ q.from = r.from

OccurrencesStay ==
    \A o \in occurrences : \E p \in occurrences' :
        p.session = o.session /\ p.origin = o.origin /\ p.from = o.from

InputsStay ==
    /\ events \subseteq events' /\ findings \subseteq findings'
    /\ \A s \in Sessions : scope'[s] # NoScope => scope'[s] = scope[s]

ReaderSafe ==
    /\ ReadsTheSame
    /\ (RevisionsStay /\ OccurrencesStay /\ InputsStay) \/ retention' > retention

(* A new revision for some sessions changes nothing for a reader.            *)
LEMMA SuccessionReads ==
    ASSUME HistoryInv, NEW T, NEW at, NEW new, NEW h, Succession(T, at, new, h),
           revisions' = Succeeded(T, at, new), oldest' = oldest
    PROVE  /\ \A g \in oldest' .. generation : ShownAt(revisions', g) = ShownAt(revisions, g)
           /\ RevisionsStay
<1>1. \A g \in oldest' .. generation : g \in Nat /\ g <= generation
  BY DEF HistoryInv, HistorySafe, HistoryTypeOK
<1>2. \A g \in oldest' .. generation : ShownAt(revisions', g) = ShownAt(revisions, g)
  BY <1>1, SuccessionUnseen
<1>3. \A r \in revisions : \E q \in Succeeded(T, at, new) : q.session = r.session /\ q.from = r.from
  BY SuccessionKeeps
<1> QED
  BY <1>2, <1>3 DEF RevisionsStay

LEMMA MarkReads ==
    ASSUME HistoryInv, NEW s \in Sessions, MarkHistory(s)
    PROVE  ReadsTheSame /\ RevisionsStay /\ OccurrencesStay
<1>1. PICK g, at : g = generation + 1 /\ at = [t \in {s} |-> generation + 1]
  OBVIOUS
<1>2. PICK new : new = Pending({s}, at)
  OBVIOUS
<1>3. /\ Succession({s}, at, new, g) /\ MarkedRevisions({s}, at) = Succeeded({s}, at, new)
  <2>1. generation <= g /\ g \in Nat /\ at \in [{s} -> generation + 1 .. g]
    BY <1>1 DEF HistoryInv, HistorySafe, HistoryTypeOK
  <2> QED
    BY <1>2, <2>1, MarkedSuccession
<1>4. revisions' = Succeeded({s}, at, new) /\ oldest' = oldest /\ occurrences' = occurrences
  BY <1>1, <1>3 DEF MarkHistory
<1> QED
  BY <1>3, <1>4, SuccessionReads DEF ReadsTheSame, OccurrencesStay

LEMMA UnchangedReads ==
    ASSUME UNCHANGED historyVars
    PROVE  ReadsTheSame /\ RevisionsStay /\ OccurrencesStay
BY DEF historyVars, ReadsTheSame, RevisionsStay, OccurrencesStay

(* A publication ends what was visible and begins at the next generation.     *)
LEMMA PublishReads ==
    ASSUME HistoryInv, NEW w \in Workers, HPublish(w)
    PROVE  ReaderSafe
<1>1. PICK s, view, g, at, n, new :
        /\ s = worker[w].session /\ view = worker[w].view /\ g = generation + 1
        /\ at = [t \in {s} |-> generation + 1]
        /\ n = Revision(s, AnalysisStatus(view), dirty[s].target, dirty[s].target, g)
        /\ new = Projected(s, view, g)
  OBVIOUS
<1>2. /\ Publish(w) /\ generation' = g /\ revisions' = Close(revisions, {s}, at) \cup {n}
      /\ occurrences' = Close(occurrences, {s}, at) \cup new
      /\ oldest' = oldest
  BY <1>1 DEF HPublish
<1>3. /\ s \in Sessions /\ view \in Views /\ HasRow(s)
      /\ Evidence(view) \subseteq OfSession(events, s)
      /\ UNCHANGED storeVars
  BY <1>1, <1>2, ClaimTyped DEF Publish, HoldsTarget, MustFail, Active, HistoryInv
<1>4. /\ AnalysisStatus(view) \in Settled /\ dirty[s].target \in Nat
      /\ generation \in Nat /\ g \in Nat /\ oldest \in Nat
  BY <1>1, <1>3 DEF AnalysisStatus, Settled, HistoryInv, TypeOK, HasRow, Rows,
                    HistorySafe, HistoryTypeOK
<1>5. n \in Revisions /\ n.session = s /\ n.from = generation + 1 /\ n.until = Open
  BY <1>1, <1>3, <1>4 DEF Revision, Revisions, RevisionStatuses, Settled, Open
<1>6. Succession({s}, at, {n}, generation + 1)
  BY <1>1, <1>3, <1>5, OneSuccession
<1>7. /\ \A h \in oldest' .. generation : ShownAt(revisions', h) = ShownAt(revisions, h)
      /\ RevisionsStay
  BY <1>2, <1>6, SuccessionReads DEF Succeeded
<1>8. \A h \in oldest' .. generation : ShownAt(occurrences', h) = ShownAt(occurrences, h)
  <2>1. Evidence(view) \subseteq Events
    BY <1>3 DEF OfSession, HistoryInv, TypeOK
  <2>2. new \subseteq Occurrences /\ \A o \in new : o.from = g
    BY <1>1, <1>3, <1>4, <2>1, ProjectedTyped
  <2>3. at \in [{s} -> Nat] /\ at[s] = generation + 1
    BY <1>1, <1>4
  <2> SUFFICES ASSUME NEW h \in oldest .. generation
               PROVE  ShownAt(Close(occurrences, {s}, at) \cup new, h) = ShownAt(occurrences, h)
    BY <1>2
  <2>5. h \in Nat /\ h < generation + 1
    BY <1>4
  <2>6. \A o \in new : h < o.from
    BY <1>1, <2>2, <2>5
  <2>7. \A t \in {s} : h < at[t]
    BY <2>3, <2>5
  <2> QED
    <3>1. After({s}, at, new, h) /\ occurrences \subseteq Revisions \cup Occurrences
      BY <2>2, <2>3, <2>5, <2>6, <2>7 DEF After, HistoryInv, HistorySafe, HistoryTypeOK
    <3> QED
      BY <3>1, CloseUnseen
<1>9. OccurrencesStay
  <2>1. at \in [{s} -> Nat]
    BY <1>1, <1>4
  <2>2. \A o \in occurrences :
          /\ Ended(o, {s}, at) \in occurrences'
          /\ Ended(o, {s}, at).session = o.session /\ Ended(o, {s}, at).origin = o.origin
          /\ Ended(o, {s}, at).from = o.from
    BY <1>2, <2>1, CloseIsEnded, EndedOccurrence DEF HistoryInv, HistorySafe, HistoryTypeOK
  <2> QED
    BY <2>2 DEF OccurrencesStay
<1> QED
  BY <1>3, <1>7, <1>8, <1>9 DEF ReaderSafe, ReadsTheSame, InputsStay, storeVars

LEMMA FailureReads ==
    ASSUME HistoryInv, NEW w \in Workers, HPublishAnalysisFailure(w)
    PROVE  ReaderSafe
<1>1. PICK s, g, at, closed, n :
        /\ s = worker[w].session /\ g = generation + 1 /\ at = [t \in {s} |-> generation + 1]
        /\ closed = Close(revisions, {s}, at)
        /\ n = Revision(s, "failed", dirty[s].target, AnalyzedAt(closed, s, g), g)
  OBVIOUS
<1>2. /\ PublishAnalysisFailure(w) /\ revisions' = closed \cup {n}
      /\ occurrences' = occurrences /\ oldest' = oldest
  BY <1>1 DEF HPublishAnalysisFailure
<1>3. s \in Sessions /\ HasRow(s) /\ UNCHANGED storeVars
  BY <1>1, <1>2, ClaimTyped DEF PublishAnalysisFailure, HoldsTarget, HistoryInv
<1>4. dirty[s].target \in Nat /\ generation \in Nat /\ g \in Nat
  BY <1>1, <1>3 DEF HistoryInv, TypeOK, HasRow, Rows, HistorySafe, HistoryTypeOK
<1>5. closed \subseteq Revisions
  <2>1. at \in [{s} -> Nat]
    BY <1>1, <1>4
  <2> QED
    BY <1>1, <2>1, CloseIsEnded, EndedRevision DEF HistoryInv, HistorySafe, HistoryTypeOK
<1>6. AnalyzedAt(closed, s, g) \in Nat
  BY <1>5, AnalyzedTyped
<1>7. n \in Revisions /\ n.session = s /\ n.from = generation + 1 /\ n.until = Open
  BY <1>1, <1>3, <1>4, <1>6 DEF Revision, Revisions, RevisionStatuses, Open
<1>8. Succession({s}, at, {n}, generation + 1)
  BY <1>1, <1>3, <1>7, OneSuccession
<1>9. /\ \A h \in oldest' .. generation : ShownAt(revisions', h) = ShownAt(revisions, h)
      /\ RevisionsStay
  BY <1>1, <1>2, <1>8, SuccessionReads DEF Succeeded
<1> QED
  BY <1>2, <1>3, <1>9 DEF ReaderSafe, ReadsTheSame, OccurrencesStay, InputsStay, storeVars

(* A prune that deletes a row leaves no generation readable that shows it.    *)
LEMMA PruneReads ==
    ASSUME HistoryInv, NEW D \in SUBSET events, NEW F \in SUBSET findings,
           NEW T, NEW lost, NEW marked, NEW at, NEW new, NEW next, NEW forgotten,
           PruneParts(D, F, T, lost, marked, at, new, next, forgotten)
    PROVE  ReaderSafe
<1>1. generation \in Nat /\ oldest \in Nat /\ retention \in Nat /\ next \in Nat /\ generation <= next
  BY DEF PruneParts, Succession, HistoryInv, HistorySafe, HistoryTypeOK
<1>2. CASE lost # {} \/ forgotten # {} \/ D # {}
  <2>1. oldest' = next + 1 /\ retention' = retention + 1
    BY <1>2 DEF PruneParts
  <2>2. oldest' .. generation = {}
    BY <1>1, <2>1
  <2> QED
    BY <1>1, <2>1, <2>2 DEF ReaderSafe, ReadsTheSame
<1>3. CASE lost = {} /\ forgotten = {} /\ D = {}
  <2>1. /\ Succession(marked, at, new, next) /\ revisions' = Succeeded(marked, at, new)
        /\ occurrences' = occurrences /\ oldest' = oldest
        /\ retention' = IF F # {} THEN retention + 1 ELSE retention
    BY <1>3 DEF PruneParts
  <2>2. /\ \A g \in oldest' .. generation : ShownAt(revisions', g) = ShownAt(revisions, g)
        /\ RevisionsStay
    BY <2>1, SuccessionReads
  <2>3. /\ OccurrencesStay /\ ReadsTheSame
    BY <2>1, <2>2 DEF OccurrencesStay, ReadsTheSame
  <2>4. events' = events
    BY <1>3 DEF PruneParts, Prune
  <2>5. ASSUME F = {} PROVE findings' = findings
    BY <1>3, <2>5 DEF PruneParts, Prune, LostFindings
  <2>6. \A s \in Sessions : scope'[s] # NoScope => scope'[s] = scope[s]
    BY DEF PruneParts, Prune
  <2>7. CASE F = {}
    BY <2>2, <2>3, <2>4, <2>5, <2>6, <2>7 DEF ReaderSafe, InputsStay
  <2>8. CASE F # {}
    BY <1>1, <2>1, <2>3, <2>8 DEF ReaderSafe
  <2> QED
    BY <2>7, <2>8
<1> QED
  BY <1>2, <1>3

LEMMA ImporterReads ==
    ASSUME HistoryInv, NEW i \in Importers,
           \/ \E e \in Events : HAppendEvent(i, e)
           \/ HUpsertSessionScope(i) \/ HUpsertEventEnrichment(i) \/ HMarkFindingSession(i)
    PROVE  ReaderSafe
<1> USE InputsAssumption
<1>0. importer[i] \in ImporterStates /\ retention \in Nat
  BY DEF HistoryInv, TypeOK, HistorySafe, HistoryTypeOK
<1>1. ASSUME NEW e \in Events, HAppendEvent(i, e) PROVE ReaderSafe
  <2>1. InputsStay
    BY <1>1 DEF HAppendEvent, AppendEvent, InputsStay
  <2>2. CASE UNCHANGED historyVars
    BY <2>1, <2>2, UnchangedReads DEF ReaderSafe
  <2>3. CASE MarkHistory(EventSession[e])
    BY <2>1, <2>3, MarkReads DEF ReaderSafe
  <2> QED
    BY <1>1, <2>2, <2>3 DEF HAppendEvent
<1>2. CASE HUpsertSessionScope(i)
  <2>1. PICK s : s = EventSession[importer[i].item]
    OBVIOUS
  <2>2. /\ s \in Sessions /\ events' = events /\ findings' = findings
        /\ IF scope' = scope THEN UNCHANGED historyVars
           ELSE MarkHistory(s) /\ retention' = retention + 1
    BY <1>0, <1>2, <2>1 DEF HUpsertSessionScope, UpsertSessionScope, ImporterStates
  <2>3. CASE scope' = scope
    BY <2>2, <2>3, UnchangedReads DEF ReaderSafe, InputsStay
  <2>4. CASE scope' # scope
    BY <1>0, <2>2, <2>4, MarkReads DEF ReaderSafe
  <2> QED
    BY <2>3, <2>4
<1>3. CASE HUpsertEventEnrichment(i)
  <2>1. InputsStay /\ EventSession[importer[i].item] \in Sessions
    BY <1>0, <1>3 DEF HUpsertEventEnrichment, UpsertEventEnrichment, InputsStay, ImporterStates
  <2>2. UNCHANGED historyVars \/ MarkHistory(EventSession[importer[i].item])
    BY <1>3 DEF HUpsertEventEnrichment
  <2> QED
    BY <2>1, <2>2, UnchangedReads, MarkReads DEF ReaderSafe
<1>4. CASE HMarkFindingSession(i)
  <2>1. /\ EventSession[FindingEvent[importer[i].item]] \in Sessions
        /\ MarkHistory(EventSession[FindingEvent[importer[i].item]])
    BY <1>0, <1>4 DEF HMarkFindingSession, MarkFindingSession, ImporterStates
  <2>2. InputsStay
    BY <1>4 DEF HMarkFindingSession, MarkFindingSession, storeVars, InputsStay
  <2> QED
    BY <2>1, <2>2, MarkReads DEF ReaderSafe
<1> QED
  BY <1>1, <1>2, <1>3, <1>4

LEMMA StepReads ==
    ASSUME HistoryInv, [HistoryNext]_allVars
    PROVE  ReaderSafe
<1>1. CASE UNCHANGED allVars
  <2>1. UNCHANGED historyVars
    BY <1>1 DEF allVars
  <2>2. InputsStay
    BY <1>1 DEF allVars, vars, InputsStay
  <2> QED
    BY <2>1, <2>2, UnchangedReads DEF ReaderSafe
<1>2. ASSUME NEW w \in Workers, NEW s \in Sessions, HStartupMark(w, s) PROVE ReaderSafe
  <2>1. InputsStay /\ MarkHistory(s)
    BY <1>2 DEF HStartupMark, StartupMark, storeVars, InputsStay
  <2> QED
    BY <2>1, MarkReads DEF ReaderSafe
<1>3. ASSUME HRetentionPrune PROVE ReaderSafe
  BY <1>3, PruneIsSuccession, PruneReads DEF HRetentionPrune
<1>4. ASSUME Unrecorded PROVE ReaderSafe
  <2>1. InputsStay
    <3>1. ASSUME NEW i \in Importers, NEW f \in Findings, RecordFinding(i, f) PROVE InputsStay
      BY <3>1 DEF RecordFinding, InputsStay
    <3>2. CASE UNCHANGED storeVars
      BY <3>2 DEF storeVars, InputsStay
    <3>3. UNCHANGED storeVars \/ \E i \in Importers, f \in Findings : RecordFinding(i, f)
      <4>1. CASE \E w \in Workers : Read(w)
        BY <4>1 DEF Read, ReadScope, ReadEvents, ReadEnrichments, ReadFindings
      <4>2. CASE \E w \in Workers, s \in Sessions : Claim(w, s)
        BY <4>2 DEF Claim
      <4>3. CASE \E w \in Workers : Start(w) \/ Startup(w) \/ StartupDone(w) \/ Recovered(w)
        BY <4>3 DEF Start, Startup, StartupDone, Recovered
      <4>4. CASE \E w \in Workers : Discard(w) \/ Abandon(w) \/ Stop(w)
        BY <4>4 DEF Discard, Abandon, Stop
      <4>5. CASE (\E i \in Importers : ImporterStop(i)) \/ \E s \in Sessions : RetryDue(s)
        BY <4>5 DEF ImporterStop, RetryDue
      <4> QED
        BY <1>4, <4>1, <4>2, <4>3, <4>4, <4>5 DEF Unrecorded
    <3> QED
      BY <3>1, <3>2, <3>3
  <2>2. UNCHANGED historyVars
    BY <1>4 DEF Unrecorded
  <2> QED
    BY <2>1, <2>2, UnchangedReads DEF ReaderSafe
<1>5. CASE \E i \in Importers, e \in Events : HAppendEvent(i, e)
  BY <1>5, ImporterReads
<1>6. CASE \E i \in Importers :
             HUpsertSessionScope(i) \/ HUpsertEventEnrichment(i) \/ HMarkFindingSession(i)
  BY <1>6, ImporterReads
<1>7. CASE \E w \in Workers, s \in Sessions : HStartupMark(w, s)
  BY <1>2, <1>7
<1>8. CASE \E w \in Workers : HPublish(w) \/ HPublishAnalysisFailure(w)
  BY <1>8, PublishReads, FailureReads
<1> QED
  BY <1>1, <1>3, <1>4, <1>5, <1>6, <1>7, <1>8 DEF HistoryNext

(* A reader that holds a retained generation reads the same from it whatever  *)
(* is marked, published, failed or pruned meanwhile.                         *)
THEOREM ReadersUndisturbed == HistorySpec => SnapshotStable
<1>1. ASSUME HistoryInv, [HistoryNext]_allVars
      PROVE  \A g \in oldest' .. generation : Snapshot(g)' = Snapshot(g)
  <2>1. ReadsTheSame
    BY <1>1, StepReads DEF ReaderSafe
  <2>2. \A g : /\ Snapshot(g) = <<ShownAt(revisions, g), ShownAt(occurrences, g)>>
               /\ Snapshot(g)' = <<ShownAt(revisions', g), ShownAt(occurrences', g)>>
    BY DEF Snapshot, ShownAt
  <2> QED
    BY <2>1, <2>2 DEF ReadsTheSame
<1> QED
  BY <1>1, HistoryInvariant, PTL DEF HistorySpec, SnapshotStable

(* The retention generation of a monitoring cursor moves with every row that  *)
(* is deleted and every scope that changes, so no page of it is torn.        *)
THEOREM CursorsFenced == HistorySpec => RetentionFence
<1>1. ASSUME HistoryInv, [HistoryNext]_allVars
      PROVE  (\/ ~(events \subseteq events') \/ ~(findings \subseteq findings')
              \/ {<<r.session, r.from>> : r \in revisions}
                   \ {<<r.session, r.from>> : r \in revisions'} # {}
              \/ \E o \in occurrences : \A p \in occurrences' :
                   <<p.session, p.origin, p.from>> # <<o.session, o.origin, o.from>>
              \/ \E s \in Sessions : scope'[s] # scope[s] /\ scope'[s] # NoScope)
             => retention' > retention
  <2>1. CASE retention' > retention
    BY <2>1
  <2>2. CASE RevisionsStay /\ OccurrencesStay /\ InputsStay
    <3>1. {<<r.session, r.from>> : r \in revisions} \subseteq {<<r.session, r.from>> : r \in revisions'}
      BY <2>2 DEF RevisionsStay
    <3>2. \A o \in occurrences : \E p \in occurrences' :
             <<p.session, p.origin, p.from>> = <<o.session, o.origin, o.from>>
      BY <2>2 DEF OccurrencesStay
    <3> QED
      BY <2>2, <3>1, <3>2 DEF InputsStay
  <2> QED
    BY <1>1, <2>1, <2>2, StepReads DEF ReaderSafe
<1> QED
  BY <1>1, HistoryInvariant, PTL DEF HistorySpec, RetentionFence
=============================================================================
