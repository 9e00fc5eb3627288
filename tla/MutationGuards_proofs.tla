------------------------ MODULE MutationGuards_proofs ------------------------
(***************************************************************************)
(* The guards of a table, for any number of processes and purposes and any   *)
(* tables that the code's migrations get along with: they refuse no          *)
(* migration and no resumption, and let nothing through that the transaction *)
(* did not ask for.                                                          *)
(***************************************************************************)
EXTENDS MutationGuards, FiniteSetTheorems, TLAPS

-----------------------------------------------------------------------------
(* The invariant.                                                            *)

(* What has to be known of a connection: a process that has migrated found    *)
(* the latest version, guards come with their tables and stay to the end, and *)
(* only a transaction has purposes.                                          *)
Settled == {"resume", "install", "seal", "open", "transaction"}
Sealing == {"seal", "open", "transaction"}
InStep(c) ==
    /\ c.phase # "refused"
    /\ c.next # 0 => c.phase = "migrating" /\ c.next <= version + 1
    /\ c.phase \in Settled => version = Latest
    /\ c.guarded => subject.ready <= version
    /\ c.phase \in Sealing => c.guarded
    /\ c.before = {} /\ (c.phase # "transaction" => c.purposes = {})

(* What a transaction has done so far may be done with what it asked for.     *)
Covered(c) ==
    /\ c.purposes \subseteq c.asked
    /\ c.sees # NoRow => c.sees.form = Form(Latest)
    /\ c.sees = row \/ Passes(TRUE, c.asked, row, c.sees)

Sound(c) == c \in Connection /\ InStep(c) /\ (c.phase = "transaction" => Covered(c))

StoreSound ==
    /\ subject \in {Subject(t) : t \in Subjects} /\ version \in Oldest .. Latest
    /\ row \in Rows \cup {NoRow} /\ (row # NoRow => row.form = Form(version))
OneWriter == \A o, p \in Openers : In(o, "transaction") /\ In(p, "transaction") => o = p
GuardInv ==
    /\ StoreSound /\ OneWriter
    /\ DOMAIN conn = Openers /\ conn = [o \in Openers |-> conn[o]]
    /\ \A o \in Openers : Sound(conn[o])

-----------------------------------------------------------------------------
(* The guards.                                                               *)

(* The tables are those the migrations get along with.                       *)
LEMMA SubjectConsistent ==
    ASSUME subject \in {Subject(t) : t \in Subjects} PROVE Consistent(subject)
  BY TablesAssumption

(* A purpose more refuses nothing.                                           *)
LEMMA AllowsMore ==
    ASSUME NEW guard, NEW P, NEW Q, NEW statement, P \subseteq Q, Allows(guard, P, statement)
    PROVE  Allows(guard, Q, statement)
  BY DEF Allows

LEMMA PassesMore ==
    ASSUME NEW P, NEW Q, NEW old, NEW new, P \subseteq Q, Passes(TRUE, P, old, new)
    PROVE  Passes(TRUE, Q, old, new)
<1>1. \A s : Lets(TRUE, P, s) => Lets(TRUE, Q, s)
  BY AllowsMore DEF Lets
<1> QED
  BY <1>1 DEF Passes

(* What may be changed in two steps may be changed in one.                   *)
LEMMA PassesOn ==
    ASSUME NEW P, NEW a, NEW b, NEW c, Passes(TRUE, P, a, b), Passes(TRUE, P, b, c)
    PROVE  a = c \/ Passes(TRUE, P, a, c)
  BY DEF Passes

(* The rows rewritten up to a version, one version after the other.          *)
UpTo(writes, v) == {w \in writes : w.at <= v}
LEMMA OneVersionMore ==
    ASSUME NEW writes, IsFiniteSet(writes), \A w \in writes : w.at \in Nat, NEW v \in Nat
    PROVE  /\ Cardinality(UpTo(writes, v)) \in Nat /\ Cardinality(At(writes, v + 1)) \in Nat
           /\ Cardinality(UpTo(writes, v + 1)) =
                 Cardinality(UpTo(writes, v)) + Cardinality(At(writes, v + 1))
           /\ At(writes, v + 1) = {} => Cardinality(At(writes, v + 1)) = 0
<1>1. UpTo(writes, v + 1) = UpTo(writes, v) \cup At(writes, v + 1)
  BY DEF UpTo, At
<1>2. UpTo(writes, v) \cap At(writes, v + 1) = {}
  BY DEF UpTo, At
<1>3. IsFiniteSet(UpTo(writes, v)) /\ IsFiniteSet(At(writes, v + 1))
  BY FS_Subset DEF UpTo, At
<1>4. Cardinality(UpTo(writes, v)) \in Nat /\ Cardinality(At(writes, v + 1)) \in Nat
  BY <1>3, FS_CardinalityType
<1>5. Cardinality({}) = 0
  BY FS_EmptySet
<1>6. Cardinality(UpTo(writes, v) \cup At(writes, v + 1)) =
        Cardinality(UpTo(writes, v)) + Cardinality(At(writes, v + 1))
        - Cardinality(UpTo(writes, v) \cap At(writes, v + 1))
  BY <1>3, FS_Union
<1>7. Cardinality(UpTo(writes, v + 1)) = Cardinality(UpTo(writes, v)) + Cardinality(At(writes, v + 1)) - 0
  BY <1>1, <1>2, <1>5, <1>6
<1>8. At(writes, v + 1) = {} => Cardinality(At(writes, v + 1)) = 0
  BY <1>5
<1> QED
  BY <1>4, <1>7, <1>8

LEMMA FormGrows ==
    ASSUME subject \in {Subject(t) : t \in Subjects}, NEW v \in Nat
    PROVE  /\ Form(v) \in Nat /\ Cardinality(At(subject.rewrites, v + 1)) \in Nat
           /\ Form(v + 1) = Form(v) + Cardinality(At(subject.rewrites, v + 1))
           /\ At(subject.rewrites, v + 1) = {} => Cardinality(At(subject.rewrites, v + 1)) = 0
<1>1. IsFiniteSet(subject.rewrites) /\ \A w \in subject.rewrites : w.at \in Nat
  BY SubjectConsistent DEF Consistent
<1>2. \A u : Form(u) = Cardinality(UpTo(subject.rewrites, u))
  BY DEF Form, UpTo
<1> QED
  BY <1>1, <1>2, OneVersionMore

-----------------------------------------------------------------------------
(* What a step leaves of the invariant.                                      *)

(* The guards of the subject do not change with the store.                   *)
LEMMA GuardsStay ==
    ASSUME subject' = subject
    PROVE  /\ Purposes' = Purposes /\ Connection' = Connection
           /\ \A v : Form(v)' = Form(v)
           /\ \A g, P, a, b : Passes(g, P, a, b)' = Passes(g, P, a, b)
<1>1. Purposes' = Purposes
  BY DEF Purposes
<1>2. Connection' = Connection
  BY <1>1 DEF Connection
<1>3. \A v : Form(v)' = Form(v)
  BY DEF Form
<1>4. \A g, P, s : Lets(g, P, s)' = Lets(g, P, s)
  BY DEF Lets
<1>5. \A g, P, a, b : Passes(g, P, a, b)' = Passes(g, P, a, b)
  BY <1>4 DEF Passes
<1> QED
  BY <1>1, <1>2, <1>3, <1>5

(* A connection stays sound when the store is brought further; a transaction *)
(* needs the row to stay.                                                    *)
LEMMA StaysSound ==
    ASSUME NEW c, Sound(c), subject' = subject, version \in Nat, version' \in version .. Latest,
           subject.ready \in Nat, row' = row \/ c.phase # "transaction"
    PROVE  Sound(c)'
<1>1. c \in Connection'
  BY GuardsStay DEF Sound
<1>2. InStep(c)'
  <2>1. c.next \in Nat
    BY DEF Sound, Connection
  <2> QED
    BY <2>1 DEF Sound, InStep, Latest
<1>3. ASSUME c.phase = "transaction" PROVE Covered(c)'
  BY <1>3, GuardsStay DEF Sound, Covered
<1> QED
  BY <1>1, <1>2, <1>3 DEF Sound

(* What a step of one process has to show.                                   *)
Alone(o) == \A p \in Openers : p # o => ~ In(p, "transaction")
LEMMA OneConnection ==
    ASSUME GuardInv, NEW o \in Openers, NEW c, conn' = [conn EXCEPT ![o] = c],
           subject' = subject, version' \in version .. Latest, StoreSound', Sound(c)',
           row' = row \/ Alone(o), c.phase = "transaction" => Alone(o)
    PROVE  GuardInv'
<1>1. /\ DOMAIN conn' = Openers /\ conn' = [p \in Openers |-> conn'[p]]
      /\ conn'[o] = c /\ \A p \in Openers : p # o => conn'[p] = conn[p]
  BY DEF GuardInv
<1>2. subject.ready \in Nat
  BY SubjectConsistent DEF Consistent, Latest, GuardInv, StoreSound
<1>3. version \in Nat
  BY VersionAssumption DEF GuardInv, StoreSound, Latest
<1>4. ASSUME NEW p \in Openers PROVE Sound(conn[p])'
  <2>1. CASE p = o
    BY <1>1, <2>1
  <2>2. CASE p # o
    <3>1. PICK d : d = conn[p]
      OBVIOUS
    <3>2. Sound(d) /\ (row' = row \/ d.phase # "transaction")
      BY <2>2, <3>1 DEF GuardInv, Alone, In
    <3>3. Sound(d)'
      BY <1>2, <1>3, <3>2, StaysSound
    <3> QED
      BY <1>1, <2>2, <3>1, <3>3
  <2> QED
    BY <2>1, <2>2
<1>5. OneWriter'
  BY <1>1 DEF OneWriter, In, GuardInv, Alone
<1> QED
  BY <1>1, <1>4, <1>5 DEF GuardInv

LEMMA OnlyConnection ==
    ASSUME GuardInv, NEW o \in Openers, NEW c, conn' = [conn EXCEPT ![o] = c],
           UNCHANGED <<subject, version, row>>, Sound(c), c.phase = "transaction" => Alone(o)
    PROVE  GuardInv'
<1>1. subject.ready \in Nat /\ version \in Nat /\ version \in version .. Latest
  BY SubjectConsistent, VersionAssumption DEF Consistent, Latest, GuardInv, StoreSound
<1>2. Sound(c)'
  BY <1>1, StaysSound
<1>3. StoreSound'
  BY GuardsStay DEF GuardInv, StoreSound
<1> QED
  BY <1>1, <1>2, <1>3, OneConnection

LEMMA ClosedSound ==
    ASSUME GuardInv PROVE Sound(Closed)
  BY DEF Sound, Closed, Connection, Phases, InStep, Settled, Sealing, Latest

LEMMA HookReady ==
    ASSUME GuardInv PROVE \E h \in BOOLEAN : h = Hook /\ (h => subject.ready <= version)
<1>1. subject.ready \in Nat /\ version \in Nat
  BY SubjectConsistent, VersionAssumption DEF Consistent, Latest, GuardInv, StoreSound
<1>2. Hook \in BOOLEAN
  BY DEF Hook
<1>3. Hook => subject.ready <= version
  BY <1>1 DEF Hook
<1> QED
  BY <1>2, <1>3

(* The connection that is made anew has the guards that it needs.            *)
LEMMA HookEnough ==
    ASSUME GuardInv, version = Latest PROVE Hook
  BY SubjectConsistent DEF GuardInv, StoreSound, Consistent, Hook, Latest

-----------------------------------------------------------------------------
(* The steps.                                                                *)
LEMMA ConnectStep ==
    ASSUME GuardInv, NEW o \in Openers, Connect(o) PROVE GuardInv'
<1>0. PICK h \in BOOLEAN : h = Hook /\ (h => subject.ready <= version)
  BY HookReady
<1>1. PICK c : c = [Closed EXCEPT !.phase = "migrating", !.guarded = h]
  OBVIOUS
<1>2. conn' = [conn EXCEPT ![o] = c] /\ UNCHANGED <<subject, version, row>>
  BY <1>0, <1>1 DEF Connect
<1>3. c \in Connection
  BY <1>0, <1>1, ClosedSound DEF Sound, Connection, Phases
<1>5. InStep(c)
  BY <1>0, <1>1 DEF Closed, InStep, Settled, Sealing
<1>4. c.phase # "transaction"
  BY <1>1 DEF Closed
<1> QED
  BY <1>2, <1>3, <1>4, <1>5, OnlyConnection DEF Sound

LEMMA CrashStep ==
    ASSUME GuardInv, NEW o \in Openers, Fail(o), UNCHANGED <<subject, version, row>>
    PROVE  GuardInv'
<1>1. PICK c : c = Closed
  OBVIOUS
<1>2. conn' = [conn EXCEPT ![o] = c] /\ c.phase # "transaction"
  BY <1>1 DEF Fail, Closed
<1> QED
  BY <1>1, <1>2, ClosedSound, OnlyConnection

LEMMA CheckMigrationStep ==
    ASSUME GuardInv, NEW o \in Openers, CheckMigration(o) PROVE GuardInv'
<1>1. PICK old : old = conn[o]
  OBVIOUS
<1>2. PICK c : c = IF version < Latest THEN [old EXCEPT !.next = version + 1]
                                       ELSE [old EXCEPT !.phase = "resume"]
  OBVIOUS
<1>3. Sound(old) /\ old.phase = "migrating" /\ old.next = 0 /\ version \in Nat /\ version <= Latest
  BY <1>1, VersionAssumption DEF GuardInv, CheckMigration, In, StoreSound, Latest
<1>4. conn' = [conn EXCEPT ![o] = c] /\ UNCHANGED <<subject, version, row>>
  BY <1>1, <1>2 DEF CheckMigration
<1>5. Sound(c) /\ c.phase # "transaction"
  BY <1>2, <1>3 DEF Sound, Connection, Phases, InStep, Settled, Sealing, Latest
<1> QED
  BY <1>4, <1>5, OnlyConnection

LEMMA InstallStep ==
    ASSUME GuardInv, NEW o \in Openers, Install(o) PROVE GuardInv'
<1>1. PICK old : old = conn[o]
  OBVIOUS
<1>2. PICK c : c = [old EXCEPT !.phase = "seal", !.guarded = TRUE, !.purposes = {}]
  OBVIOUS
<1>3. Sound(old) /\ old.phase = "install"
  BY <1>1 DEF GuardInv, Install, In
<1>4. conn' = [conn EXCEPT ![o] = c] /\ UNCHANGED <<subject, version, row>>
  BY <1>1, <1>2 DEF Install
<1>5. subject.ready <= version
  BY <1>3, HookEnough DEF Hook, Sound, InStep, Settled
<1>6. Sound(c) /\ c.phase # "transaction"
  BY <1>2, <1>3, <1>5 DEF Sound, Connection, Phases, InStep, Settled, Sealing
<1> QED
  BY <1>4, <1>6, OnlyConnection

LEMMA LoseStep ==
    ASSUME GuardInv, NEW o \in Openers, Lose(o) PROVE GuardInv'
<1>1. PICK old : old = conn[o]
  OBVIOUS
<1>0. PICK h \in BOOLEAN : h = Hook /\ (h => subject.ready <= version)
  BY HookReady
<1>2. PICK anew : anew = [old EXCEPT !.guarded = h, !.purposes = {}, !.asked = {}]
  OBVIOUS
<1>3. PICK c : c = IF old.phase = "transaction"
                   THEN [anew EXCEPT !.phase = "open", !.before = {}, !.sees = NoRow] ELSE anew
  OBVIOUS
<1>4. Sound(old)
  BY <1>1 DEF GuardInv
<1>5. conn' = [conn EXCEPT ![o] = c] /\ UNCHANGED <<subject, version, row>>
  BY <1>0, <1>1, <1>2, <1>3 DEF Lose, Reconnected
<1>6. old.phase \in Settled => h
  BY <1>0, <1>4, HookEnough DEF Sound, InStep
<1>7. anew \in Connection /\ c \in Connection
  BY <1>2, <1>3, <1>4 DEF Sound, Connection, Phases
<1>8. c.phase # "transaction" /\ InStep(c)
  BY <1>0, <1>2, <1>3, <1>4, <1>6 DEF Sound, Connection, InStep, Settled, Sealing
<1> QED
  BY <1>5, <1>7, <1>8, OnlyConnection DEF Sound

(* The transactions.                                                         *)
LEMMA BeginStep ==
    ASSUME GuardInv, NEW o \in Openers, Begin(o) PROVE GuardInv'
<1>1. PICK old : old = conn[o]
  OBVIOUS
<1>2. PICK c : c = [old EXCEPT !.phase = "transaction", !.sees = row,
                               !.before = old.purposes, !.asked = {}]
  OBVIOUS
<1>3. Sound(old) /\ old.phase = "open"
  BY <1>1 DEF GuardInv, Begin, In
<1>4. conn' = [conn EXCEPT ![o] = c] /\ UNCHANGED <<subject, version, row>> /\ Alone(o)
  BY <1>1, <1>2 DEF Begin, Alone, Unlocked
<1>5. old.purposes = {} /\ version = Latest
  BY <1>3 DEF Sound, InStep, Settled
<1>6. c \in Connection
  BY <1>2, <1>3, <1>5 DEF Sound, Connection, Phases, GuardInv, StoreSound
<1>7. InStep(c)
  BY <1>2, <1>3, <1>5 DEF Sound, Connection, InStep, Settled, Sealing
<1>8. Covered(c)
  <2>1. c.sees = row /\ c.purposes = {}
    BY <1>2, <1>3, <1>5 DEF Sound, Connection
  <2> QED
    BY <1>5, <2>1 DEF Covered, GuardInv, StoreSound
<1> QED
  BY <1>4, <1>6, <1>7, <1>8, OnlyConnection DEF Sound

(* A transaction that is under way: nobody else has one.                     *)
LEMMA InTransaction ==
    ASSUME GuardInv, NEW o \in Openers, In(o, "transaction"), NEW old, old = conn[o]
    PROVE  /\ Sound(old) /\ Covered(old) /\ old \in Connection /\ InStep(old) /\ Alone(o)
           /\ old.phase = "transaction" /\ old.guarded = TRUE /\ old.before = {}
           /\ version = Latest
<1>1. Sound(old) /\ old.phase = "transaction"
  BY DEF GuardInv, In
<1>2. Alone(o)
  BY DEF GuardInv, OneWriter, Alone
<1>3. old.guarded = TRUE
  BY <1>1 DEF Sound, Connection, InStep, Sealing
<1> QED
  BY <1>1, <1>2, <1>3 DEF Sound, InStep, Settled

LEMMA RolledBackStep ==
    ASSUME GuardInv, NEW o \in Openers, In(o, "transaction"),
           conn' = [conn EXCEPT ![o] = RolledBack(o)], UNCHANGED <<subject, version, row>>
    PROVE  GuardInv'
<1>1. PICK old : old = conn[o]
  OBVIOUS
<1>2. PICK c : c = [old EXCEPT !.phase = "open", !.purposes = old.before, !.before = {},
                               !.sees = NoRow, !.asked = {}]
  OBVIOUS
<1>3. old \in Connection /\ InStep(old) /\ old.phase = "transaction" /\ old.before = {}
  BY <1>1, InTransaction
<1>4. conn' = [conn EXCEPT ![o] = c]
  BY <1>1, <1>2 DEF RolledBack
<1>5. c \in Connection
  BY <1>2, <1>3 DEF Connection, Phases
<1>6. InStep(c) /\ c.phase # "transaction"
  BY <1>2, <1>3 DEF Connection, InStep, Settled, Sealing
<1> QED
  BY <1>4, <1>5, <1>6, OnlyConnection DEF Sound

LEMMA AuthorizeStep ==
    ASSUME GuardInv, NEW o \in Openers, NEW purpose \in Purposes, Authorize(o, purpose)
    PROVE  GuardInv'
<1>1. PICK old : old = conn[o]
  OBVIOUS
<1>2. PICK c : c = [old EXCEPT !.purposes = old.purposes \cup {purpose},
                               !.asked = old.asked \cup {purpose}]
  OBVIOUS
<1>3. In(o, "transaction") /\ UNCHANGED <<subject, version, row>>
  BY DEF Authorize
<1>4. /\ old \in Connection /\ InStep(old) /\ Covered(old) /\ Alone(o)
      /\ old.phase = "transaction" /\ old.before = {}
  BY <1>1, <1>3, InTransaction
<1>5. CASE purpose \in old.purposes
  <2>1. conn' = [conn EXCEPT ![o] = RolledBack(o)]
    BY <1>1, <1>5 DEF Authorize, GuardInv
  <2> QED
    BY <1>3, <2>1, RolledBackStep
<1>6. CASE purpose \notin old.purposes
  <2>0. [conn[o] EXCEPT !.purposes = @ \cup {purpose}, !.asked = @ \cup {purpose}] = c
    BY <1>1, <1>2, <1>4 DEF Connection
  <2>1. conn' = [conn EXCEPT ![o] = c]
    BY <1>1, <1>6, <2>0 DEF Authorize, GuardInv
  <2>2. c \in Connection
    BY <1>2, <1>4 DEF Connection
  <2>3. InStep(c)
    BY <1>2, <1>4 DEF Connection, InStep, Settled, Sealing
  <2>4. Covered(c)
    <3>1. c.sees = old.sees /\ old.asked \subseteq c.asked /\ c.purposes \subseteq c.asked
      BY <1>2, <1>4 DEF Connection, Covered
    <3> QED
      BY <1>4, <3>1, PassesMore DEF Covered
  <2> QED
    BY <1>3, <1>4, <2>1, <2>2, <2>3, <2>4, OnlyConnection DEF Sound
<1> QED
  BY <1>5, <1>6

LEMMA ClearStep ==
    ASSUME GuardInv, NEW o \in Openers, NEW purpose, Clear(o, purpose) PROVE GuardInv'
<1>1. PICK old : old = conn[o]
  OBVIOUS
<1>2. PICK c : c = [old EXCEPT !.purposes = old.purposes \ {purpose}]
  OBVIOUS
<1>3. In(o, "transaction") /\ UNCHANGED <<subject, version, row>>
  BY DEF Clear
<1>4. /\ old \in Connection /\ InStep(old) /\ Covered(old) /\ Alone(o)
      /\ old.phase = "transaction"
  BY <1>1, <1>3, InTransaction
<1>5. conn' = [conn EXCEPT ![o] = c]
  BY <1>1, <1>2 DEF Clear
<1>6. c \in Connection /\ InStep(c)
  BY <1>2, <1>4 DEF Connection, InStep, Settled, Sealing
<1>7. Covered(c)
  BY <1>2, <1>4 DEF Connection, Covered
<1> QED
  BY <1>3, <1>4, <1>5, <1>6, <1>7, OnlyConnection DEF Sound

(* What rows are made and changed to.                                        *)
LEMMA NewRowForm ==
    ASSUME subject \in {Subject(t) : t \in Subjects}, NEW i \in 1 .. 2, NEW v \in Nat
    PROVE  NewRow(i, v) \in Rows /\ NewRow(i, v).form = Form(v)
  BY FormGrows DEF NewRow, Rows

LEMMA ChangedForm ==
    ASSUME NEW r \in Rows
    PROVE  /\ Changed(r) \in Rows /\ Changed(r).form = r.form
           /\ subject.fixed => Changed(r).identity = r.identity
  BY DEF Changed, Rows

LEMMA ExecuteStep ==
    ASSUME GuardInv, NEW o \in Openers, Execute(o) PROVE GuardInv'
<1>1. PICK old : old = conn[o]
  OBVIOUS
<1>2. In(o, "transaction") /\ UNCHANGED <<subject, version, row>>
  BY DEF Execute
<1>3. /\ old \in Connection /\ InStep(old) /\ Covered(old) /\ Alone(o)
      /\ old.phase = "transaction" /\ old.guarded = TRUE
  BY <1>1, <1>2, InTransaction
<1>4. PICK new : /\ new \in {NoRow, NewRow(1, Latest), NewRow(2, Latest)} \cup
                           (IF old.sees = NoRow THEN {} ELSE {Changed(old.sees)})
                 /\ conn' = [conn EXCEPT ![o] =
                               IF Passes(old.guarded, old.purposes, old.sees, new)
                               THEN [old EXCEPT !.sees = new] ELSE RolledBack(o)]
  BY <1>1 DEF Execute, GuardInv
<1>5. CASE Passes(TRUE, old.purposes, old.sees, new)
  <2>1. PICK c : c = [old EXCEPT !.sees = new]
    OBVIOUS
  <2>2. conn' = [conn EXCEPT ![o] = c]
    BY <1>3, <1>4, <1>5, <2>1
  <2>3. new \in Rows \cup {NoRow} /\ (new # NoRow => new.form = Form(Latest))
    <3>1. CASE new \in {NewRow(1, Latest), NewRow(2, Latest)}
      BY <3>1, NewRowForm DEF GuardInv, StoreSound, Latest
    <3>2. CASE old.sees # NoRow /\ new = Changed(old.sees)
      <4>1. old.sees \in Rows /\ old.sees.form = Form(Latest)
        BY <1>3, <3>2 DEF Connection, Covered
      <4> QED
        BY <3>2, <4>1, ChangedForm
    <3> QED
      BY <1>4, <3>1, <3>2
  <2>4. c \in Connection
    BY <1>3, <2>1, <2>3 DEF Connection
  <2>5. InStep(c)
    BY <1>3, <2>1 DEF Connection, InStep, Settled, Sealing
  <2>6. Covered(c)
    <3>1. c.sees = new /\ c.purposes = old.purposes /\ c.asked = old.asked
      BY <1>3, <2>1 DEF Connection
    <3>2. Passes(TRUE, old.asked, old.sees, new)
      BY <1>3, <1>5, PassesMore DEF Covered
    <3>3. new = row \/ Passes(TRUE, old.asked, row, new)
      BY <1>3, <3>2, PassesOn DEF Covered
    <3> QED
      BY <1>3, <2>3, <3>1, <3>3 DEF Covered
  <2> QED
    BY <1>2, <1>3, <2>2, <2>4, <2>5, <2>6, OnlyConnection DEF Sound
<1>6. CASE ~ Passes(TRUE, old.purposes, old.sees, new)
  <2>1. conn' = [conn EXCEPT ![o] = RolledBack(o)]
    BY <1>3, <1>4, <1>6
  <2> QED
    BY <1>2, <2>1, RolledBackStep
<1> QED
  BY <1>5, <1>6

LEMMA CommitStep ==
    ASSUME GuardInv, NEW o \in Openers, Commit(o) PROVE GuardInv'
<1>1. PICK old : old = conn[o]
  OBVIOUS
<1>2. PICK c : c = [old EXCEPT !.phase = "open", !.before = {}, !.sees = NoRow, !.asked = {}]
  OBVIOUS
<1>3. /\ In(o, "transaction") /\ UNCHANGED <<subject, version>>
      /\ row' = old.sees /\ old.purposes = old.before
  BY <1>1 DEF Commit
<1>4. /\ old \in Connection /\ InStep(old) /\ Covered(old) /\ Alone(o)
      /\ old.phase = "transaction" /\ old.before = {} /\ version = Latest
  BY <1>1, <1>3, InTransaction
<1>5. conn' = [conn EXCEPT ![o] = c]
  BY <1>1, <1>2 DEF Commit
<1>6. c \in Connection
  BY <1>2, <1>4 DEF Connection, Phases
<1>7. InStep(c) /\ c.phase # "transaction"
  BY <1>2, <1>3, <1>4 DEF Connection, InStep, Settled, Sealing
<1>8. StoreSound'
  <2>1. row' \in Rows \cup {NoRow}
    BY <1>3, <1>4 DEF Connection
  <2>2. row' # NoRow => row'.form = Form(version)'
    BY <1>3, <1>4, GuardsStay DEF Covered
  <2> QED
    BY <1>3, <2>1, <2>2 DEF GuardInv, StoreSound
<1>9. version \in Nat /\ version' \in version .. Latest /\ subject.ready \in Nat
  BY <1>3, <1>4, SubjectConsistent DEF Latest, GuardInv, StoreSound, Consistent
<1>10. Sound(c)'
  BY <1>3, <1>6, <1>7, <1>9, StaysSound DEF Sound
<1> QED
  BY <1>3, <1>4, <1>5, <1>7, <1>8, <1>9, <1>10, OneConnection

(* The migrations.                                                           *)

(* The guards of the connection let the next migration write.                *)
LEMMA MigrationPasses ==
    ASSUME GuardInv, NEW g, g => subject.ready <= version, NEW v, v = version + 1,
           NEW new \in Migrated(v)
    PROVE  /\ new \in Rows \cup {NoRow} /\ (new # NoRow => new.form = Form(v))
           /\ new = row \/ Passes(g, Named(v), row, new)
<1>1. /\ version \in Nat /\ Oldest <= version /\ subject.ready \in Nat /\ v \in Nat
      /\ Oldest \in Nat
  BY SubjectConsistent, VersionAssumption DEF GuardInv, StoreSound, Consistent, Latest
<1>2. g => Guarded(subject, v)
  BY <1>1 DEF Guarded
<1>3. row \in Rows \cup {NoRow} /\ (row # NoRow => row.form = Form(version))
  BY DEF GuardInv, StoreSound
<1>4. Consistent(subject) /\ subject \in {Subject(t) : t \in Subjects}
  BY SubjectConsistent DEF GuardInv, StoreSound
<1>5. CASE row = NoRow
  <2>1. CASE new = NoRow
    BY <1>5, <2>1
  <2>2. CASE new # NoRow
    <3>1. new = NewRow(1, v)
      BY <1>5, <2>2 DEF Migrated
    <3>2. PICK w \in subject.fills : w.at = v
      BY <1>5, <2>2 DEF Migrated, At
    <3>3. g => Allows(subject.guard, NamedFor(subject, v), "insert")
      BY <1>2, <1>4, <3>2 DEF Consistent
    <3>4. Passes(g, Named(v), row, new)
      BY <1>5, <3>3 DEF Passes, Lets, Named
    <3> QED
      BY <1>1, <1>4, <3>1, <3>4, NewRowForm
  <2> QED
    BY <2>1, <2>2
<1>6. CASE row # NoRow
  <2>1. /\ new = [row EXCEPT !.form = @ + Cardinality(At(subject.rewrites, v))]
        /\ row \in Rows /\ row.form = Form(version)
    BY <1>3, <1>6 DEF Migrated
  <2>2. /\ Form(v) = Form(version) + Cardinality(At(subject.rewrites, v))
        /\ Cardinality(At(subject.rewrites, v)) \in Nat /\ Form(version) \in Nat
        /\ At(subject.rewrites, v) = {} => Cardinality(At(subject.rewrites, v)) = 0
    BY <1>1, <1>4, FormGrows
  <2>3. new \in Rows /\ new.form = Form(v) /\ new.identity = row.identity
    BY <2>1, <2>2 DEF Rows
  <2>4. CASE At(subject.rewrites, v) = {}
    <3>1. new = row
      BY <2>1, <2>2, <2>4 DEF Rows
    <3> QED
      BY <2>3, <3>1
  <2>5. CASE At(subject.rewrites, v) # {}
    <3>1. PICK w \in subject.rewrites : w.at = v
      BY <2>5 DEF At
    <3>2. g => Allows(subject.guard, NamedFor(subject, v), "update")
      BY <1>2, <1>4, <3>1 DEF Consistent
    <3>3. Passes(g, Named(v), row, new)
      <4>1. new # NoRow
        BY <2>3, NoRowAssumption
      <4> QED
        BY <1>6, <2>3, <3>2, <4>1 DEF Passes, Lets, Named
    <3> QED
      BY <2>3, <3>3
  <2> QED
    BY <2>4, <2>5
<1> QED
  BY <1>5, <1>6

LEMMA ApplyMigrationStep ==
    ASSUME GuardInv, NEW o \in Openers, ApplyMigration(o) PROVE GuardInv'
<1>1. PICK old : old = conn[o]
  OBVIOUS
<1>2. PICK v : v = old.next
  OBVIOUS
<1>3. /\ old.phase = "migrating" /\ v # 0 /\ Alone(o) /\ subject' = subject
      /\ old \in Connection /\ InStep(old)
  BY <1>1, <1>2 DEF ApplyMigration, In, Unlocked, Alone, GuardInv, Sound
<1>4. version \in Nat /\ version <= Latest /\ v \in 0 .. Latest /\ v <= version + 1
  BY <1>2, <1>3, VersionAssumption DEF InStep, Connection, GuardInv, StoreSound, Latest
<1>5. CASE version >= v
  BY <1>1, <1>2, <1>3, <1>5, CrashStep DEF ApplyMigration
<1>6. CASE ~ version >= v
  <2>1. v = version + 1 /\ v \in Oldest .. Latest /\ Oldest <= version
    BY <1>4, <1>6, VersionAssumption DEF GuardInv, StoreSound, Latest
  <2>2. PICK new \in Migrated(v) :
            IF new # row /\ ~ Passes(old.guarded, Named(v), row, new)
            THEN conn' = [conn EXCEPT ![o].phase = "refused"] /\ UNCHANGED <<version, row>>
            ELSE row' = new /\ version' = v /\ conn' = [conn EXCEPT ![o].next = 0]
    BY <1>1, <1>2, <1>6 DEF ApplyMigration
  <2>3. old.guarded => subject.ready <= version
    BY <1>3 DEF InStep
  <2>4. /\ new \in Rows \cup {NoRow} /\ (new # NoRow => new.form = Form(v))
        /\ new = row \/ Passes(old.guarded, Named(v), row, new)
    BY <2>1, <2>2, <2>3, MigrationPasses
  <2>5. row' = new /\ version' = v /\ conn' = [conn EXCEPT ![o].next = 0]
    BY <2>2, <2>4
  <2>6. PICK c : c = [old EXCEPT !.next = 0]
    OBVIOUS
  <2>7. conn' = [conn EXCEPT ![o] = c]
    BY <1>1, <2>5, <2>6
  <2>8. c \in Connection /\ InStep(c) /\ c.phase # "transaction"
    BY <1>3, <2>6 DEF Connection, InStep, Settled, Sealing, Latest
  <2>9. version' \in version .. Latest /\ subject.ready \in Nat
    BY <1>4, <2>1, <2>5, SubjectConsistent DEF Latest, GuardInv, StoreSound, Consistent
  <2>10. StoreSound'
    BY <1>3, <2>1, <2>4, <2>5, GuardsStay DEF GuardInv, StoreSound
  <2>11. Sound(c)'
    BY <1>3, <1>4, <2>8, <2>9, StaysSound DEF Sound
  <2> QED
    BY <1>3, <2>7, <2>8, <2>9, <2>10, <2>11, OneConnection
<1> QED
  BY <1>5, <1>6

(* The guards let what resumes and what seals write, installed or not.       *)
Onward(phase, then) ==
    (phase = "resume" /\ then = "install") \/ (phase = "seal" /\ then = "open")
LEMMA UpgradeStep ==
    ASSUME GuardInv, NEW o \in Openers, NEW phase, NEW at, NEW then, Upgrade(o, phase, at, then),
           Onward(phase, then)
    PROVE  GuardInv'
<1>1. PICK old : old = conn[o]
  OBVIOUS
<1>2. /\ old.phase = phase /\ Alone(o) /\ UNCHANGED <<subject, version>>
      /\ old \in Connection /\ InStep(old)
  BY <1>1 DEF Upgrade, In, Unlocked, Alone, GuardInv, Sound
<1>3. PICK new : /\ new \in {row} \cup
                          (IF row # NoRow /\ At(subject.resumes, at) # {} THEN {Changed(row)} ELSE {})
                          \cup (IF At(subject.discards, at) # {} THEN {NoRow} ELSE {})
                 /\ IF new # row /\ ~ Passes(old.guarded, Named(at), row, new)
                    THEN conn' = [conn EXCEPT ![o].phase = "refused"] /\ UNCHANGED row
                    ELSE row' = new /\ conn' = [conn EXCEPT ![o].phase = then]
  BY <1>1 DEF Upgrade
<1>4. Consistent(subject)
  BY SubjectConsistent DEF GuardInv, StoreSound
<1>5. row \in Rows \cup {NoRow} /\ (row # NoRow => row.form = Form(version))
  BY DEF GuardInv, StoreSound
<1>6. /\ new \in Rows \cup {NoRow} /\ (new # NoRow => new.form = Form(version))
      /\ new = row \/ Passes(old.guarded, Named(at), row, new)
  <2>1. CASE row # NoRow /\ At(subject.resumes, at) # {} /\ new = Changed(row)
    <3>1. PICK w \in subject.resumes : w.at = at
      BY <2>1 DEF At
    <3>2. Allows(subject.guard, NamedFor(subject, at), "update")
      BY <1>4, <3>1 DEF Consistent
    <3>3. /\ new \in Rows /\ new.form = row.form
          /\ subject.fixed => new.identity = row.identity
      BY <1>5, <2>1, ChangedForm
    <3>4. new # NoRow
      BY <3>3, NoRowAssumption
    <3>5. Passes(old.guarded, Named(at), row, new)
      BY <2>1, <3>2, <3>3, <3>4 DEF Passes, Lets, Named
    <3> QED
      BY <1>5, <2>1, <3>3, <3>5
  <2>2. CASE At(subject.discards, at) # {} /\ new = NoRow
    <3>1. PICK w \in subject.discards : w.at = at
      BY <2>2 DEF At
    <3>2. Allows(subject.guard, NamedFor(subject, at), "delete")
      BY <1>4, <3>1 DEF Consistent
    <3> QED
      BY <2>2, <3>2 DEF Passes, Lets, Named
  <2> QED
    BY <1>3, <1>5, <2>1, <2>2
<1>7. row' = new /\ conn' = [conn EXCEPT ![o].phase = then]
  BY <1>3, <1>6
<1>8. PICK c : c = [old EXCEPT !.phase = then]
  OBVIOUS
<1>9. conn' = [conn EXCEPT ![o] = c]
  BY <1>1, <1>7, <1>8
<1>10. c \in Connection /\ InStep(c) /\ c.phase # "transaction"
  BY <1>2, <1>8 DEF Connection, InStep, Settled, Sealing, Phases, Onward
<1>11. version \in Nat /\ version' \in version .. Latest /\ subject.ready \in Nat
  BY <1>2, <1>4, VersionAssumption DEF Latest, GuardInv, StoreSound, Consistent
<1>12. StoreSound'
  BY <1>2, <1>6, <1>7, GuardsStay DEF GuardInv, StoreSound
<1>13. Sound(c)'
  BY <1>2, <1>10, <1>11, StaysSound DEF Sound
<1> QED
  BY <1>2, <1>9, <1>10, <1>11, <1>12, <1>13, OneConnection

-----------------------------------------------------------------------------
(* The theorems.                                                             *)
LEMMA GuardInitHolds ==
    ASSUME GuardInit PROVE GuardInv
<1>1. version \in Nat
  BY VersionAssumption DEF GuardInit, Latest
<1>2. row \in Rows \cup {NoRow} /\ (row # NoRow => row.form = Form(version))
  <2>1. CASE row = NoRow
    BY <2>1
  <2>2. CASE row = NewRow(1, version)
    BY <1>1, <2>2, NewRowForm DEF GuardInit
  <2> QED
    BY <2>1, <2>2 DEF GuardInit
<1>3. \A o \in Openers : conn[o] = Closed
  BY DEF GuardInit
<1>4. Sound(Closed)
  BY DEF Sound, Closed, Connection, Phases, InStep, Settled, Sealing, Latest
<1>5. Closed.phase # "transaction"
  BY DEF Closed
<1> QED
  BY <1>2, <1>3, <1>4, <1>5 DEF GuardInv, StoreSound, OneWriter, In, GuardInit

LEMMA GuardStep ==
    ASSUME GuardInv, [GuardNext]_guardVars PROVE GuardInv'
<1>1. CASE UNCHANGED guardVars
  <2>1. UNCHANGED <<subject, version, row, conn>>
    BY <1>1 DEF guardVars
  <2>2. subject.ready \in Nat /\ version \in Nat /\ version' \in version .. Latest
    BY <2>1, SubjectConsistent, VersionAssumption DEF Consistent, Latest, GuardInv, StoreSound
  <2>3. ASSUME NEW o \in Openers PROVE Sound(conn[o])'
    <3>1. PICK c : c = conn[o]
      OBVIOUS
    <3>2. Sound(c)'
      BY <2>1, <2>2, <3>1, StaysSound DEF GuardInv
    <3> QED
      BY <2>1, <3>1, <3>2
  <2>4. StoreSound'
    BY <2>1, GuardsStay DEF GuardInv, StoreSound
  <2> QED
    BY <2>1, <2>3, <2>4 DEF GuardInv, OneWriter, In
<1>2. ASSUME NEW o \in Openers, Connect(o) \/ CheckMigration(o) \/ ApplyMigration(o)
      PROVE  GuardInv'
  BY <1>2, ConnectStep, CheckMigrationStep, ApplyMigrationStep
<1>3. ASSUME NEW o \in Openers, Resume(o) \/ Install(o) \/ Seal(o) PROVE GuardInv'
  <2>1. CASE Resume(o)
    <3>1. PICK at, phase, then : at = Latest + 1 /\ phase = "resume" /\ then = "install"
      OBVIOUS
    <3>2. Upgrade(o, phase, at, then) /\ Onward(phase, then)
      BY <2>1, <3>1 DEF Resume, Onward
    <3> QED
      BY <3>2, UpgradeStep
  <2>2. CASE Seal(o)
    <3>1. PICK at, phase, then : at = Latest + 2 /\ phase = "seal" /\ then = "open"
      OBVIOUS
    <3>2. Upgrade(o, phase, at, then) /\ Onward(phase, then)
      BY <2>2, <3>1 DEF Seal, Onward
    <3> QED
      BY <3>2, UpgradeStep
  <2> QED
    BY <1>3, <2>1, <2>2, InstallStep
<1>4. ASSUME NEW o \in Openers, Begin(o) \/ Execute(o) \/ Commit(o) PROVE GuardInv'
  BY <1>4, BeginStep, ExecuteStep, CommitStep
<1>5. ASSUME NEW o \in Openers, Rollback(o) PROVE GuardInv'
  BY <1>5, RolledBackStep DEF Rollback
<1>6. ASSUME NEW o \in Openers, NEW purpose \in Purposes,
             Authorize(o, purpose) \/ Clear(o, purpose)
      PROVE  GuardInv'
  BY <1>6, AuthorizeStep, ClearStep
<1>7. ASSUME NEW o \in Openers, Lose(o) \/ Crash(o) PROVE GuardInv'
  BY <1>7, LoseStep, CrashStep DEF Crash
<1> QED
  BY <1>1, <1>2, <1>3, <1>4, <1>5, <1>6, <1>7 DEF GuardNext

(* Whichever processes open a store, migrate it and write, and whichever     *)
(* connections they lose, what is known of them stays in step with the store. *)
THEOREM GuardInvariant == GuardSpec => [](GuardTypeOK /\ GuardInv)
<1>1. GuardInit => GuardInv
  BY GuardInitHolds
<1>2. GuardInv /\ [GuardNext]_guardVars => GuardInv'
  BY GuardStep
<1>3. GuardInv => GuardTypeOK
  BY DEF GuardInv, StoreSound, Sound, GuardTypeOK
<1> QED
  BY <1>1, <1>2, <1>3, PTL DEF GuardSpec

LEMMA OnlyCommitsChange ==
    ASSUME GuardInv, NEW o \in Openers, In(o, "transaction"), [GuardNext]_guardVars
    PROVE  row' = row \/ (row' = conn[o].sees /\ Passes(TRUE, conn[o].asked, row, row'))
<1>1. ASSUME NEW p \in Openers, ApplyMigration(p) \/ Resume(p) \/ Seal(p) PROVE FALSE
  BY <1>1 DEF ApplyMigration, Resume, Seal, Upgrade, Unlocked
<1>2. ASSUME NEW p \in Openers, Commit(p)
      PROVE  row' = row \/ (row' = conn[o].sees /\ Passes(TRUE, conn[o].asked, row, row'))
  <2>1. p = o /\ row' = conn[o].sees
    BY <1>2 DEF GuardInv, OneWriter, Commit
  <2> QED
    BY <2>1, InTransaction DEF Covered
<1>3. ASSUME NEW p \in Openers, Connect(p) \/ CheckMigration(p) \/ Install(p) \/ Begin(p)
                                 \/ Execute(p) \/ Rollback(p) \/ Lose(p) \/ Crash(p)
      PROVE  row' = row
  BY <1>3 DEF Connect, CheckMigration, Install, Begin, Execute, Rollback, Lose, Crash
<1>4. ASSUME NEW p \in Openers, NEW purpose, Authorize(p, purpose) \/ Clear(p, purpose)
      PROVE  row' = row
  BY <1>4 DEF Authorize, Clear
<1>5. CASE UNCHANGED guardVars
  BY <1>5 DEF guardVars
<1> QED
  BY <1>1, <1>2, <1>3, <1>4, <1>5 DEF GuardNext

(* No opening of a store of an earlier version, by however many processes,   *)
(* is refused by the guards an earlier one left, each row is rewritten by     *)
(* each migration once, and a change of a guarded table is one that its      *)
(* transaction named a purpose for.                                          *)
THEOREM GuardsAlwaysHold == GuardSpec => GuardsHold
<1>1. GuardInv => UpgradesPass
  BY DEF GuardInv, UpgradesPass, StoreSound, Sound, InStep, In
<1>2. GuardInv /\ [GuardNext]_guardVars =>
        [\A o \in Openers : In(o, "transaction") /\ row' # row =>
            Passes(TRUE, conn[o].asked, row, row')]_guardVars
  BY OnlyCommitsChange
<1> QED
  BY <1>1, <1>2, GuardInvariant, PTL DEF GuardsHold, ChangesNamed, GuardSpec
=============================================================================
