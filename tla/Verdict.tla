-------------------------------- MODULE Verdict --------------------------------
(***************************************************************************)
(* What is said of an experience that was delivered to a session             *)
(* (internal/experience/evaluate/evaluate.go and                              *)
(* internal/localapp/experience_evaluation.go): whether it applied and whether  *)
(* it was followed.  The session, its turns, its events and the state of its    *)
(* trajectory are read one after the other, while turns are imported; the       *)
(* facts are drawn from the turns, and the verifier of the experience judges    *)
(* them.  Nothing in the source draws facts of opportunity or of the outcome    *)
(* of the task, so these two stay unknown and are left out.                     *)
(*                                                                          *)
(* A turn is known by its index.  A reference to evidence is a pair of a kind   *)
(* and a number, in the order of its encoding.                                 *)
(***************************************************************************)
EXTENDS Selection

CONSTANTS
    Experiences,     \* of the applications to the session
    Turns,           \* what each of its turns may be
    NoCall, NoClass, \* no call, no command
    Relative,        \* the paths that are relative and clean
    Harness, Model,  \* of the session
    ResultLimit,     \* MaxResultEvidence
    FactLimit,       \* MaxFacts
    Never,
    MaxEvents        \* a bound; the turns are as many as Turns has

VARIABLES
    turns,        \* transcript_turns of the session
    coverage,     \* of the session's transcript
    events,       \* canonical events of the session
    derived,      \* trajectory_derivation_state
    evaluation,   \* of the application that was evaluated
    reading       \* what the evaluation under way has read

verdictVars == <<turns, coverage, events, derived, evaluation, reading>>

Event(n) == <<1, n>>
Outcome(n) == <<2, n>>
Turn(n) == <<3, n>>
Delivery == <<0, 0>>

-----------------------------------------------------------------------------
(* pairToolResults: the result of a call, unless its id is not its own or more   *)
(* than one result has it.                                                     *)
Answers(ts, n) ==
    {m \in DOMAIN ts : /\ m > n /\ ts[m].role = "result" /\ ts[m].call = ts[n].call
                       /\ ts[m].parent = ts[n].parent \/ NoCall \in {ts[m].parent, ts[n].parent}}

Ambiguous(ts, n) ==
    \/ ts[n].call = NoCall
    \/ \E m \in DOMAIN ts \ {n} : ts[m].role = "call" /\ ts[m].call = ts[n].call
    \/ Cardinality(Answers(ts, n)) > 1

Answer(ts, n) == IF Ambiguous(ts, n) THEN {} ELSE Answers(ts, n)

(* exactResultState                                                           *)
ResultOf(ts, n) ==
    IF Answer(ts, n) = {} THEN "unknown" ELSE ts[CHOOSE m \in Answer(ts, n) : TRUE].exit

-----------------------------------------------------------------------------
(* evaluationFacts                                                            *)
Calls(ts) == {n \in DOMAIN ts : ts[n].role = "call"}

FromCall(ts, n) ==
    [order |-> n, ambiguous |-> Ambiguous(ts, n), evidence |-> {Turn(m) : m \in {n} \cup Answer(ts, n)}]
FromTurn(n) == [order |-> n, ambiguous |-> FALSE, evidence |-> {Turn(n)}]

Commands(ts) ==
    {[fact |-> FromCall(ts, n), command |-> ts[n].command, class |-> ts[n].class,
      result |-> ResultOf(ts, n)] : n \in {n \in Calls(ts) : ts[n].command # NoCall}}

Verifications(ts) == {c \in Commands(ts) : ts[c.fact.order].verifies}

Failures(ts) ==
    {c \in Commands(ts) :
        /\ c.class # NoClass
        /\ \E m \in Answer(ts, c.fact.order) : ts[m].error # NoClass}
Pattern(ts, failure) == ts[CHOOSE m \in Answer(ts, failure.fact.order) : TRUE].error

FileChanges(ts) ==
    UNION {{[fact |-> FromTurn(n), path |-> p] : p \in ts[n].edits} : n \in Calls(ts)}

Corrections(ts) ==
    {[fact |-> FromTurn(n), marker |-> ts[n].marker] :
        n \in {n \in DOMAIN ts : ts[n].role = "user" /\ ts[n].marker # NoClass}}

Conditions(ts, kind) ==
    CASE kind = "tool" -> {[fact |-> FromCall(ts, n), value |-> ts[n].tool] : n \in Calls(ts)}
      [] kind = "class" -> {[fact |-> c.fact, value |-> c.class] : c \in {c \in Commands(ts) : c.class # NoClass}}
      [] kind = "path" -> {[fact |-> c.fact, value |-> c.path] : c \in FileChanges(ts)}
      [] OTHER -> {}

FactCount(ts) ==
    Cardinality(Commands(ts)) + Cardinality(Verifications(ts)) + Cardinality(Failures(ts))
    + Cardinality(FileChanges(ts)) + Cardinality(Corrections(ts))
    + Cardinality(Conditions(ts, "tool")) + Cardinality(Conditions(ts, "class"))
    + Cardinality(Conditions(ts, "path"))

Cited(facts) == UNION {f.fact.evidence : f \in facts}

-----------------------------------------------------------------------------
(* evaluationCoverage: what is complete, and the first and the last record of    *)
(* each kind as its evidence.                                                  *)
EndsOf(kind(_), n) == IF n = 0 THEN {} ELSE {kind(1), kind(n)}

Complete(r) ==
    {need \in {"transcript", "canonical", "outcomes"} :
        CASE need = "transcript" -> r.coverage = "complete" /\ Len(r.turns) = r.count
          [] need = "canonical" -> r.current /\ r.loaded
          [] OTHER -> r.current /\ r.loaded}

CoverageEvidence(r, needs) ==
    UNION {CASE need = "transcript" -> EndsOf(Turn, Len(r.turns))
             [] need = "canonical" -> EndsOf(Event, r.events)
             [] OTHER -> EndsOf(Outcome, r.outcomes) : need \in needs \cap Complete(r)}

Anchors(r) ==
    EndsOf(Turn, Len(r.turns)) \cup EndsOf(Event, r.events) \cup EndsOf(Outcome, r.outcomes)

(* coverageAwareConditionKinds                                                *)
CompleteKinds(r) ==
    (IF "transcript" \in Complete(r) THEN {"tool", "class"} ELSE {})
    \cup (IF {"transcript", "canonical"} \subseteq Complete(r) THEN {"path"} ELSE {})

-----------------------------------------------------------------------------
State(state, evidence) == [state |-> state, evidence |-> evidence]
Unknown == State("unknown", {})

(* evaluateApplicability: what certainly does not hold decides; what is not       *)
(* known, an exclusion included, leaves it open.                               *)
Scoped(values, value) ==
    IF values = {} \/ value \in values THEN "holds" ELSE IF value = NoClass THEN "open" ELSE "fails"

ConditionState(r, c) ==
    LET facts == {f \in Conditions(r.turns, c.kind) : f.value \in c.values}
    IN  IF \E f \in facts : f.fact.ambiguous THEN Unknown
        ELSE IF facts # {} THEN State("holds", Cited(facts))
        ELSE IF c.kind \in CompleteKinds(r) THEN State("fails", {}) ELSE Unknown

Applicability(x, r) ==
    LET paths == {c.path : c \in FileChanges(r.turns)}
        scopes == {Scoped(x.harnesses, Harness), Scoped(x.models, Model),
                   IF x.paths = {} \/ x.paths \cap paths # {} THEN "holds"
                   ELSE IF "path" \in CompleteKinds(r) THEN "fails" ELSE "open"}
        of == [n \in DOMAIN x.conditions |-> ConditionState(r, x.conditions[n])]
        seen == {n \in DOMAIN of : \A m \in 1 .. n : of[m].state # "fails"}
        context == IF Anchors(r) = {} THEN {Delivery} ELSE Anchors(r)
        matched == UNION {of[n].evidence : n \in seen}
    IN  IF x.expired \/ "fails" \in scopes THEN State("not_applicable", context)
        ELSE IF seen # DOMAIN of THEN State("not_applicable", matched \cup context)
        ELSE IF "open" \in scopes \/ x.excludes \/ \E n \in seen : of[n].state = "unknown"
        THEN State("unknown", matched)
        ELSE State("applicable", matched \cup context)

-----------------------------------------------------------------------------
(* The verifiers.  A fact that is seen decides; that none is seen decides only   *)
(* if the verifier asks for the coverage that shows it, and with its evidence.  *)
Absence(x, r, needs, state, evidence) ==
    LET shown == CoverageEvidence(r, needs \cap x.needs)
    IN  IF shown = {} THEN Unknown ELSE State(state, evidence \cup shown)

Seen(x, r, facts, seen, needs, unseen) ==
    IF \E f \in facts : f.fact.ambiguous THEN Unknown
    ELSE IF facts # {} THEN State(seen, Cited(facts))
    ELSE Absence(x, r, needs, unseen, {})

(* One that succeeded is enough; all must be known to have failed.              *)
Outcomes(x, facts, evidence) ==
    IF ~x.success \/ \E f \in facts : f.result = "succeeded" THEN State("satisfied", evidence)
    ELSE IF \E f \in facts : f.result = "unknown" THEN Unknown
    ELSE State("violated", evidence)

(* evaluateCommand                                                            *)
CommandVerdict(x, r) ==
    LET matches == {f \in Commands(r.turns) : f.command = x.command}
    IN  IF ~x.normalized \/ \E f \in matches : x.class # NoClass /\ f.class # x.class THEN Unknown
        ELSE IF matches = {} \/ \E f \in matches : f.fact.ambiguous
        THEN Seen(x, r, matches, "satisfied", {"transcript"}, "violated")
        ELSE Outcomes(x, matches, Cited(matches))

(* evaluateFile, evaluatePathPattern                                          *)
FileVerdict(x, r, seen, unseen) ==
    Seen(x, r, {f \in FileChanges(r.turns) : f.path \in x.files},
         seen, {"workspace", "canonical"}, unseen)

LastEdit(ts) ==
    LET orders == {f.fact.order : f \in FileChanges(ts)}
    IN  CHOOSE n \in orders : \A m \in orders : m <= n

(* evaluateVerificationAfterLastEdit                                          *)
EditVerdict(x, r) ==
    LET edit == LastEdit(r.turns)
        checks == {f \in Verifications(r.turns) :
                    f.fact.order > edit /\ (x.classes = {} \/ f.class \in x.classes)}
    IN  IF FileChanges(r.turns) = {} \/ \E f \in checks : f.fact.ambiguous THEN Unknown
        ELSE IF checks = {} THEN Absence(x, r, {"transcript"}, "violated", {Turn(edit)})
        ELSE Outcomes(x, checks, {Turn(edit)} \cup Cited(checks))

(* evaluateNoRepeatFailure                                                    *)
RepeatVerdict(x, r) ==
    LET failures == {f \in Failures(r.turns) : f.class = x.class /\ Pattern(r.turns, f) = x.error}
        shown == CoverageEvidence(r, {"transcript"} \cap x.needs)
    IN  IF r.turns = <<>> THEN Unknown
        ELSE IF \E f, g \in failures : /\ f.fact.order < g.fact.order
                                       /\ g.fact.order - f.fact.order <= x.window
        THEN State("violated", Cited(failures))
        ELSE IF shown = {} THEN State("unknown", Cited(failures))
        ELSE State("satisfied", Cited(failures) \cup shown)

(* evaluateUserCorrectionAbsent                                               *)
CorrectionVerdict(x, r) ==
    Seen(x, r, {f \in Corrections(r.turns) : x.markers = {} \/ f.marker \in x.markers},
         "violated", {"transcript"}, "satisfied")

(* Evaluate, evaluateVerifier: only with all the coverage the verifier asks for. *)
VerifierState(x, r) ==
    LET verdict ==
            CASE x.kind = "command" -> CommandVerdict(x, r)
              [] x.kind = "modified" -> FileVerdict(x, r, "satisfied", "violated")
              [] x.kind = "not_modified" -> FileVerdict(x, r, "violated", "satisfied")
              [] x.kind = "after_edit" -> EditVerdict(x, r)
              [] x.kind = "no_repeat" -> RepeatVerdict(x, r)
              [] x.kind = "no_correction" -> CorrectionVerdict(x, r)
              [] OTHER -> Unknown
    IN  IF ~(x.needs \subseteq Complete(r)) THEN State("unknown", CoverageEvidence(r, x.needs))
        ELSE IF verdict.state = "unknown"
        THEN State("unknown", verdict.evidence \cup CoverageEvidence(r, x.needs))
        ELSE verdict

-----------------------------------------------------------------------------
Before(a, b) == a[1] < b[1] \/ (a[1] = b[1] /\ a[2] < b[2])

\* Mutant: the first references, whatever they are for.
FirstEvidence(applicability, verifier) ==
    LET sorted(refs) == Sorted(refs, Before)
    IN  ToSet(First(sorted(applicability.evidence) \o sorted(verifier.evidence), ResultLimit))

(* finish, boundedEvidence: one reference of each component that is decided, and *)
(* then the first in the order of component and reference.                     *)
BoundedEvidence(applicability, verifier) ==
    LET anchor(part) == IF part.state = "unknown" THEN <<>> ELSE First(Sorted(part.evidence, Before), 1)
        all(part, n) == [m \in 1 .. Cardinality(part.evidence) |-> <<n, Sorted(part.evidence, Before)[m]>>]
        tagged(s, n) == [m \in DOMAIN s |-> <<n, s[m]>>]
        every == tagged(anchor(applicability), 1) \o tagged(anchor(verifier), 2)
                   \o all(applicability, 1) \o all(verifier, 2)
        kept == First(FirstPer(every, LAMBDA e : e), ResultLimit)
    IN  {kept[n][2] : n \in DOMAIN kept}

(* validateFacts: an edit of a path that is not relative makes all facts invalid. *)
ValidFacts(ts) == \A f \in FileChanges(ts) : f.path \in Relative

(* What defers an evaluation: invalid facts or too many of them, no evidence at   *)
(* all, a verdict without coverage, which is not a valid evaluation.            *)
Deferred(x, r, verifier) ==
    \/ ~ValidFacts(r.turns)
    \/ FactCount(r.turns) > FactLimit
    \/ Anchors(r) = {}
    \/ verifier.state # "unknown" /\ x.needs = {}

(* persistedExperienceEvaluation; "from" records the turns it is drawn from.     *)
Judged(x, r, verifier) ==
    LET applicability == Applicability(x, r)
        bounded == BoundedEvidence(applicability, verifier)
    IN  [experience |-> x, verifier |-> verifier.state, applicability |-> applicability.state,
         coverage |-> x.needs \cap Complete(r),
         evidence |-> IF bounded = {} THEN Anchors(r) ELSE bounded,
         from |-> Len(r.turns)]

-----------------------------------------------------------------------------
VerdictInit ==
    /\ turns = <<>> /\ coverage = "live" /\ events = 0
    /\ derived = Never /\ evaluation = Never /\ reading = Never

(* An import: one more turn, or the end of the session, or both.               *)
Import ==
    /\ \/ /\ Len(turns) < Len(Turns) /\ \E t \in Turns[Len(turns) + 1] : turns' = Append(turns, t)
          /\ coverage' \in {"live", "complete"}
       \/ /\ turns # <<>> /\ coverage = "live" /\ coverage' = "complete" /\ UNCHANGED turns
    /\ UNCHANGED <<events, derived, evaluation, reading>>

EventArrives ==
    /\ events < MaxEvents /\ events' = events + 1
    /\ UNCHANGED <<turns, coverage, derived, evaluation, reading>>

(* A derivation; only a full one counts, and only while its inputs stay.         *)
Derive ==
    /\ coverage = "complete"
    /\ \E outcomes \in 0 .. 1 :
          derived' = [turns |-> Len(turns), coverage |-> coverage, events |-> events,
                      outcomes |-> IF derived = Never THEN outcomes ELSE derived.outcomes]
    /\ UNCHANGED <<turns, coverage, events, evaluation, reading>>

(* buildInput: GetTranscriptSession, ...                                       *)
ReadSession ==
    /\ reading = Never
    /\ reading' = [at |-> "session", coverage |-> coverage, count |-> Len(turns)]
    /\ UNCHANGED <<turns, coverage, events, derived, evaluation>>

(* ... QueryTranscriptTurns, ...                                               *)
ReadTurns ==
    /\ reading # Never /\ reading.at = "session"
    /\ reading' = [at |-> "turns", coverage |-> reading.coverage, count |-> reading.count,
                   turns |-> turns]
    /\ UNCHANGED <<turns, coverage, events, derived, evaluation>>

(* ... and the outcomes, the events, which may not all be loaded, and whether the  *)
(* derivation is that of the inputs as they are now.  No fact is drawn from        *)
(* outcomes and events, so these are read at once.  Then the evaluation is made    *)
(* and stored.                                                                 *)
Conclude ==
    /\ reading # Never /\ reading.at = "turns"
    /\ LET current == /\ derived # Never
                      /\ derived.turns = Len(turns) /\ derived.coverage = coverage
                      /\ derived.events = events
       IN  \E x \in Experiences, loaded \in BOOLEAN :
           \E r \in {[coverage |-> reading.coverage, count |-> reading.count,
                      turns |-> reading.turns, events |-> events,
                      outcomes |-> IF derived = Never THEN 0 ELSE derived.outcomes,
                      current |-> current, loaded |-> loaded]} :
           \E verifier \in {VerifierState(x, r)} :
              evaluation' = IF Deferred(x, r, verifier) THEN evaluation ELSE Judged(x, r, verifier)
    /\ reading' = Never
    /\ UNCHANGED <<turns, coverage, events, derived>>

(* Up to the first evaluation that is stored: a later one does not depend on it. *)
VerdictNext ==
    /\ evaluation = Never
    /\ \/ Import \/ EventArrives \/ Derive
       \/ ReadSession \/ ReadTurns \/ Conclude

-----------------------------------------------------------------------------
(* What a verifier asks, said of the turns without the facts: "done" is what it   *)
(* looks for, and "against" what shows the opposite.                            *)
Same(a, b) == a.call = b.call /\ (a.parent = b.parent \/ NoCall \in {a.parent, b.parent})
Ran(ts, n, m) == \* call n was answered, once, by m
    /\ ts[n].role = "call" /\ ts[n].command # NoCall /\ ts[n].call # NoCall
    /\ {k \in DOMAIN ts : ts[k].role = "call" /\ ts[k].call = ts[n].call} = {n}
    /\ {k \in n + 1 .. Len(ts) : ts[k].role = "result" /\ Same(ts[n], ts[k])} = {m}

Shows(x, ts) ==
    CASE x.kind = "command" ->
            \E n \in DOMAIN ts : /\ ts[n].role = "call" /\ ts[n].command = x.command
                                 /\ x.success => \E m \in DOMAIN ts : Ran(ts, n, m) /\ ts[m].exit = "succeeded"
      [] x.kind \in {"modified", "not_modified"} ->
            \E n \in DOMAIN ts : ts[n].role = "call" /\ ts[n].edits \cap x.files # {}
      [] x.kind = "after_edit" ->
            \E n \in DOMAIN ts :
                /\ ts[n].role = "call" /\ ts[n].verifies
                /\ x.classes = {} \/ ts[n].class \in x.classes
                /\ x.success => \E m \in DOMAIN ts : Ran(ts, n, m) /\ ts[m].exit = "succeeded"
                /\ \A m \in n .. Len(ts) : ts[m].role = "call" => ts[m].edits = {}
      [] x.kind = "no_repeat" ->
            \E n, m, k, l \in DOMAIN ts :
                /\ Ran(ts, n, m) /\ Ran(ts, k, l) /\ n < k /\ k - n <= x.window
                /\ {ts[n].class, ts[k].class} = {x.class} /\ {ts[m].error, ts[l].error} = {x.error}
      [] x.kind = "no_correction" ->
            \E n \in DOMAIN ts : /\ ts[n].role = "user" /\ ts[n].marker # NoClass
                                 /\ x.markers = {} \/ ts[n].marker \in x.markers
      [] OTHER -> FALSE

(* A verdict is true of the turns it was drawn from, however the reads of the     *)
(* evaluation and the imports interleave: it says that what the verifier looks    *)
(* for was seen only if it is there, and that it was not only if it is not        *)
(* there; it rests on no less than the coverage that the verifier asks for; and    *)
(* it keeps evidence of what was seen, also when the evidence is cut               *)
(* (Evaluate, boundedEvidence).                                                *)
VerdictsHold ==
    evaluation # Never =>
        LET x == evaluation.experience
            drawn == SubSeq(turns, 1, evaluation.from)
            good == x.kind \in {"command", "modified", "after_edit"}
        IN  /\ evaluation.verifier = "satisfied" => (Shows(x, drawn) = good)
            /\ evaluation.verifier = "violated" => (Shows(x, drawn) # good)
            /\ evaluation.verifier # "unknown" =>
                  x.needs # {} /\ evaluation.coverage = x.needs
            /\ evaluation.verifier # "unknown" /\ Shows(x, drawn) =>
                  \E e \in evaluation.evidence : e[1] = 3 /\ e[2] <= evaluation.from
                        /\ (x.kind \in {"modified", "not_modified"} =>
                                drawn[e[2]].role = "call" /\ drawn[e[2]].edits \cap x.files # {})
                        /\ (x.kind = "no_correction" => drawn[e[2]].role = "user")
            /\ evaluation.evidence # {}
=============================================================================
