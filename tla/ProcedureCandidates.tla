-------------------------- MODULE ProcedureCandidates --------------------------
(***************************************************************************)
(* The candidates for experiences that are compiled from a session whose    *)
(* trajectory another process may be deriving at the time: corrections,     *)
(* successful procedures and failed approaches.  The identity of a          *)
(* candidate covers its evidence, but not all that is stored under it: a    *)
(* candidate that is compiled anew with the same identity and another       *)
(* content is a conflict, which ends the compilation of the project.        *)
(* (experience/candidatecompiler, localapp/experience_candidates.go,        *)
(* InsertExperienceCandidate.)  At most 32 pieces of evidence are kept in   *)
(* the code; no candidate has as many here.                                 *)
(***************************************************************************)
EXTENDS Trajectory

CONSTANTS Continuation,   \* maxProcedureContinuationTurns, and the reach of the context
          MaxRecords      \* maxCandidateSessionRecords

CandidatesAssumption == Continuation \in Nat \ {0} /\ MaxRecords \in Nat \ {0}

VARIABLES candidates,   \* experience_candidates of the project
          compiler,     \* what a compilation has read
          conflicted    \* some compilation ended with a conflict

candidateVars == <<candidates, compiler, conflicted>>

Unread == [step |-> "rest", turns |-> 0, edges |-> {}]

CandidatesInit == candidates = {} /\ compiler = Unread /\ conflicted = FALSE

-----------------------------------------------------------------------------
(* Successful procedures: ts are the turns read, es the edges, os the outcomes. *)

InTurns(ts, nodes) == \A x \in nodes : x[1] = "turn" => x[2] \in DOMAIN ts
Places(nodes) == {x[2] : x \in {y \in nodes : y[1] = "turn"}}
EditsAmong(ts, nodes) == {n \in Places(nodes) \cap Of(ts, "call") : ts[n].edits # {}}

VerifiedBy(ts, es, call) ==
    {e \in es : e.relation = "verifies" /\ e.from = Turn(call) /\ EditsAmong(ts, e.sources) # {}}

Record(ts, es, o) ==
    LET places == Places(o.sources)
        call == CHOOSE n \in places : ts[n].role = "call"
        sources == UNION {e.sources : e \in VerifiedBy(ts, es, call)}
    IN  [outcome |-> o, call |-> call, result |-> CHOOSE n \in places : ts[n].role = "result",
         edits |-> EditsAmong(ts, sources),
         files |-> UNION {ts[n].edits : n \in EditsAmong(ts, sources)},
         evidence |-> o.sources \cup sources]

AllRecords(ts, es, os, class) ==
    {r \in {Record(ts, es, o) : o \in {x \in os : x.kind = "passed" /\ InTurns(ts, x.sources)}} :
        class[ts[r.call].runs] # NoClass /\ r.edits # {}}

\* Mutant: of the records about the same files only the last is kept.
LastRecords(ts, es, os, class) ==
    {r \in AllRecords(ts, es, os, class) :
        \A q \in AllRecords(ts, es, os, class) : q.files = r.files => q.call <= r.call}
Records(ts, es, os, class) == AllRecords(ts, es, os, class)

(* A record continues the one before it when a user asked for more in between. *)
Bridges(ts, r, q) ==
    {n \in Of(ts, "user") : /\ r.result < n /\ n < q.call /\ ts[n].parent = NoCall
                            /\ ts[n].says \in {"correction", "again"}}
Continues(ts, rs, r, q) ==
    /\ r.call < q.call /\ q.call - r.call <= Continuation
    /\ \A other \in rs : other.call <= r.call \/ other.call >= q.call
    /\ r.files \cap q.files # {} /\ Bridges(ts, r, q) # {}
Bridge(ts, rs, q) ==
    UNION {{Turn(Min(Bridges(ts, r, q)))} : r \in {x \in rs : Continues(ts, rs, x, q)}}

(* Records of one edit, or one of which continues the other, are one episode. *)
Joined(ts, rs, r, q) ==
    r.edits \cap q.edits # {} \/ Continues(ts, rs, r, q) \/ Continues(ts, rs, q, r)
Whole(ts, rs) ==
    {g \in SUBSET rs \ {{}} : \A r \in g : \A q \in rs \ g : ~Joined(ts, rs, r, q)}
Episodes(ts, rs) == {g \in Whole(ts, rs) : \A h \in Whole(ts, rs) : h \subseteq g => h = g}

AnchorOf(g) == CHOOSE r \in g : \A q \in g : q.call <= r.call

(* The conversation around an episode. *)
Useful(ts, role) ==
    {n \in Of(ts, role) : ts[n].parent = NoCall /\ ts[n].says \notin {"nothing", "envelope"}}
Ends(set) == IF set = {} THEN {} ELSE {Min(set), Max(set)}
Last(set) == IF set = {} THEN {} ELSE {Max(set)}
Context(ts, nodes) ==
    LET first == Min(Places(nodes))   last == Max(Places(nodes))
        asked == {n \in Useful(ts, "user") : n < first /\ first - n <= Continuation}
        replies == {n \in Useful(ts, "user") : n > last /\ n - last <= Continuation}
        answers == {n \in Useful(ts, "assistant") : n > last /\ n - last <= Continuation}
        after == {n \in answers : n > Min(replies)}
        followed == IF replies = {} THEN Last(answers) ELSE {Min(replies)} \cup Ends(after)
    IN  {Turn(n) : n \in Last(asked) \cup followed}

(* newCandidate: "id" stands for the hash, the rest is what it does not cover. *)
Candidate(family, evidence, facts, verifier, at) ==
    [id |-> [family |-> family, evidence |-> evidence, facts |-> facts],
     verifier |-> verifier, at |-> at]

\* Mutant: the time is that of the last turn of the session.
ProcedureOfSession(ts, rs, g, class) ==
    LET sources == UNION {r.evidence \cup Bridge(ts, rs, r) : r \in g}
        anchor == AnchorOf(g)
    IN  Candidate("procedure", sources \cup Context(ts, sources), {r.outcome : r \in g},
                  <<ts[anchor.call].runs, class[ts[anchor.call].runs]>>, Len(ts))

Procedure(ts, rs, g, class) ==
    LET sources == UNION {r.evidence \cup Bridge(ts, rs, r) : r \in g}
        anchor == AnchorOf(g)
    IN  Candidate("procedure", sources \cup Context(ts, sources), {r.outcome : r \in g},
                  <<ts[anchor.call].runs, class[ts[anchor.call].runs]>>,
                  Max({r.result : r \in g}))

Procedures(ts, es, os, class) ==
    UNION {{Procedure(ts, rs, g, class) : g \in Episodes(ts, rs)} :
        rs \in {Records(ts, es, os, class)}}

-----------------------------------------------------------------------------
(* Corrections and failed approaches. *)

CorrectionCandidates(ts, es, os) ==
    {Candidate("correction", o.sources, {o}, "observation", o.at) :
        o \in {x \in os : /\ x.kind = "correction" /\ InTurns(ts, x.sources)
                          /\ \A relation \in {"responds_to", "corrects"} :
                                \E e \in es : e.relation = relation /\ e.sources = x.sources}}

(* The outcome of the failed check joins that of the repair, if it was one.    *)
FailedOutcome(os, e) ==
    {o \in os : o.kind = "failed" /\ e.to \in o.sources /\ o.sources \subseteq e.sources}
FailedApproaches(ts, es, os) ==
    UNION {{Candidate("failed approach", e.sources, {o} \cup FailedOutcome(os, e), "observation", o.at) :
            e \in {x \in es : x.relation = "repairs" /\ x.sources = o.sources}} :
        o \in {x \in os : x.kind = "repair" /\ InTurns(ts, x.sources)}}

Compile(ts, es, os, class) ==
    UNION {CorrectionCandidates(ts, es, os), Procedures(ts, es, os, class),
           FailedApproaches(ts, es, os)}

-----------------------------------------------------------------------------
(* A session of another length than its count is skipped; it reads as long     *)
(* when the two are read at once.                                              *)
CompileTurns ==
    /\ compiler.step = "rest" /\ turns # << >>
    /\ compiler' = [compiler EXCEPT !.step = "edges", !.turns = Len(turns)]
    /\ UNCHANGED <<candidates, conflicted>>

CompileEdges ==
    /\ compiler.step = "edges"
    /\ compiler' = IF Cardinality(edges) < MaxRecords
                   THEN [compiler EXCEPT !.step = "outcomes", !.edges = edges] ELSE Unread
    /\ UNCHANGED <<candidates, conflicted>>

Compiled == Compile(SubSeq(turns, 1, compiler.turns), compiler.edges, outcomes, InForce)
Disagree(found, known) == {c \in found : \E k \in known : k.id = c.id /\ k # c}

(* The outcomes are read; then each candidate is a transaction, up to the      *)
(* first that is in conflict.                                                  *)
InsertCandidates ==
    /\ compiler.step = "outcomes" /\ compiler' = Unread
    /\ IF Cardinality(outcomes) >= MaxRecords THEN UNCHANGED <<candidates, conflicted>>
       ELSE \E found \in {Compiled} :
            IF Disagree(found, candidates) = {}
            THEN candidates' = candidates \cup found /\ UNCHANGED conflicted
            ELSE /\ conflicted' = TRUE
                 /\ \E some \in SUBSET (found \ Disagree(found, candidates)) :
                        candidates' = candidates \cup some

CompileStep ==
    (CompileTurns \/ CompileEdges \/ InsertCandidates) /\ UNCHANGED trajectoryVars

LearningInit == TrajectoryInit /\ CandidatesInit
LearningNext == CompileStep \/ (TrajectoryNext /\ UNCHANGED candidateVars)

-----------------------------------------------------------------------------
(* Under one configuration what is compiled again is what was compiled before. *)
RecompilationAgrees == conflicted => config > 1

(* The outcomes of a procedure stay together: what a later compilation finds   *)
(* contains them, unless an answer came after that of a later check.           *)
LateAnswer == \E n \in Of(turns, "call") : Overtaken(n)
EpisodesGrow ==
    [][(InsertCandidates /\ config = 1 /\ Cardinality(outcomes) < MaxRecords /\ ~LateAnswer) =>
        \A c \in candidates : c.id.family = "procedure" =>
            \E k \in Compiled : k.id.family = "procedure" /\ c.id.facts \subseteq k.id.facts
      ]_<<trajectoryVars, candidateVars>>
=============================================================================
