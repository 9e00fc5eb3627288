------------------------------ MODULE Detectors ------------------------------
(***************************************************************************)
(* The issues that Local finds in the retained transcripts of a project       *)
(* (detection/transcriptissues): eight detectors over the turns of its        *)
(* sessions, per repository in which the sessions worked, their evidence, and *)
(* what they cost.  The transcript grows under them: an import appends turns  *)
(* to a session, and the next analysis starts over.                           *)
(*                                                                         *)
(* A turn is a record of what the detectors tell apart.  The wording of an    *)
(* issue, its trend, the choice among more than five excerpts and the         *)
(* suggested fix are left out; every turn has a time.                         *)
(***************************************************************************)
EXTENDS Naturals, Sequences, FiniteSetsExt

CONSTANTS
    Sessions,       \* the sessions, numbered in the order in which they started
    Script,         \* Script[s]: a sequence of sets of batches of turns of session s
    ProjectPath,    \* the path of the project, when a turn does not say where it ran
    RootOf,         \* the repository, a number, of a working directory
    Transient,      \* repositories below temporary and tool directories
    LocalPath,      \* whether the identity of the project is a path
    ClassOf,        \* the class of a command; "other" verifies nothing
    NoPath, NoCommand, NoTool, NoCall, NoError, NoMarker, NoUSD,
    RetryAttempts,  \* 3
    RetrySpan,      \* 30
    ResultReach,    \* 8
    CallReach,      \* 3
    MinSessions,    \* 2
    MinApprovals,   \* 5
    MinStarts,      \* 5
    StartPercent,   \* coldStartSharePercent
    MinEdits,       \* 4
    MinExcerpts,    \* 2
    MaxGap          \* maxActiveGap

VARIABLES
    transcript,     \* transcript[s]: the turns of session s, by index
    imported,       \* imported[s]: batches of the script that were imported
    report          \* the last analysis

detectorVars == <<transcript, imported, report>>

Positions(turns) == 1 .. Len(turns)
Least(S) == CHOOSE n \in S : \A m \in S : n <= m
Greatest(S) == CHOOSE n \in S : \A m \in S : n >= m

-----------------------------------------------------------------------------
(* What a turn says.                                                         *)

Verifies(turn) == turn.command # NoCommand /\ ClassOf[turn.command] # "other"
EditsOf(turn) == IF turn.role = "call" THEN turn.edits ELSE {}
Works(turn) == turn.command # NoCommand \/ EditsOf(turn) # {}
Failed(turn) == turn.outcome = "failed" \/ turn.output = "failure"

\* An explicit status decides, and only without one the text of the result.
Outcome(turn) ==
    CASE turn.outcome # "unknown" -> turn.outcome
      [] turn.outcome = "unknown" /\ turn.output # "none" ->
            IF turn.output = "failure" THEN "failed" ELSE "succeeded"
      [] OTHER -> "unknown"

\* The result of the call at i: by the ids where both have one, otherwise by the
\* tool, within a few turns, and not past the next call when the call has no id.
Answers(call, turn) ==
    /\ turn.role = "result"
    /\ IF call.call # NoCall /\ turn.call # NoCall
       THEN turn.call = call.call
       ELSE /\ NoTool \in {call.tool, turn.tool} \/ call.tool = turn.tool
            /\ turn.call = NoCall

MatchingToolResults(turns, i) ==
    {j \in (i + 1) .. (i + ResultReach) \cap Positions(turns) :
        /\ Answers(turns[i], turns[j])
        /\ turns[i].call = NoCall => \A k \in (i + 1) .. j : turns[k].role # "call"}

FailedCommandAttempts(turns) ==
    {[call |-> i, result |-> Least(MatchingToolResults(turns, i)), command |-> turns[i].command,
      error |-> turns[Least(MatchingToolResults(turns, i))].error] :
        i \in {c \in Positions(turns) :
                 /\ turns[c].role = "call" /\ turns[c].command # NoCommand
                 /\ MatchingToolResults(turns, c) # {}
                 /\ Failed(turns[Least(MatchingToolResults(turns, c))])}}

-----------------------------------------------------------------------------
(* The repository a session worked in.                                       *)

Roots(turns) ==
    {RootOf[turns[i].cwd] : i \in {k \in Positions(turns) : turns[k].cwd # NoPath}} \ Transient

Visits(turns, root) ==
    Cardinality({i \in Positions(turns) : turns[i].cwd # NoPath /\ RootOf[turns[i].cwd] = root})

\* The one most turns ran in; the project's own only when there is no other.
SessionScopePath(turns) ==
    LET roots == IF Cardinality(Roots(turns)) > 1 THEN Roots(turns) \ {ProjectPath} ELSE Roots(turns)
        busiest == {r \in roots : \A q \in roots : Visits(turns, q) <= Visits(turns, r)} IN
    IF ~LocalPath \/ roots = {} THEN ProjectPath ELSE Least(busiest)

ScopedProjects(t) ==
    {{s \in Sessions : SessionScopePath(t[s]) = scope} : scope \in {SessionScopePath(t[s]) : s \in Sessions}}

-----------------------------------------------------------------------------
(* What turns cost: each turn once, and the time between two of them when it  *)
(* is not a pause.                                                           *)

Window(s, from, to) == {<<s, i>> : i \in from .. to}

ActiveMinutes(t, places) ==
    LET gaps == {p \in places : <<p[1], p[2] - 1>> \in places}
        Gap(p) == t[p[1]][p[2]].at - t[p[1]][p[2] - 1].at IN
    MapThenSumSet(Gap, {p \in gaps : t[p[1]][p[2]].at > t[p[1]][p[2] - 1].at /\ Gap(p) <= MaxGap})

AttributedCost(t, places) ==
    LET Tokens(p) == t[p[1]][p[2]].tokens
        Dollars(p) == t[p[1]][p[2]].usd
        priced == {p \in places : Dollars(p) # NoUSD}
        lower == \E p \in places \ priced : Tokens(p) > 0 IN
    [tokens |-> MapThenSumSet(Tokens, places),
     usd |-> IF priced = {} /\ lower THEN NoUSD ELSE MapThenSumSet(Dollars, priced),
     lower |-> lower, minutes |-> ActiveMinutes(t, places)]

\* The turn whose tokens pay for a turn without: the nearest one between two of
\* the user's, the earlier of two.
AssociatedBillable(turns, i) ==
    LET Ends(k) == turns[k].role \in {"user", "compaction"}
        paid == {k \in Positions(turns) :
                    /\ turns[k].tokens > 0
                    /\ \A m \in (k .. (i - 1)) \cup ((i + 1) .. k) : ~Ends(m)}
        Away(k) == IF k < i THEN i - k ELSE k - i
        near == {k \in paid : \A m \in paid : Away(k) <= Away(m)} IN
    CASE turns[i].tokens > 0 -> i
      [] turns[i].tokens = 0 /\ near # {} -> Least(near)
      [] OTHER -> i

-----------------------------------------------------------------------------
(* The detectors.  An observation names the session, the turns it is paid by  *)
(* and the turns it quotes.                                                  *)

Observation(detector, fingerprint, s, places, quoted) ==
    [detector |-> detector, fingerprint |-> fingerprint, session |-> s, places |-> places,
     quoted |-> quoted]

\* The most failed attempts of one command that lie close together, the first of
\* several such groups, named after the error of its first attempt.
RetryLoops(t, s) ==
    LET Attempts(command) == {a \in FailedCommandAttempts(t[s]) : a.command = command}
        Close(command, last) ==
            {a \in Attempts(command) : a.result <= last.result /\ last.result - a.result <= RetrySpan}
        Best(command) ==
            LET most == {a \in Attempts(command) : \A b \in Attempts(command) :
                            Cardinality(Close(command, b)) <= Cardinality(Close(command, a))} IN
            Close(command, CHOOSE a \in most : \A b \in most : a.result <= b.result)
        First(loop) == CHOOSE a \in loop : \A b \in loop : a.result <= b.result
        Last(loop) == CHOOSE a \in loop : \A b \in loop : a.result >= b.result IN
    {Observation("retry_loop", <<ClassOf[command], First(Best(command)).error>>, s,
                 Window(s, First(Best(command)).result, Last(Best(command)).result),
                 {<<s, a.result>> : a \in Best(command)}) :
        command \in {c \in {a.command : a \in FailedCommandAttempts(t[s])} :
                        Cardinality(Best(c)) >= RetryAttempts}}

RecurringErrors(t, sessions) ==
    LET With(s, error) == {a \in FailedCommandAttempts(t[s]) : a.error = error}
        Struck(error) == {s \in sessions : With(s, error) # {}}
        errors == UNION {{a.error : a \in FailedCommandAttempts(t[s])} : s \in sessions} \ {NoError} IN
    {Observation("recurring_error", o[2], o[1],
                 UNION {Window(o[1], a.call, a.result) : a \in With(o[1], o[2])},
                 {<<o[1], a.result>> : a \in With(o[1], o[2])}) :
        o \in {p \in sessions \X errors :
                 With(p[1], p[2]) # {} /\ Cardinality(Struck(p[2])) >= MinSessions}}

\* The call a user answers: the nearest within reach, not past another user turn.
PriorToolCalls(turns, i) ==
    {j \in Positions(turns) :
        /\ j < i /\ i - j <= CallReach
        /\ turns[j].role = "call"
        /\ \A k \in (j + 1) .. (i - 1) : turns[k].role \notin {"call", "user"}}

PermissionPattern(turn) ==
    <<turn.tool, IF turn.command # NoCommand THEN turn.command ELSE turn.hash>>

Replies(t, sessions, answer) ==
    {[session |-> s, call |-> c, user |-> i, pattern |-> PermissionPattern(t[s][c])] :
        <<s, i, c>> \in {r \in UNION {{s} \X Positions(t[s]) \X Positions(t[s]) : s \in sessions} :
                    /\ t[r[1]][r[2]].role = "user" /\ t[r[1]][r[2]].answer = answer
                    /\ r[3] \in PriorToolCalls(t[r[1]], r[2])
                    /\ t[r[1]][r[3]].tool # NoTool}}

PermissionChurn(t, sessions) ==
    LET approvals == Replies(t, sessions, "approval")
        denied == {d.pattern : d \in Replies(t, sessions, "denial")} IN
    {Observation("permission_churn", a.pattern, a.session, Window(a.session, a.call, a.user),
                 {<<a.session, a.call>>, <<a.session, a.user>>}) :
        a \in {b \in approvals :
                 /\ b.pattern \notin denied
                 /\ Cardinality({c \in approvals : c.pattern = b.pattern}) >= MinApprovals}}

\* Many edits of a file in a session, or one that was undone by the next but one.
\* Mutant: only the edits since the user last spoke are counted.
EditsSinceAsked(turns, file) ==
    {i \in Positions(turns) : file \in EditsOf(turns[i])
                              /\ \A k \in i .. Len(turns) : turns[k].role # "user"}

EditsOfFile(turns, file) == {i \in Positions(turns) : file \in EditsOf(turns[i])}
EditHashCycle(turns, edits) ==
    \E a, b, c \in edits :
        /\ a < b /\ b < c
        /\ {e \in edits : a < e /\ e < c} = {b}
        /\ turns[a].hash = turns[c].hash /\ turns[a].hash # turns[b].hash

FileThrash(t, s) ==
    LET Edits(file) == EditsOfFile(t[s], file) IN
    {Observation("file_thrash", file, s,
                 {<<s, AssociatedBillable(t[s], i)>> : i \in Edits(file)},
                 {<<s, i>> : i \in Edits(file)}) :
        file \in {f \in UNION {EditsOf(t[s][i]) : i \in Positions(t[s])} :
                    Cardinality(Edits(f)) >= MinEdits \/ EditHashCycle(t[s], Edits(f))}}

\* The assistant's last word, and what it said before a compaction.
CompletionClaims(turns) ==
    {i \in Positions(turns) :
        /\ turns[i].role = "assistant" /\ turns[i].claims
        /\ \/ \A k \in (i + 1) .. Len(turns) : turns[k].role # "assistant"
           \/ i < Len(turns) /\ turns[i + 1].role = "compaction"}

TaskPhaseStart(turns, end) ==
    LET asked == {i \in 1 .. (end - 1) : turns[i].role = "user" /\ turns[i].answer # "approval"} IN
    IF asked = {} THEN 1 ELSE Greatest(asked) + 1

\* The last edit of the phase of a claim, unless something was verified after it.
UnverifiedEdit(turns, claim) ==
    LET edits == {i \in TaskPhaseStart(turns, claim) .. (claim - 1) : EditsOf(turns[i]) # {}} IN
    {i \in edits : /\ \A k \in edits : k <= i
                   /\ \A k \in (i + 1) .. (claim - 1) : ~Verifies(turns[k])}

\* A session that opens with a complaint, and the turns before its first work.
OpeningPhase(turns) ==
    {i \in Positions(turns) : \A k \in 1 .. i : ~Works(turns[k])}
OpeningComplaint(turns) ==
    LET users == {i \in OpeningPhase(turns) : turns[i].role = "user"} IN
    {i \in users : (\A k \in users : i <= k) /\ turns[i].marker # NoMarker}
FirstAnswer(turns, complaint) ==
    LET said == {i \in OpeningPhase(turns) : i > complaint /\ turns[i].role = "assistant"} IN
    {i \in said : \A k \in said : i <= k}

DoneWithoutVerification(t, sessions) ==
    LET Detected(s) ==
            {c \in CompletionClaims(t[s]) : UnverifiedEdit(t[s], c) # {}}
        complaints ==
            UNION {UNION {{<<s, i>>} \cup ({s} \X FirstAnswer(t[s], i)) : i \in OpeningComplaint(t[s])} :
                    s \in {r \in sessions : \E e \in sessions : e < r /\ Detected(e) # {}}} IN
    {Observation("done_without_verification", "claim", o[1],
                 Window(o[1], Least(UnverifiedEdit(t[o[1]], o[2])), o[2]),
                 {<<o[1], Least(UnverifiedEdit(t[o[1]], o[2]))>>, o} \cup complaints
                 \cup {<<o[1], i>> : i \in {k \in {o[2] + 1} \cap Positions(t[o[1]]) :
                                            t[o[1]][k].role = "compaction"}}) :
        o \in UNION {{s} \X Detected(s) : s \in sessions}}

\* Sessions whose turns before their first command or edit take too much of all.
OrientationEnd(turns) == Cardinality(OpeningPhase(turns))
OverShare(t, sessions, starts) ==
    LET cold == UNION {Window(s, 1, OrientationEnd(t[s])) : s \in starts}
        all == UNION {Window(s, 1, Len(t[s])) : s \in sessions}
        usd == AttributedCost(t, all).usd
        Dollars(places) == IF AttributedCost(t, places).usd = NoUSD THEN 0 ELSE AttributedCost(t, places).usd
        Share(part, whole) == part * 100 > whole * StartPercent IN
    CASE Dollars(all) > 0 -> Share(Dollars(cold), Dollars(all))
      [] Dollars(all) = 0 /\ AttributedCost(t, all).tokens > 0 ->
            Share(AttributedCost(t, cold).tokens, AttributedCost(t, all).tokens)
      [] OTHER -> Share(Cardinality(cold), Cardinality(all))

ColdStartCost(t, sessions) ==
    LET starts == {s \in sessions : OrientationEnd(t[s]) > 0} IN
    {Observation("cold_start", "project", s, Window(s, 1, OrientationEnd(t[s])),
                 Window(s, 1, 1) \cup Window(s, OrientationEnd(t[s]), OrientationEnd(t[s]))
                 \cup ({<<s, OrientationEnd(t[s]) + 1>>} \cap Window(s, 1, Len(t[s])))) :
        s \in {r \in starts : Cardinality(starts) >= MinStarts /\ OverShare(t, sessions, starts)}}

\* A check that is known to have succeeded, by itself or by the first result before
\* the user speaks that carries its id, or its tool when it has no id.
VerificationSucceeded(turns, i) ==
    LET results == {j \in Positions(turns) :
                      /\ j > i /\ turns[j].role = "result"
                      /\ \A k \in (i + 1) .. j : turns[k].role # "user"
                      /\ IF turns[i].call # NoCall THEN turns[j].call = turns[i].call
                         ELSE NoTool \in {turns[i].tool, turns[j].tool} \/ turns[i].tool = turns[j].tool} IN
    IF Outcome(turns[i]) # "unknown" THEN Outcome(turns[i]) = "succeeded"
    ELSE /\ turns[i].role = "call" /\ results # {}
         /\ Outcome(turns[Least(results)]) = "succeeded"

Verification(turns, from) == {i \in from .. Len(turns) : Verifies(turns[i])}
UnfinishedCompactions(turns) ==
    {i \in Positions(turns) :
        /\ turns[i].role = "compaction"
        /\ \A k \in Verification(turns, i + 1) : ~VerificationSucceeded(turns, k)}

CompactionBeforeCompletion(t, s) ==
    LET compactions == UnfinishedCompactions(t[s])
        last == Len(t[s])
        Checked(i) == {k \in Verification(t[s], i + 1) : \A m \in Verification(t[s], i + 1) : k <= m} IN
    {Observation("compaction", "unverified", s,
                 IF i = Greatest(compactions) THEN Window(s, i, last) ELSE {},
                 Window(s, i - 1, i) \cup {<<s, last>>} \cup ({s} \X Checked(i))) : i \in compactions}

\* A marked correction of what the assistant just said.
RepeatedCorrections(t, s) ==
    {Observation("repeated_correction", t[s][i].words, s, Window(s, i - 1, i), Window(s, i - 1, i + 1)) :
        i \in {k \in Positions(t[s]) \ {1} :
                 /\ t[s][k].role = "user" /\ t[s][k].marker # NoMarker
                 /\ t[s][k - 1].role = "assistant"}}

CorrectionCandidates(t, s) ==
    {<<s, i>> : i \in {k \in Positions(t[s]) :
        t[s][k].role = "user" /\ t[s][k].quotable /\ (t[s][k].short \/ t[s][k].marker # NoMarker)}}

-----------------------------------------------------------------------------
(* An analysis: the detectors in each scope, their observations by detector   *)
(* and fingerprint, and nothing that fewer than two quoted turns show.        *)

Observations(t, sessions) ==
    UNION {RetryLoops(t, s) \cup FileThrash(t, s) \cup CompactionBeforeCompletion(t, s)
           \cup RepeatedCorrections(t, s) : s \in sessions}
    \cup RecurringErrors(t, sessions) \cup DoneWithoutVerification(t, sessions)
    \cup PermissionChurn(t, sessions) \cup ColdStartCost(t, sessions)

Quotable(t, places) ==
    {p \in places : p[2] \in Positions(t[p[1]]) /\ t[p[1]][p[2]].quotable}

AggregateIssues(t, scope, observations) ==
    LET Group(o) == {p \in observations : p.detector = o.detector /\ p.fingerprint = o.fingerprint}
        Places(o) == UNION {p.places : p \in Group(o)}
        Quoted(o) == Quotable(t, UNION {p.quoted : p \in Group(o)}) IN
    {[scope |-> scope, detector |-> o.detector, fingerprint |-> o.fingerprint,
      sessions |-> {p.session : p \in Group(o)}, quoted |-> Quoted(o),
      cost |-> AttributedCost(t, Places(o))] :
        o \in {p \in observations : Cardinality(Quoted(p)) >= MinExcerpts}}

AnalyzeProject(t) ==
    LET Scope(sessions) == SessionScopePath(t[Least(sessions)])
        found == [sessions \in ScopedProjects(t) |-> Observations(t, sessions)] IN
    [issues |-> UNION {AggregateIssues(t, Scope(g), found[g]) : g \in DOMAIN found},
     candidates |-> UNION {CorrectionCandidates(t, s) : s \in Sessions},
     cost |-> AttributedCost(t, UNION {UNION {o.places : o \in found[g]} : g \in DOMAIN found})]

-----------------------------------------------------------------------------
DetectorsInit ==
    /\ transcript = [s \in Sessions |-> <<>>]
    /\ imported = [s \in Sessions |-> 0]
    /\ report = AnalyzeProject(transcript)

\* An import appends what the agent wrote since the last one.
Import(s) ==
    /\ imported[s] < Len(Script[s])
    /\ \E batch \in Script[s][imported[s] + 1] : transcript' = [transcript EXCEPT ![s] = @ \o batch]
    /\ imported' = [imported EXCEPT ![s] = @ + 1]
    /\ UNCHANGED report

Analyze ==
    /\ report' = AnalyzeProject(transcript)
    /\ UNCHANGED <<transcript, imported>>

DetectorsNext == (\E s \in Sessions : Import(s)) \/ Analyze

-----------------------------------------------------------------------------
(* What the new turns of a session can say against an issue: a pattern was    *)
(* denied, a compacted session was verified, a claim was not the last word, a *)
(* command went on failing and its loop is now a later one.  A cold start is  *)
(* a share and may always fall.                                              *)
Refuted(issue) ==
    CASE issue.detector = "permission_churn" ->
            \E d \in Replies(transcript, Sessions, "denial") : d.pattern = issue.fingerprint
      [] issue.detector = "compaction" ->
            \A s \in issue.sessions :
                \E k \in Positions(transcript[s]) :
                    Verifies(transcript[s][k]) /\ VerificationSucceeded(transcript[s], k)
      [] issue.detector = "done_without_verification" ->
            \A p \in issue.quoted : p[1] \in issue.sessions =>
                \E k \in Positions(transcript[p[1]]) : k > p[2] /\ transcript[p[1]][k].role = "assistant"
      [] issue.detector = "retry_loop" ->
            \E s \in issue.sessions : \E a \in FailedCommandAttempts(transcript[s]) :
                ClassOf[a.command] = issue.fingerprint[1] /\ <<s, a.result>> \notin issue.quoted
      [] OTHER -> issue.detector = "cold_start"

Reports(analysis, issue) ==
    \E i \in analysis.issues :
        /\ <<i.scope, i.detector, i.fingerprint>> = <<issue.scope, issue.detector, issue.fingerprint>>
        /\ issue.detector \in {"recurring_error", "file_thrash", "repeated_correction"} =>
                issue.sessions \subseteq i.sessions

(* The report of a growing transcript: an issue that was shown is only gone   *)
(* when later turns refute it or one of its sessions turned out to belong to  *)
(* another repository - what happened often enough stays so, in all its       *)
(* sessions - and the evidence and the cost of what is shown add up: two      *)
(* quoted turns, no issue dearer than the project and the project no dearer   *)
(* than its transcripts, although windows overlap within and across issues.   *)
(* detectRetryLoops .. detectRepeatedCorrections, aggregateIssues,             *)
(* attributedCost.                                                           *)
ReportHolds ==
    [][/\ \A issue \in report.issues :
            (\A s \in issue.sessions : SessionScopePath(transcript[s]) = issue.scope) =>
                Reports(report', issue) \/ Refuted(issue)
       /\ LET all == AttributedCost(transcript, UNION {Window(s, 1, Len(transcript[s])) : s \in Sessions})
              Within(part, whole) ==
                 part.tokens <= whole.tokens /\ part.minutes <= whole.minutes
                 /\ (NoUSD \notin {part.usd, whole.usd} => part.usd <= whole.usd) IN
          /\ Within(report'.cost, all)
          /\ \A issue \in report'.issues :
                /\ Within(issue.cost, report'.cost)
                /\ \A s \in issue.sessions : \E p \in issue.quoted : p[1] = s]_report
=============================================================================
