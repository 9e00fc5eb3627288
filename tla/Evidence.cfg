SPECIFICATION Spec
CONSTANTS
    s1 = s1  s2 = s2  e1 = e1  e2 = e2  e3 = e3  f1 = f1  p1 = p1  p2 = p2
    NoScope = NoScope  Conflict = Conflict  NoRow = NoRow  Nothing = Nothing
    NoIssue = NoIssue
    NoInsight = NoInsight
    NoTarget = NoTarget
    NoClass = NoClass
    NoRef = NoRef
    NoCall = NoCall  Never = Never
    NoProposal = NoProposal
    Openers = {"x", "y"}
    Subjects = {"issue_occurrences", "transcript_turns", "transcript_project_analysis_state",
                "experiences", "issue_summary_revisions"}
    Oldest = 8
    Stranger = "outcome"
    Nested = 2
INVARIANTS
    ProposalsSound
    VerdictsHold
PROPERTIES
    EventuallyConverged
    PacksHold
    InsightSound
    ReportHolds
    GuardsHold
CHECK_DEADLOCK FALSE
