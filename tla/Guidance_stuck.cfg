SPECIFICATION RepairSpec
CONSTANTS
    Openers = {"a", "b"}
    Keys = {"k1", "k2"}
    Payloads = {1, 2}
    NoKey = NoKey
    Plain = Plain
    Absent = Absent
    Sessions = {"s1"}
    Legacy = {"s1"}
    Processes = {"a", "b"}
    MaxRevision = 3
    MaxTroubles = 2
    Experiences = {"e", "f"}
    Expires <- ExpiresEarly
    TokenLifetime = 1
    MaxTime = 1
    Proposals = {"p"}
    CandidateOf <- OneCandidate
    ApprovalLifetime = 1
    DeferWindow = 2
    Rank <- DecisionRank
    MaxClock = 3
    Registrars = {"old", "new"}
    Identity <- OwnIdentity
    DuplicateAddSafe = TRUE
    AllowAdd = FALSE
    MaxRuns = 2
    MaxEdits = 1
    MaxFaults = 1
    KnownSessions = {"s1", "s2"}
    Batch = 2
    CursorLifetime = 1
    Beginning = "open"
    MaxGeneration = 4
    MaxMinutes = 3
    MaxPrunes = 1
    MaxCrashes = 0
    NoExperience = NoExperience
    Refs = {"e"}
    SessionKeys = {"s1", "s2"}
    Tasks = {"x"}
    PreviewLifetime = 2
    BindingWindow = 1
    Limit = 1
    MaxTicks = 2
    MaxTurns = 2
    MaxHitches = 1
    NoPack = NoPack
    NoSession = NoSession
    NoApplication = NoApplication
    Never = Never
PROPERTIES
    RepairOpens
CHECK_DEADLOCK FALSE
