SPECIFICATION Spec
CONSTANTS
    Unknown = Unknown
    Groups = {"g1", "g2"}
    Projects = {"p1", "p2"}
    MaxGeneration = 2
    Analyzers = {"poll", "command"}
    Limit = 2
    Batch = {1}
    MaxStops = 1
    Unreadable = {"p1"}
    Processes = {"a", "b", "c"}
    Workers = {"transcripts", "issues"}
    MaxTroubles = 3
    Free = Free
    Inspector = Inspector
    Lines = {1, 2}
    Size <- TailSizes
    Tailers = {"t1", "t2"}
    PrefixBytes = 1
    MaxTailBatch = 3
    MaxRecordBytes = 2
    Files = {1, 2}
    MaxSetbacks = 1
INVARIANTS
    SpoolSound
    CursorsBehindStore
    AnalysisCurrent
    WorkersUnderLease
    LearningSound
PROPERTIES
    AllImported
    EveryProjectAnalyzed
    WorkTakenUp
    EpisodesGrow
CHECK_DEADLOCK FALSE
