SPECIFICATION FairSpec
CONSTANTS
  j1 = j1  j2 = j2  o1 = o1
  Jobs = {j1, j2}
  Occurrence <- MCOccurrence
  Matches <- MCMatches
  Workers = {local, mcp}
  BatchSize = 1
  Idle = Idle  NoJob = NoJob
  MaxAnnotations = 2  MaxFaults = 1  MaxStops = 1  MaxDelays = 1
INVARIANTS NoCandidateSkipped OneHolder LedgerAgrees
PROPERTIES RetractionIsFinal EveryJobCompletes ImplementsLedger
CHECK_DEADLOCK FALSE
