SPECIFICATION MCSpec
CONSTANTS
  s1 = s1  e1 = e1  e2 = e2  f1 = f1  p1 = p1  p2 = p2
  Sessions = {s1}
  Events = {e1, e2}
  Findings = {f1}
  Projects = {p1, p2}
  Workers = {local}
  Runtimes = {local}
  Importers = {imp}
  EventSession <- MCEventSession
  EventProject <- MCEventProject
  FindingEvent <- MCFindingEvent
  Signals = {e1}
  Poisoned = {}
  MaxSessionEvents = 1
  Cutoffs = {0, 100}
  NoScope = NoScope  Conflict = Conflict  NoRow = NoRow  Nothing = Nothing
  MaxAppends = 2  MaxPrunes = 1  MaxStops = 0  MaxFaults = 0  MaxLosses = 0
INVARIANTS QueueMatchesRevision OneVersionVisible OccurrencesGrounded MonitoringHolds
PROPERTIES SnapshotStable RetentionFence
CHECK_DEADLOCK FALSE
