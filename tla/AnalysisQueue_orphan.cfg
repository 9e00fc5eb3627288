SPECIFICATION FairSpec
CONSTANTS
  s1 = s1  s2 = s2  e1 = e1  e2 = e2  e3 = e3  f1 = f1  p1 = p1  p2 = p2
  Sessions = {s1}
  Events = {e1, e2}
  Findings = {f1}
  Projects = {p1, p2}
  Workers = {local, scan}
  Runtimes = {local}
  Importers = {imp}
  EventSession <- MCEventSession
  EventProject <- MCEventProject
  FindingEvent <- MCFindingEvent
  Signals = {e1}
  Poisoned = {}
  MaxSessionEvents = 2
  NoScope = NoScope  Conflict = Conflict  NoRow = NoRow  Nothing = Nothing
  MaxAppends = 1  MaxPrunes = 0  MaxStops = 0  MaxFaults = 0  MaxLosses = 1
PROPERTIES EventuallyConverged
CHECK_DEADLOCK FALSE
