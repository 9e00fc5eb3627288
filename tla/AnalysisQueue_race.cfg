SPECIFICATION RaceSpec
CONSTANTS
  s1 = s1  s2 = s2  e1 = e1  e2 = e2  e3 = e3  f1 = f1  p1 = p1  p2 = p2
  Sessions = {s1}
  Events = {e1, e2}
  Findings = {f1}
  Projects = {p1, p2}
  Workers = {scan, import}
  Runtimes = {import}
  Importers = {imp}
  EventSession <- MCEventSession
  EventProject <- MCEventProject
  FindingEvent <- MCFindingEvent
  Signals = {e1}
  Poisoned = {}
  MaxSessionEvents = 2
  NoScope = NoScope  Conflict = Conflict  NoRow = NoRow  Nothing = Nothing
  MaxAppends = 1  MaxPrunes = 1  MaxStops = 1  MaxFaults = 0  MaxLosses = 1
INVARIANTS QueueInv CurrentCoversInputs ExclusiveClaim
CHECK_DEADLOCK FALSE
