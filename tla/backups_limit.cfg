SPECIFICATION Spec
CONSTANTS
  Projects = {p1, p2}
  NoProject = NoProject
  Source = p1
  Keep = 1
  MaxBackups = 4
  MaxEvents = 0
CHECK_DEADLOCK FALSE
INVARIANTS
  OnlyNewestAreKept
