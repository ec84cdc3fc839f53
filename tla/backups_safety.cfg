SPECIFICATION Spec
CONSTANTS
  Projects = {p1, p2}
  NoProject = NoProject
  Source = p1
  Keep = 1
  MaxBackups = 3
  MaxEvents = 1
CHECK_DEADLOCK FALSE
INVARIANTS
  OwnRecordsHaveArchives
PROPERTIES
  DestructionIsBackedUp PruningSparesOtherProjects
