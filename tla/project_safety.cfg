SPECIFICATION Spec
CONSTANTS
  Procs = {p1, p2}
  NoProc = NoProc
  SchemaVersion = 3
  Faults = {"open", "manifest", "move"}
  MaxRevision = 2
  MaxCrashes = 2
SYMMETRY Symmetry
CHECK_DEADLOCK FALSE
INVARIANTS
  ManifestNotAhead AnsweredRevisionIsOnDisk
  MarkerHasDeleter
PROPERTIES
  MigrationHasRestorePoint RepetitionIsRefused
