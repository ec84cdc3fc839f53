SPECIFICATION Spec
CONSTANTS
  Problems <- MCProblems
  MaxRevisions = 2
  MaxCandidates = 3
  MaxSessions = 2
INVARIANTS
  CandidatesAreTimetables
  MoveIsExact
  LineageIsConsistent
  EntriesShowSolution
CHECK_DEADLOCK FALSE
