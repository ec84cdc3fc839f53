SPECIFICATION LiveSpec
CONSTANT Problems <- MCProblems
INVARIANTS
  ScheduleIsCompatible
  FailedHaveNoPlace
  CompiledRulesAreExact
  AcceptedIsTimetable
  ProvedInfeasibleIsInfeasible
  OptimalIsCheapest
PROPERTIES
  RunEnds
CHECK_DEADLOCK FALSE
