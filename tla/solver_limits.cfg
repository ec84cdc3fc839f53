SPECIFICATION Spec
CONSTANT Problems <- AlternateProblems
INVARIANT InfeasibleMeansNoTimetable
CHECK_DEADLOCK FALSE
