SPECIFICATION Spec
CONSTANT Problems <- MCProblems
INVARIANT ReportedOptimalIsCheapest
CHECK_DEADLOCK FALSE
