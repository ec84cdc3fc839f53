SPECIFICATION Spec
CONSTANT Problems <- WideProblems
INVARIANT OptimalIsCheapestAtAnyLength
CHECK_DEADLOCK FALSE
