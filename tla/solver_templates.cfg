SPECIFICATION Spec
CONSTANT Problems <- TemplateProblems
INVARIANT AcceptedKeepsLimits
CHECK_DEADLOCK FALSE
