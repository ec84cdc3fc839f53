SPECIFICATION Spec
CONSTANTS
  Accounts = {a}
  None = None
  Tolerance = 1
  Validity = 1
  StartTime = 2
  MaxTime = 2
  MaxClockChanges = 1
  Gate = gate
  Workspace = workspace
  Saved = p
  Tasks = {gate, workspace}
  NoTask = NoTask
  Paths = {p, q}
  Faults = {"ready", "round", "request"}
  MaxStarts = 2
  MaxEnds = 1
CHECK_DEADLOCK FALSE
INVARIANT
  SignedOutIsStoppedAnyway
