SPECIFICATION Spec
CONSTANTS
  Rounds = {r1, r2}
  NoRound = NoRound
  Clients = {c1, c2}
  Lifespan = Lifespan
  Faults = {"prepare", "unguarded", "spawn", "event", "finalize", "mark"}
  MaxCrashes = 1
SYMMETRY Symmetry
INVARIANTS
  CandidateIffSucceeded OneSolver CancelledSolverIsKilled
PROPERTIES
  SettledStaysSettled CandidateOnlyFromOwnSolver
