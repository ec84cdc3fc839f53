SPECIFICATION Spec
CONSTANTS
  Rounds = {r1, r2}
  NoRound = NoRound
  Clients = {c1, c2}
  Lifespan = Lifespan
  Faults = {"unguarded"}
  MaxCrashes = 0
SYMMETRY Symmetry
INVARIANTS
  OpenedProjectIsRecovered
