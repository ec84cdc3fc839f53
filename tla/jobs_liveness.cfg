SPECIFICATION StubbornSpec
CONSTANTS
  Rounds = {r1, r2}
  NoRound = NoRound
  Clients = {c1}
  Lifespan = Lifespan
  Faults = {"prepare", "spawn", "finalize"}
  MaxCrashes = 1
INVARIANTS
  UnsettledRoundHasJob WorkerFilesHaveOwner
PROPERTIES
  AnsweredCancelIsSettled ExitLeavesNothing ImplementsLifecycle
  CancelFreesTable ShutdownEnds RoundIsSettled
