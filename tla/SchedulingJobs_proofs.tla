----------------------- MODULE SchedulingJobs_proofs -----------------------
(* Proofs about SchedulingJobs, for every set of rounds and clients, every *)
(* set of faults and any number of crashes.                                *)
EXTENDS SchedulingJobs, TLAPS

USE DEF InProgress, Settled, Statuses, Envelopes, Callers

\* The job table, the calls, the processes, the worker files and the rows of
\* every reachable state have their types, whatever raises and however often
\* the sidecar is killed; no job is being cancelled or monitored out of the
\* table, and a call that waits has a round to wait for.
LEMMA TypeCorrect == Spec => []TypeOK
<1>1. Init => TypeOK
  <2> SUFFICES ASSUME Init PROVE TypeOK
    OBVIOUS
  <2>1. 0 \in 0..MaxCrashes
    BY CrashesAssumption
  <2>2. QED
    BY <2>1 DEF Init, TypeOK
<1>2. TypeOK /\ [Next]_vars => TypeOK'
  <2> SUFFICES ASSUME TypeOK, [Next]_vars PROVE TypeOK'
    OBVIOUS
  <2> USE DEF TypeOK, db, files, os, table, calls, control, session,
              MarkFailed, MarkCancelled, Marked, SettledAs, GoTo, Return,
              CleanupFiles, PopJob, At
  <2>1. ASSUME NEW r \in Rounds, StartStep(r) PROVE TypeOK'
    <3>1. CASE StartRound(r) \/ Compile(r) \/ RejectInput(r)
               \/ InputRejected(r)
      BY <3>1 DEF StartRound, Compile, RejectInput, InputRejected
    <3>2. CASE PreparationFails(r) \/ WriteRequest(r) \/ StartAborts(r)
      BY <3>2 DEF PreparationFails, WriteRequest, StartAborts
    <3>3. CASE SpawnAndMonitor(r) \/ SpawnUnmonitored(r)
      BY <3>3 DEF SpawnAndMonitor, SpawnUnmonitored, Spawn
    <3>4. CASE SpawnFails(r)
      BY <3>4 DEF SpawnFails
    <3>5. QED
      BY <2>1, <3>1, <3>2, <3>3, <3>4 DEF StartStep
  <2>2. ASSUME NEW r \in Rounds, SolverStep(r) PROVE TypeOK'
    BY <2>2 DEF SolverStep, SolverPublishes, SolverExits, SolverDies
  <2>3. ASSUME NEW r \in Rounds, MonitorStep(r) PROVE TypeOK'
    BY <2>3 DEF MonitorStep, MonitorSeesCancel, MonitorSeesFailure,
       MonitorValidates, PersistCandidate, CommitCandidate, FinishInfeasible,
       InfeasibleFinished, FinalizeFails
  <2>4. ASSUME NEW c \in Callers, NEW r \in Rounds, BeginCancel(c, r)
        PROVE TypeOK'
    BY <2>4 DEF BeginCancel, CancelTerminates, CancelsEnded, SettleCancel
  <2>5. ASSUME NEW c \in Callers, WaitStep(c) PROVE TypeOK'
    <3>1. CASE TerminateTimesOut(c)
      BY <3>1 DEF TerminateTimesOut, Kill
    <3>2. CASE CancelReturns(c)
      <4>1. cancelOf[c] \in Rounds
        BY <3>2 DEF CancelReturns
      <4>2. status' \in [Rounds -> Statuses]
        BY <3>2, <4>1 DEF CancelReturns, SettleCancel
      <4>3. /\ cancelPc' = [cancelPc EXCEPT ![c] = "idle"]
            /\ cancelOf' = [cancelOf EXCEPT ![c] = NoRound]
            /\ detached' = detached \ {c}
            /\ UNCHANGED <<candidates, files, os, table, control, session>>
        BY <3>2 DEF CancelReturns, SettleCancel
      <4>4. QED
        BY <4>2, <4>3
    <3>3. QED
      BY <2>5, <3>1, <3>2 DEF WaitStep
  <2>6. ASSUME NEW r \in Rounds, RecoverRound(r) PROVE TypeOK'
    <3>1. status' \in [Rounds -> Statuses]
      BY <2>6 DEF RecoverRound
    <3>2. /\ loop' \in {loop, "idle"} /\ subject' \in {subject, NoRound}
          /\ UNCHANGED <<candidates, files, os, table, calls, session>>
      BY <2>6 DEF RecoverRound
    <3>3. QED
      BY <3>1, <3>2
  <2>7. CASE SessionStep
    <3>1. CASE OpenProject \/ RecoveryDone \/ ReopenCurrent \/ CloseProject
      BY <3>1 DEF OpenProject, RecoveryDone, ReopenCurrent, CloseProject
    <3>2. CASE BeginShutdown \/ Restart
      BY <3>2 DEF BeginShutdown, Restart
    <3>3. CASE Exit
      BY <3>3 DEF Exit, LoseMemory
    <3>4. CASE Crash
      <4>1. crashes' \in 0..MaxCrashes
        BY <3>4, CrashesAssumption DEF Crash
      <4>2. QED
        BY <3>4, <4>1 DEF Crash, LoseMemory
    <3>5. QED
      BY <2>7, <3>1, <3>2, <3>3, <3>4 DEF SessionStep
  <2>8. CASE UNCHANGED vars
    BY <2>8 DEF vars
  <2>9. QED
    BY <2>1, <2>2, <2>3, <2>4, <2>5, <2>6, <2>7, <2>8
       DEF Next, CancelRound, ShutdownCancels
<1>3. QED
  BY <1>1, <1>2, PTL DEF Spec

-----------------------------------------------------------------------------
(***************************************************************************)
(* The invariant the safety theorems rest on. It ties the point the event  *)
(* loop has reached to the job table and to the solver processes: a start  *)
(* owns an empty table, a finalization owns a job whose solver has exited, *)
(* and no living solver of this sidecar is outside the table.              *)
(***************************************************************************)
Starting == loop \in {"preparing", "compiled", "spawning"}

LoopInv ==
  /\ loop # "idle" => isOpen
  /\ Starting \/ loop = "finalizing" => subject \in Rounds
  /\ loop \in {"idle", "recovering"} => subject = NoRound
  /\ Starting \/ loop = "recovering" => jobs = {}
  /\ loop = "preparing" => status[subject] = "preparing"
  /\ loop = "compiled" => status[subject] \in {"solving", "infeasible"}
  /\ loop = "spawning" => status[subject] = "solving"
  /\ loop = "finalizing" =>
       /\ status[subject] \in {"validating", "infeasible"}
       /\ subject \in jobs \ cancelling
       /\ proc[subject] = "exited"

JobInv ==
  /\ jobs # {} => isOpen
  /\ isOpen => sidecar # "down"
  /\ \A r, q \in jobs : r = q
  /\ \A r \in jobs : r \notin orphans

ProcInv ==
  /\ \A r \in Rounds : OwnAlive(r) => r \in jobs
  /\ \A r \in Rounds : status[r] = "absent" => proc[r] = "none"
  /\ \A r \in orphans : proc[r] # "none"
  /\ Starting => proc[subject] = "none"

IInv == TypeOK /\ LoopInv /\ JobInv /\ ProcInv /\ CandidateIffSucceeded

\* The invariant is inductive.
LEMMA Inductive == Spec => []IInv
<1>1. Init /\ TypeOK => IInv
  <2> SUFFICES ASSUME Init, TypeOK PROVE IInv
    OBVIOUS
  <2>1. LoopInv /\ JobInv
    BY DEF Init, LoopInv, JobInv, Starting
  <2>2. \A r \in Rounds : status[r] = "absent" /\ proc[r] = "none"
    BY DEF Init
  <2>3. ProcInv
    BY <2>2 DEF Init, ProcInv, Starting, OwnAlive, Alive
  <2>4. CandidateIffSucceeded
    BY <2>2 DEF Init, CandidateIffSucceeded
  <2>5. QED
    BY <2>1, <2>3, <2>4 DEF IInv
<1>2. IInv /\ TypeOK' /\ [Next]_vars => IInv'
  <2> SUFFICES ASSUME IInv, TypeOK', [Next]_vars
               PROVE  LoopInv' /\ JobInv' /\ ProcInv' /\ CandidateIffSucceeded'
    BY DEF IInv
  <2> USE NoRoundAssumption DEF IInv, TypeOK, LoopInv, JobInv, ProcInv, Starting, OwnAlive, Alive,
              CandidateIffSucceeded, db, files, os, table, calls, control,
              session, MarkFailed, MarkCancelled, Marked, SettledAs, GoTo,
              Return, CleanupFiles, PopJob, At
  <2>1. ASSUME NEW r \in Rounds, StartStep(r)
        PROVE  LoopInv' /\ JobInv' /\ ProcInv' /\ CandidateIffSucceeded'
    <3>1. CASE StartRound(r)
      BY <3>1 DEF StartRound, NoActiveJob, Idle
    <3>2. CASE Compile(r)
      BY <3>2 DEF Compile
    <3>3. CASE RejectInput(r) \/ InputRejected(r)
      BY <3>3 DEF RejectInput, InputRejected
    <3>4. CASE PreparationFails(r)
      BY <3>4 DEF PreparationFails
    <3>5. CASE WriteRequest(r)
      BY <3>5 DEF WriteRequest
    <3>6. CASE StartAborts(r)
      BY <3>6 DEF StartAborts
    <3>7. CASE SpawnAndMonitor(r) \/ SpawnUnmonitored(r)
      BY <3>7 DEF SpawnAndMonitor, SpawnUnmonitored, Spawn
    <3>8. CASE SpawnFails(r)
      BY <3>8 DEF SpawnFails
    <3>9. QED
      BY <2>1, <3>1, <3>2, <3>3, <3>4, <3>5, <3>6, <3>7, <3>8 DEF StartStep
  <2>2. ASSUME NEW r \in Rounds, SolverStep(r)
        PROVE  LoopInv' /\ JobInv' /\ ProcInv' /\ CandidateIffSucceeded'
    <3>1. CASE SolverPublishes(r)
      BY <3>1 DEF SolverPublishes
    <3>2. CASE SolverExits(r)
      BY <3>2 DEF SolverExits
    <3>3. CASE SolverDies(r)
      BY <3>3 DEF SolverDies
    <3>4. QED
      BY <2>2, <3>1, <3>2, <3>3 DEF SolverStep
  <2>3. ASSUME NEW r \in Rounds, MonitorStep(r)
        PROVE  LoopInv' /\ JobInv' /\ ProcInv' /\ CandidateIffSucceeded'
    <3>1. CASE MonitorSeesCancel(r)
      BY <3>1 DEF MonitorSeesCancel, MonitorWakes, Resumable
    <3>2. CASE MonitorSeesFailure(r)
      BY <3>2 DEF MonitorSeesFailure, MonitorWakes, Resumable
    <3>3. CASE MonitorValidates(r)
      BY <3>3 DEF MonitorValidates, MonitorWakes, Resumable, UsableResult,
         SeesCancel
    <3>4. CASE PersistCandidate(r)
      BY <3>4 DEF PersistCandidate, CommitCandidate
    <3>5. CASE FinishInfeasible(r) \/ InfeasibleFinished(r)
      BY <3>5 DEF FinishInfeasible, InfeasibleFinished
    <3>6. CASE FinalizeFails(r)
      BY <3>6 DEF FinalizeFails
    <3>7. QED
      BY <2>3, <3>1, <3>2, <3>3, <3>4, <3>5, <3>6 DEF MonitorStep
  <2>4. ASSUME NEW c \in Callers, NEW r \in Rounds, BeginCancel(c, r)
        PROVE  LoopInv' /\ JobInv' /\ ProcInv' /\ CandidateIffSucceeded'
    BY <2>4 DEF BeginCancel, CancelTerminates, CancelsEnded, SettleCancel
  <2>5. ASSUME NEW c \in Callers, WaitStep(c)
        PROVE  LoopInv' /\ JobInv' /\ ProcInv' /\ CandidateIffSucceeded'
    <3>1. CASE TerminateTimesOut(c)
      BY <3>1 DEF TerminateTimesOut, Kill
    <3>2. CASE CancelReturns(c)
      BY <3>2 DEF CancelReturns, SettleCancel, Resumable
    <3>3. QED
      BY <2>5, <3>1, <3>2 DEF WaitStep
  <2>6. ASSUME NEW r \in Rounds, RecoverRound(r)
        PROVE  LoopInv' /\ JobInv' /\ ProcInv' /\ CandidateIffSucceeded'
    BY <2>6 DEF RecoverRound, NeedsRecovery
  <2>7. CASE SessionStep
    <3>1. CASE OpenProject
      BY <3>1 DEF OpenProject, NoActiveJob, Idle
    <3>2. CASE RecoveryDone
      BY <3>2 DEF RecoveryDone
    <3>3. CASE ReopenCurrent
      BY <3>3 DEF ReopenCurrent
    <3>4. CASE CloseProject
      BY <3>4 DEF CloseProject, NoActiveJob, Idle
    <3>5. CASE BeginShutdown \/ Restart
      BY <3>5 DEF BeginShutdown, Restart
    <3>6. CASE Exit \/ Crash
      BY <3>6 DEF Exit, Crash, LoseMemory
    <3>7. QED
      BY <2>7, <3>1, <3>2, <3>3, <3>4, <3>5, <3>6 DEF SessionStep
  <2>8. CASE UNCHANGED vars
    BY <2>8 DEF vars
  <2>9. QED
    BY <2>1, <2>2, <2>3, <2>4, <2>5, <2>6, <2>7, <2>8
       DEF Next, CancelRound, ShutdownCancels
<1>3. QED
  BY <1>1, <1>2, TypeCorrect, PTL DEF Spec

-----------------------------------------------------------------------------
\* A candidate is visible exactly for the succeeded rounds, whatever raises
\* and however often the sidecar is killed.
THEOREM CandidateIffSucceededAlways == Spec => []CandidateIffSucceeded
<1>1. IInv => CandidateIffSucceeded
  BY DEF IInv
<1>2. QED
  BY <1>1, Inductive, PTL

\* One sidecar never owns two living solvers.
THEOREM OneSolverAlways == Spec => []OneSolver
<1>1. IInv => OneSolver
  BY DEF IInv, JobInv, ProcInv, OneSolver
<1>2. QED
  BY <1>1, Inductive, PTL

\* The project of a job is not closed under it.
THEOREM JobsHoldProjectAlways == Spec => []JobsHoldProject
<1>1. IInv => JobsHoldProject
  BY DEF IInv, JobInv, JobsHoldProject
<1>2. QED
  BY <1>1, Inductive, PTL

-----------------------------------------------------------------------------
(* The action properties. Only five actions write to a round that is not   *)
(* in progress, or can: the point of the loop, recorded in LoopInv, says   *)
(* that none of them meets a settled round.                                *)

\* No step changes the status of a settled round.
THEOREM SettledStaysSettledAlways == Spec => SettledStaysSettled
<1>1. IInv /\ [Next]_vars =>
        [\A r \in Rounds : status[r] \in Settled => status'[r] = status[r]]_vars
  <2> SUFFICES ASSUME IInv, Next, NEW q \in Rounds, status[q] \in Settled
               PROVE  status'[q] = status[q]
    OBVIOUS
  <2> USE DEF IInv, TypeOK, LoopInv, Starting, db, At, MarkFailed,
              MarkCancelled, Marked, SettledAs
  <2>1. ASSUME NEW r \in Rounds, StartStep(r) PROVE status'[q] = status[q]
    BY <2>1 DEF StartStep, StartRound, Compile, RejectInput, InputRejected,
       PreparationFails, WriteRequest, StartAborts, SpawnAndMonitor, SpawnUnmonitored, Spawn,
       SpawnFails
  <2>2. ASSUME NEW r \in Rounds, SolverStep(r) PROVE status'[q] = status[q]
    BY <2>2 DEF SolverStep, SolverPublishes, SolverExits, SolverDies
  <2>3. ASSUME NEW r \in Rounds, MonitorStep(r) PROVE status'[q] = status[q]
    BY <2>3 DEF MonitorStep, MonitorSeesCancel, MonitorSeesFailure,
       MonitorValidates, UsableResult, PersistCandidate, CommitCandidate,
       FinishInfeasible, InfeasibleFinished, FinalizeFails
  <2>4. ASSUME NEW c \in Callers, NEW r \in Rounds, BeginCancel(c, r)
        PROVE  status'[q] = status[q]
    BY <2>4 DEF BeginCancel, CancelTerminates, CancelsEnded, SettleCancel
  <2>5. ASSUME NEW c \in Callers, WaitStep(c) PROVE status'[q] = status[q]
    BY <2>5 DEF WaitStep, TerminateTimesOut, CancelReturns, SettleCancel
  <2>6. ASSUME NEW r \in Rounds, RecoverRound(r) PROVE status'[q] = status[q]
    BY <2>6 DEF RecoverRound
  <2>7. CASE SessionStep
    BY <2>7 DEF SessionStep, OpenProject, RecoveryDone, ReopenCurrent,
       CloseProject, BeginShutdown, Exit, Crash, Restart
  <2>8. QED
    BY <2>1, <2>2, <2>3, <2>4, <2>5, <2>6, <2>7
       DEF Next, CancelRound, ShutdownCancels
<1>2. QED
  BY <1>1, Inductive, PTL DEF Spec, SettledStaysSettled

\* Only the feasible result of a solver of this sidecar that exited by itself
\* makes a candidate, and only if nobody has asked to cancel its round.
THEOREM CandidateOnlyFromOwnSolverAlways == Spec => CandidateOnlyFromOwnSolver
<1>1. IInv /\ [Next]_vars =>
        [\A r \in candidates' \ candidates :
           /\ proc[r] = "exited" /\ r \notin orphans
           /\ result[r] = "feasible"
           /\ r \notin cancelling]_vars
  <2> SUFFICES ASSUME IInv, Next, NEW q \in candidates' \ candidates
               PROVE  /\ proc[q] = "exited" /\ q \notin orphans
                      /\ result[q] = "feasible"
                      /\ q \notin cancelling
    OBVIOUS
  <2>1. PICK r \in Rounds : PersistCandidate(r)
    <3> USE DEF db
    <3>1. ASSUME NEW r \in Rounds, StartStep(r) PROVE FALSE
      BY <3>1 DEF StartStep, StartRound, Compile, RejectInput,
         InputRejected, PreparationFails, WriteRequest, StartAborts, SpawnAndMonitor,
         SpawnUnmonitored, Spawn, SpawnFails
    <3>2. ASSUME NEW r \in Rounds, SolverStep(r) PROVE FALSE
      BY <3>2 DEF SolverStep, SolverPublishes, SolverExits, SolverDies
    <3>3. ASSUME NEW r \in Rounds, MonitorStep(r) PROVE PersistCandidate(r)
      BY <3>3 DEF MonitorStep, MonitorSeesCancel, MonitorSeesFailure,
         MonitorValidates, FinishInfeasible, InfeasibleFinished, FinalizeFails
    <3>4. ASSUME NEW c \in Callers, NEW r \in Rounds, BeginCancel(c, r)
          PROVE  FALSE
      BY <3>4 DEF BeginCancel
    <3>5. ASSUME NEW c \in Callers, WaitStep(c) PROVE FALSE
      BY <3>5 DEF WaitStep, TerminateTimesOut, CancelReturns
    <3>6. ASSUME NEW r \in Rounds, RecoverRound(r) PROVE FALSE
      BY <3>6 DEF RecoverRound
    <3>7. CASE SessionStep
      BY <3>7 DEF SessionStep, OpenProject, RecoveryDone, ReopenCurrent,
         CloseProject, BeginShutdown, Exit, Crash, Restart
    <3>8. QED
      BY <3>1, <3>2, <3>3, <3>4, <3>5, <3>6, <3>7
         DEF Next, CancelRound, ShutdownCancels
  <2>2. q = r
    BY <2>1 DEF PersistCandidate, CommitCandidate
  <2>3. QED
    BY <2>1, <2>2
       DEF PersistCandidate, At, IInv, LoopInv, JobInv
<1>2. QED
  BY <1>1, Inductive, PTL DEF Spec, CandidateOnlyFromOwnSolver

-----------------------------------------------------------------------------
(***************************************************************************)
(* The refinement. It needs that a round in progress is never left without *)
(* an owner, which is what the faults "unguarded" and "mark" break.        *)
(***************************************************************************)
OwnedInv ==
  isOpen /\ loop # "recovering" =>
    \A r \in Rounds : status[r] \in InProgress => r \in jobs \/ r = subject

Guarded == "unguarded" \notin Faults /\ "mark" \notin Faults

\* Unless an unguarded statement or a status update raises, no step leaves an
\* unsettled round of the open project without an owner.
LEMMA OwnedStep ==
  ASSUME Guarded, IInv, OwnedInv, [Next]_vars
  PROVE  OwnedInv'
<1> DEFINE Owned(q) == q \in jobs' \/ q = subject'
<1> SUFFICES ASSUME isOpen', loop' # "recovering",
                    NEW q \in Rounds, status'[q] \in InProgress
             PROVE  Owned(q)
  BY DEF OwnedInv
<1> USE NoRoundAssumption
    DEF OwnedInv, Guarded, IInv, TypeOK, LoopInv, JobInv, Starting, db,
            table, control, session, At, MarkFailed, MarkCancelled, Marked,
            SettledAs, GoTo, Return, PopJob
<1>1. ASSUME NEW r \in Rounds, StartStep(r) PROVE Owned(q)
  <2>1. CASE StartRound(r)
    BY <2>1 DEF StartRound, NoActiveJob, Idle
  <2>2. CASE Compile(r)
    BY <2>2 DEF Compile
  <2>3. CASE RejectInput(r) \/ InputRejected(r) \/ PreparationFails(r)
    <3>1. subject = r /\ loop # "recovering" /\ UNCHANGED <<jobs, isOpen>>
      BY <2>3 DEF RejectInput, InputRejected, PreparationFails
    <3>2. status'[r] \notin InProgress
      <4>1. CASE RejectInput(r)
        BY <4>1 DEF RejectInput
      <4>2. CASE InputRejected(r)
        BY <4>2 DEF InputRejected
      <4>3. CASE PreparationFails(r)
        <5>1. status' \in [Rounds -> Statuses]
              /\ \/ status[r] \in InProgress /\ status'[r] = "failed_recoverable"
                 \/ status[r] \notin InProgress /\ status' = status
          BY <4>3 DEF PreparationFails
        <5>2. QED
          BY <5>1
      <4>4. QED
        BY <2>3, <4>1, <4>2, <4>3
    <3>3. q # r => status'[q] = status[q]
      BY <2>3 DEF RejectInput, InputRejected, PreparationFails
    <3>4. QED
      BY <3>1, <3>2, <3>3
  <2>4. CASE WriteRequest(r) \/ SpawnFails(r)
    BY <2>4 DEF WriteRequest, SpawnFails
  <2>5. CASE Spawn(r)
    BY <2>5 DEF Spawn
  <2>6. QED
    BY <1>1, <2>1, <2>2, <2>3, <2>4, <2>5
       DEF StartStep, StartAborts, SpawnAndMonitor, SpawnUnmonitored
<1>2. ASSUME NEW r \in Rounds, SolverStep(r) PROVE Owned(q)
  BY <1>2 DEF SolverStep, SolverPublishes, SolverExits, SolverDies
<1>3. ASSUME NEW r \in Rounds, MonitorStep(r) PROVE Owned(q)
  <2>1. CASE MonitorSeesCancel(r) \/ MonitorSeesFailure(r)
    <3>1. loop = "idle" /\ UNCHANGED <<loop, subject, isOpen>>
      BY <2>1 DEF MonitorSeesCancel, MonitorSeesFailure, MonitorWakes,
         Resumable
    <3>2. status' = SettledAs(r, "cancelled")
          \/ status' = SettledAs(r, "failed_recoverable")
      BY <2>1 DEF MonitorSeesCancel, MonitorSeesFailure
    <3>3. q # r /\ status'[q] = status[q]
      BY <3>2
    <3>4. jobs' = jobs \ {r}
      BY <2>1 DEF MonitorSeesCancel, MonitorSeesFailure
    <3>5. QED
      BY <3>1, <3>3, <3>4
  <2>2. CASE MonitorValidates(r)
    BY <2>2 DEF MonitorValidates, MonitorWakes, Resumable
  <2>3. CASE PersistCandidate(r)
    BY <2>3 DEF PersistCandidate, CommitCandidate
  <2>4. CASE FinishInfeasible(r) \/ InfeasibleFinished(r)
    BY <2>4 DEF FinishInfeasible, InfeasibleFinished
  <2>5. CASE FinalizeFails(r)
    BY <2>5 DEF FinalizeFails
  <2>6. QED
    BY <1>3, <2>1, <2>2, <2>3, <2>4, <2>5 DEF MonitorStep
<1>4. ASSUME NEW c \in Callers, NEW r \in Rounds, BeginCancel(c, r)
      PROVE  Owned(q)
  BY <1>4 DEF BeginCancel, CancelTerminates, CancelsEnded, SettleCancel
<1>5. ASSUME NEW c \in Callers, WaitStep(c) PROVE Owned(q)
  <2>1. CASE TerminateTimesOut(c)
    BY <2>1 DEF TerminateTimesOut
  <2>2. CASE CancelReturns(c)
    BY <2>2 DEF CancelReturns, SettleCancel, Resumable
  <2>3. QED
    BY <1>5, <2>1, <2>2 DEF WaitStep
<1>6. ASSUME NEW r \in Rounds, RecoverRound(r) PROVE Owned(q)
  BY <1>6 DEF RecoverRound
<1>7. CASE SessionStep
  BY <1>7 DEF SessionStep, OpenProject, RecoveryDone, NeedsRecovery,
     ReopenCurrent, CloseProject, BeginShutdown, Exit, Crash, Restart,
     LoseMemory
<1>8. CASE UNCHANGED vars
  BY <1>8 DEF vars
<1>9. QED
  BY <1>1, <1>2, <1>3, <1>4, <1>5, <1>6, <1>7, <1>8
     DEF Next, CancelRound, ShutdownCancels

\* While a project is open and no handler is in the middle of its statements,
\* every unsettled round has the job that will settle it.
THEOREM UnsettledRoundHasJobAlways ==
  ASSUME Guarded PROVE Spec => []UnsettledRoundHasJob
<1>1. Init => OwnedInv
  BY DEF Init, OwnedInv
<1>2. IInv /\ OwnedInv /\ [Next]_vars => OwnedInv'
  BY OwnedStep
<1>3. IInv /\ OwnedInv => UnsettledRoundHasJob
  BY NoRoundAssumption DEF IInv, LoopInv, OwnedInv, UnsettledRoundHasJob
<1>4. QED
  BY <1>1, <1>2, <1>3, Inductive, PTL DEF Spec

\* Every step of the detailed specification is a step of the abstract one
\* under the mapping, or leaves the mapped variables alone.
LEMMA StepRefines ==
  ASSUME Guarded, IInv, OwnedInv, [Next]_vars
  PROVE  [Lifecycle!Next]_(Lifecycle!vars)
<1> DEFINE Phase(s) == IF s \in InProgress THEN "active" ELSE s
           phase == [r \in Rounds |-> Phase(status[r])]
           Mapped == [Lifecycle!Next]_(Lifecycle!vars)
<1> USE DEF Guarded, IInv, TypeOK, LoopInv, Starting, db, At, MarkFailed,
            MarkCancelled, Marked, SettledAs
<1>1. ASSUME status' = status, candidates' = candidates PROVE Mapped
  BY <1>1 DEF Lifecycle!vars
<1>2. ASSUME NEW r \in Rounds, status[r] \in InProgress,
             NEW s \in InProgress, status' = [status EXCEPT ![r] = s],
             candidates' = candidates
      PROVE  Mapped
  BY <1>2 DEF Lifecycle!vars
<1>3. ASSUME NEW r \in Rounds, status[r] \in InProgress,
             NEW s \in Settled \ {"succeeded"},
             status' = [status EXCEPT ![r] = s], candidates' = candidates
      PROVE  Mapped
  <2> s \in Lifecycle!Outcomes \ {"succeeded"}
    BY DEF Lifecycle!Outcomes
  <2> phase' = [phase EXCEPT ![r] = s]
    BY <1>3
  <2> phase[r] = "active"
    BY <1>3
  <2>1. Lifecycle!GiveUp(r)
    BY <1>3 DEF Lifecycle!GiveUp
  <2>2. QED
    BY <2>1 DEF Lifecycle!Next
<1>4. ASSUME NEW r \in Rounds, NEW s \in Settled \ {"succeeded"},
             status' = SettledAs(r, s), candidates' = candidates
      PROVE  Mapped
  BY <1>4, <1>1, <1>3
<1>5. ASSUME NEW r \in Rounds, StartRound(r) PROVE Mapped
  <2>1. \A q \in Rounds : status[q] \notin InProgress
    BY <1>5, NoRoundAssumption DEF StartRound, NoActiveJob, Idle, OwnedInv
  <2>2. Lifecycle!Begin(r)
    BY <1>5, <2>1 DEF StartRound, Lifecycle!Begin
  <2>3. QED
    BY <2>2 DEF Lifecycle!Next
<1>6. ASSUME NEW r \in Rounds, PersistCandidate(r) PROVE Mapped
  <2>1. Lifecycle!Succeed(r)
    BY <1>6 DEF PersistCandidate, CommitCandidate, Lifecycle!Succeed
  <2>2. QED
    BY <2>1 DEF Lifecycle!Next
<1>7. ASSUME NEW r \in Rounds, StartStep(r) PROVE Mapped
  <2>1. CASE Compile(r)
    BY <2>1, <1>2 DEF Compile
  <2>2. CASE RejectInput(r) \/ InputRejected(r)
    BY <2>2, <1>1, <1>3 DEF RejectInput, InputRejected
  <2>3. CASE PreparationFails(r) \/ SpawnFails(r)
    BY <2>3, <1>4 DEF PreparationFails, SpawnFails
  <2>4. CASE WriteRequest(r) \/ Spawn(r)
    BY <2>4, <1>1 DEF WriteRequest, Spawn
  <2>5. QED
    BY <1>7, <1>5, <2>1, <2>2, <2>3, <2>4
       DEF StartStep, StartAborts, SpawnAndMonitor, SpawnUnmonitored
<1>8. ASSUME NEW r \in Rounds, SolverStep(r) PROVE Mapped
  BY <1>8, <1>1 DEF SolverStep, SolverPublishes, SolverExits, SolverDies
<1>9. ASSUME NEW r \in Rounds, MonitorStep(r) PROVE Mapped
  <2>1. CASE MonitorSeesCancel(r)
    BY <2>1, <1>4 DEF MonitorSeesCancel
  <2>2. CASE MonitorSeesFailure(r)
    BY <2>2, <1>4 DEF MonitorSeesFailure
  <2>3. CASE MonitorValidates(r)
    BY <2>3, <1>2 DEF MonitorValidates, UsableResult
  <2>4. CASE FinishInfeasible(r) \/ InfeasibleFinished(r)
    BY <2>4, <1>1, <1>3 DEF FinishInfeasible, InfeasibleFinished
  <2>5. CASE FinalizeFails(r)
    BY <2>5, <1>4 DEF FinalizeFails
  <2>6. QED
    BY <1>9, <1>6, <2>1, <2>2, <2>3, <2>4, <2>5 DEF MonitorStep
<1>10. ASSUME NEW c \in Callers, NEW r \in Rounds, BeginCancel(c, r)
       PROVE  Mapped
  BY <1>10, <1>1, <1>4
     DEF BeginCancel, CancelTerminates, CancelsEnded, SettleCancel
<1>11. ASSUME NEW c \in Callers, WaitStep(c) PROVE Mapped
  <2>1. CASE TerminateTimesOut(c)
    BY <2>1, <1>1 DEF TerminateTimesOut
  <2>2. CASE CancelReturns(c)
    <3>1. cancelOf[c] \in Rounds
      BY <2>2 DEF CancelReturns
    <3>2. QED
      BY <2>2, <3>1, <1>1, <1>4 DEF CancelReturns, SettleCancel
  <2>3. QED
    BY <1>11, <2>1, <2>2 DEF WaitStep
<1>12. ASSUME NEW r \in Rounds, RecoverRound(r) PROVE Mapped
  BY <1>12, <1>4 DEF RecoverRound
<1>13. CASE SessionStep
  BY <1>13, <1>1 DEF SessionStep, OpenProject, RecoveryDone, ReopenCurrent,
     CloseProject, BeginShutdown, Exit, Crash, Restart
<1>14. CASE UNCHANGED vars
  BY <1>14, <1>1 DEF vars
<1>15. QED
  BY <1>7, <1>8, <1>9, <1>10, <1>11, <1>12, <1>13, <1>14
     DEF Next, CancelRound, ShutdownCancels

\* Seen through the mapping, the manager is the abstract lifecycle: rounds are
\* opened one at a time and settled once, a candidate only with "succeeded".
THEOREM Refinement == ASSUME Guarded PROVE Spec => ImplementsLifecycle
<1>1. Init => Lifecycle!Init
  BY DEF Init, Lifecycle!Init
<1>2. Init => OwnedInv
  BY DEF Init, OwnedInv
<1>3. IInv /\ OwnedInv /\ [Next]_vars => OwnedInv'
  BY OwnedStep
<1>4. IInv /\ OwnedInv /\ [Next]_vars => [Lifecycle!Next]_(Lifecycle!vars)
  BY StepRefines
<1>5. QED
  BY <1>1, <1>2, <1>3, <1>4, Inductive, PTL
     DEF Spec, ImplementsLifecycle, Lifecycle!Spec

-----------------------------------------------------------------------------
(* Signals. A call that waits for the second time has sent SIGKILL, and no *)
(* later SIGTERM takes that back.                                          *)

\* A round that is reported as cancelled has no solver that was only asked to
\* end, for any faults and however many calls cancel it at once.
THEOREM CancelledSolverIsKilledAlways == Spec => []CancelledSolverIsKilled
<1> DEFINE SignalInv ==
             /\ CancelledSolverIsKilled
             /\ \A c \in Callers :
                  cancelPc[c] = "killing" => signal[cancelOf[c]] = "kill"
<1>1. Init => SignalInv
  BY DEF Init, CancelledSolverIsKilled
<1>2. IInv /\ SignalInv /\ [Next]_vars => SignalInv'
  <2> SUFFICES ASSUME IInv, SignalInv, [Next]_vars PROVE SignalInv'
    OBVIOUS
  <2> USE DEF CancelledSolverIsKilled, IInv, TypeOK, Alive, db, os, calls, At,
              MarkFailed, MarkCancelled, Marked, SettledAs
  <2>1. ASSUME NEW r \in Rounds, StartStep(r) PROVE SignalInv'
    <3>1. CASE StartRound(r) \/ Compile(r) \/ RejectInput(r)
               \/ InputRejected(r) \/ WriteRequest(r) \/ StartAborts(r)
      BY <3>1 DEF StartRound, Compile, RejectInput, InputRejected,
         WriteRequest, StartAborts
    <3>2. CASE PreparationFails(r) \/ SpawnFails(r)
      BY <3>2 DEF PreparationFails, SpawnFails
    <3>3. CASE Spawn(r)
      BY <3>3 DEF Spawn, LoopInv
    <3>4. QED
      BY <2>1, <3>1, <3>2, <3>3 DEF StartStep, SpawnAndMonitor,
         SpawnUnmonitored
  <2>2. ASSUME NEW r \in Rounds, SolverStep(r) PROVE SignalInv'
    BY <2>2 DEF SolverStep, SolverPublishes, SolverExits, SolverDies
  <2>3. ASSUME NEW r \in Rounds, MonitorStep(r) PROVE SignalInv'
    <3>1. CASE MonitorSeesCancel(r) \/ MonitorSeesFailure(r)
      BY <3>1 DEF MonitorSeesCancel, MonitorSeesFailure, MonitorWakes
    <3>2. CASE MonitorValidates(r) \/ PersistCandidate(r)
      BY <3>2 DEF MonitorValidates, PersistCandidate, CommitCandidate
    <3>3. CASE FinishInfeasible(r) \/ InfeasibleFinished(r) \/ FinalizeFails(r)
      BY <3>3 DEF FinishInfeasible, InfeasibleFinished, FinalizeFails
    <3>4. QED
      BY <2>3, <3>1, <3>2, <3>3 DEF MonitorStep
  <2>4. ASSUME NEW c \in Callers, NEW r \in Rounds, BeginCancel(c, r)
        PROVE  SignalInv'
    <3>1. CASE CancelTerminates(c, r)
      BY <2>4, <3>1 DEF BeginCancel, CancelTerminates
    <3>2. CASE CancelsEnded(c, r)
      BY <2>4, <3>2 DEF BeginCancel, CancelsEnded, SettleCancel
    <3>3. QED
      BY <2>4, <3>1, <3>2 DEF BeginCancel
  <2>5. ASSUME NEW c \in Callers, WaitStep(c) PROVE SignalInv'
    <3>1. CASE TerminateTimesOut(c)
      BY <3>1 DEF TerminateTimesOut, Kill
    <3>2. CASE CancelReturns(c)
      <4>1. ~Alive(cancelOf[c]) \/ signal[cancelOf[c]] = "kill"
        BY <3>2 DEF CancelReturns
      <4>2. QED
        BY <3>2, <4>1 DEF CancelReturns, SettleCancel
    <3>3. QED
      BY <2>5, <3>1, <3>2 DEF WaitStep
  <2>6. ASSUME NEW r \in Rounds, RecoverRound(r) PROVE SignalInv'
    BY <2>6 DEF RecoverRound
  <2>7. CASE SessionStep
    BY <2>7 DEF SessionStep, OpenProject, RecoveryDone, ReopenCurrent,
       CloseProject, BeginShutdown, Exit, Crash, Restart, LoseMemory
  <2>8. CASE UNCHANGED vars
    BY <2>8 DEF vars
  <2>9. QED
    BY <2>1, <2>2, <2>3, <2>4, <2>5, <2>6, <2>7, <2>8
       DEF Next, CancelRound, ShutdownCancels
<1>3. QED
  BY <1>1, <1>2, Inductive, PTL DEF Spec

-----------------------------------------------------------------------------
(***************************************************************************)
(* Files, answers and the exit. Besides the faults excluded by Guarded it  *)
(* must not happen that recording the start of a worker raises: the job is *)
(* then in the table without a monitor and nothing ever removes it.        *)
(***************************************************************************)
Monitored == Guarded /\ "event" \notin Faults

HasFile(r) == r \in request \/ result[r] # "none"

WorkInv ==
  /\ jobs = monitors
  /\ crashes = 0 => orphans = {}
  /\ \A r \in Rounds : status[r] = "absent" => ~HasFile(r)
  /\ loop \in {"preparing", "compiled"} => ~HasFile(subject)
  /\ WorkerFilesHaveOwner
  /\ \A r \in jobs : status[r] # "absent"
  /\ \A c \in Callers :
       /\ cancelPc[c] # "idle" => status[cancelOf[c]] # "absent"
       /\ c \in detached =>
            cancelPc[c] # "idle" /\ status[cancelOf[c]] \in Settled

\* Without these faults every job has its monitor, every file of a worker its
\* job or its launch, and every call its round.
LEMMA WorkStep ==
  ASSUME Monitored, IInv, OwnedInv, WorkInv, [Next]_vars
  PROVE  WorkInv'
<1> USE NoRoundAssumption, CrashesAssumption
    DEF Monitored, Guarded, WorkInv, WorkerFilesHaveOwner, HasFile, IInv,
        TypeOK, LoopInv, Starting, db, files, os, table, calls, control,
        session, At, MarkFailed, MarkCancelled, Marked, SettledAs, GoTo,
        Return, PopJob, CleanupFiles
<1>1. ASSUME NEW r \in Rounds, StartStep(r) PROVE WorkInv'
  <2>1. CASE StartRound(r)
    <3>1. status[r] = "absent" /\ ~HasFile(r) /\ r \notin jobs
      BY <2>1 DEF StartRound
    <3>2. \A q \in Rounds : q # r => status'[q] = status[q]
      BY <2>1 DEF StartRound
    <3>3. /\ loop' = "preparing" /\ subject' = r /\ subject = NoRound
          /\ UNCHANGED <<files, os, table, calls, crashes>>
      BY <2>1 DEF StartRound, Idle
    <3>4. \A c \in Callers :
            cancelPc[c] # "idle" => cancelOf[c] \in Rounds \ {r}
      BY <3>1
    <3>5. \A q \in Rounds : status'[q] = "absent" => ~HasFile(q)'
      BY <2>1, <3>3 DEF StartRound
    <3>6. QED
      BY <3>1, <3>2, <3>3, <3>4, <3>5
  <2>2. CASE Compile(r)
    BY <2>2 DEF Compile
  <2>3. CASE RejectInput(r) \/ InputRejected(r)
    BY <2>3 DEF RejectInput, InputRejected
  <2>4. CASE PreparationFails(r)
    BY <2>4 DEF PreparationFails
  <2>5. CASE WriteRequest(r)
    BY <2>5 DEF WriteRequest
  <2>6. CASE SpawnAndMonitor(r)
    BY <2>6 DEF SpawnAndMonitor, Spawn
  <2>7. CASE SpawnFails(r)
    BY <2>7 DEF SpawnFails
  <2>8. QED
    BY <1>1, <2>1, <2>2, <2>3, <2>4, <2>5, <2>6, <2>7
       DEF StartStep, StartAborts, SpawnUnmonitored
<1>2. ASSUME NEW r \in Rounds, SolverStep(r) PROVE WorkInv'
  <2>1. CASE SolverPublishes(r)
    <3>1. crashes = 0 => r \in jobs
      BY <2>1 DEF SolverPublishes, ProcInv, OwnAlive, Alive
    <3>2. status[r] # "absent" /\ ~(Starting /\ subject = r)
      BY <2>1 DEF SolverPublishes, ProcInv
    <3>3. QED
      BY <2>1, <3>1, <3>2 DEF SolverPublishes
  <2>2. CASE SolverExits(r) \/ SolverDies(r)
    BY <2>2 DEF SolverExits, SolverDies
  <2>3. QED
    BY <1>2, <2>1, <2>2 DEF SolverStep
<1>3. ASSUME NEW r \in Rounds, MonitorStep(r) PROVE WorkInv'
  <2>1. CASE MonitorSeesCancel(r)
    BY <2>1 DEF MonitorSeesCancel, MonitorWakes, Resumable
  <2>2. CASE MonitorSeesFailure(r)
    BY <2>2 DEF MonitorSeesFailure, MonitorWakes, Resumable
  <2>3. CASE MonitorValidates(r)
    BY <2>3 DEF MonitorValidates, MonitorWakes, Resumable, UsableResult
  <2>4. CASE PersistCandidate(r)
    BY <2>4 DEF PersistCandidate, CommitCandidate
  <2>5. CASE FinishInfeasible(r) \/ InfeasibleFinished(r)
    BY <2>5 DEF FinishInfeasible, InfeasibleFinished
  <2>6. CASE FinalizeFails(r)
    BY <2>6 DEF FinalizeFails
  <2>7. QED
    BY <1>3, <2>1, <2>2, <2>3, <2>4, <2>5, <2>6 DEF MonitorStep
<1>4. ASSUME NEW c \in Callers, NEW r \in Rounds, BeginCancel(c, r)
      PROVE  WorkInv'
  <2>1. CASE CancelTerminates(c, r)
    BY <1>4, <2>1 DEF BeginCancel, CancelTerminates
  <2>2. CASE CancelsEnded(c, r)
    BY <1>4, <2>2 DEF BeginCancel, CancelsEnded, SettleCancel
  <2>3. QED
    BY <1>4, <2>1, <2>2 DEF BeginCancel
<1>5. ASSUME NEW c \in Callers, WaitStep(c) PROVE WorkInv'
  <2>1. CASE TerminateTimesOut(c)
    BY <2>1 DEF TerminateTimesOut
  <2>2. CASE CancelReturns(c)
    BY <2>2 DEF CancelReturns, SettleCancel, Resumable
  <2>3. QED
    BY <1>5, <2>1, <2>2 DEF WaitStep
<1>6. ASSUME NEW r \in Rounds, RecoverRound(r) PROVE WorkInv'
  BY <1>6 DEF RecoverRound, NeedsRecovery
<1>7. CASE SessionStep
  <2>1. CASE OpenProject \/ RecoveryDone \/ ReopenCurrent \/ BeginShutdown
             \/ Restart
    BY <2>1 DEF OpenProject, NoActiveJob, Idle, RecoveryDone, ReopenCurrent,
       BeginShutdown, Restart
  <2>2. CASE CloseProject
    <3>1. \A r \in Rounds : status[r] \notin InProgress
      BY <2>2 DEF CloseProject, Idle, NoActiveJob, OwnedInv
    <3>2. QED
      BY <2>2, <3>1 DEF CloseProject
  <2>3. CASE Exit
    <3>1. jobs = {} /\ \A r \in Rounds : crashes = 0 => ~HasFile(r) /\ ~Alive(r)
      BY <2>3 DEF Exit, MonitorsGathered, ProcInv, OwnAlive
    <3>2. QED
      BY <2>3, <3>1 DEF Exit, LoseMemory
  <2>4. CASE Crash
    BY <2>4 DEF Crash, LoseMemory
  <2>5. QED
    BY <1>7, <2>1, <2>2, <2>3, <2>4 DEF SessionStep
<1>8. CASE UNCHANGED vars
  BY <1>8 DEF vars
<1>9. QED
  BY <1>1, <1>2, <1>3, <1>4, <1>5, <1>6, <1>7, <1>8
     DEF Next, CancelRound, ShutdownCancels

\* The two invariants hold together.
LEMMA Working == ASSUME Monitored PROVE Spec => [](IInv /\ OwnedInv /\ WorkInv)
<1>1. Init => OwnedInv /\ WorkInv
  BY DEF Init, OwnedInv, WorkInv, WorkerFilesHaveOwner, HasFile
<1>2. IInv /\ OwnedInv /\ [Next]_vars => OwnedInv'
  BY OwnedStep DEF Monitored
<1>3. IInv /\ OwnedInv /\ WorkInv /\ [Next]_vars => WorkInv'
  BY WorkStep
<1>4. QED
  BY <1>1, <1>2, <1>3, Inductive, PTL DEF Spec

\* Without a kill no file of a worker is left that nobody will remove.
THEOREM WorkerFilesHaveOwnerAlways ==
  ASSUME Monitored PROVE Spec => []WorkerFilesHaveOwner
<1>1. WorkInv => WorkerFilesHaveOwner
  BY DEF WorkInv
<1>2. QED
  BY <1>1, Working, PTL

\* The answer to a cancel request comes when the round has been settled, also
\* for a call that outlives its job and its project.
THEOREM AnsweredCancelIsSettledAlways ==
  ASSUME Monitored PROVE Spec => AnsweredCancelIsSettled
<1>1. IInv /\ OwnedInv /\ WorkInv /\ [Next]_vars =>
        [\A c \in Callers :
           cancelPc[c] # "idle" /\ cancelPc'[c] = "idle" /\ sidecar' # "down" =>
             status'[cancelOf[c]] \in Settled]_vars
  <2> SUFFICES ASSUME IInv, WorkInv, Next, NEW d \in Callers,
                      cancelPc[d] # "idle", cancelPc'[d] = "idle",
                      sidecar' # "down"
               PROVE  status'[cancelOf[d]] \in Settled
    OBVIOUS
  <2> USE DEF IInv, TypeOK, calls
  <2>1. CancelReturns(d)
    <3>1. ASSUME NEW r \in Rounds, StartStep(r) \/ SolverStep(r)
          PROVE  FALSE
      BY <3>1 DEF StartStep, StartRound, Compile, RejectInput, InputRejected,
         PreparationFails, WriteRequest, StartAborts, SpawnAndMonitor,
         SpawnUnmonitored, Spawn, SpawnFails, SolverStep, SolverPublishes,
         SolverExits, SolverDies
    <3>2. ASSUME NEW r \in Rounds, MonitorStep(r) \/ RecoverRound(r)
          PROVE  FALSE
      BY <3>2 DEF MonitorStep, MonitorSeesCancel, MonitorSeesFailure,
         MonitorValidates, PersistCandidate, FinishInfeasible,
         InfeasibleFinished, FinalizeFails, RecoverRound
    <3>3. ASSUME NEW c \in Callers, NEW r \in Rounds, BeginCancel(c, r)
          PROVE  FALSE
      BY <3>3 DEF BeginCancel, CancelTerminates, CancelsEnded, SettleCancel
    <3>4. ASSUME NEW c \in Callers, WaitStep(c) PROVE CancelReturns(d)
      BY <3>4 DEF WaitStep, TerminateTimesOut, CancelReturns, SettleCancel
    <3>5. ~SessionStep
      BY DEF SessionStep, OpenProject, RecoveryDone, ReopenCurrent,
         CloseProject, BeginShutdown, Exit, Crash, Restart, LoseMemory
    <3>6. QED
      BY <3>1, <3>2, <3>3, <3>4, <3>5 DEF Next, CancelRound, ShutdownCancels
  <2>2. cancelOf[d] \in Rounds /\ status[cancelOf[d]] # "absent"
    BY DEF WorkInv
  <2>3. CASE d \in detached
    BY <2>1, <2>3 DEF CancelReturns, SettleCancel, WorkInv
  <2>4. CASE d \notin detached
    BY <2>1, <2>2, <2>4 DEF CancelReturns, SettleCancel, MarkCancelled,
       Marked, SettledAs, Monitored, Guarded
  <2>5. QED
    BY <2>3, <2>4
<1>2. QED
  BY <1>1, Working, PTL DEF Spec, AnsweredCancelIsSettled

\* After an orderly shutdown no solver of the sidecar runs and no round of the
\* open project is left to be recovered.
THEOREM ExitLeavesNothingAlways ==
  ASSUME Monitored PROVE Spec => ExitLeavesNothing
<1>1. IInv /\ OwnedInv /\ WorkInv /\ [Next]_vars =>
        [sidecar = "stopping" /\ sidecar' = "down" /\ crashes' = crashes =>
           /\ isOpen => \A r \in Rounds : status[r] \notin InProgress
           /\ \A r \in Rounds : ~OwnAlive(r)]_vars
  <2> SUFFICES ASSUME IInv, OwnedInv, WorkInv, Next,
                      sidecar = "stopping", sidecar' = "down",
                      crashes' = crashes
               PROVE  /\ isOpen => \A r \in Rounds : status[r] \notin InProgress
                      /\ \A r \in Rounds : ~OwnAlive(r)
    OBVIOUS
  <2>1. Exit
    <3> USE DEF session
    <3>1. ASSUME NEW r \in Rounds, StartStep(r) \/ SolverStep(r)
          PROVE  FALSE
      BY <3>1 DEF StartStep, StartRound, Compile, RejectInput, InputRejected,
         PreparationFails, WriteRequest, StartAborts, SpawnAndMonitor,
         SpawnUnmonitored, Spawn, SpawnFails, SolverStep, SolverPublishes,
         SolverExits, SolverDies
    <3>2. ASSUME NEW r \in Rounds, MonitorStep(r) \/ RecoverRound(r)
          PROVE  FALSE
      BY <3>2 DEF MonitorStep, MonitorSeesCancel, MonitorSeesFailure,
         MonitorValidates, PersistCandidate, FinishInfeasible,
         InfeasibleFinished, FinalizeFails, RecoverRound
    <3>3. ASSUME NEW c \in Callers, NEW r \in Rounds,
                 BeginCancel(c, r) \/ WaitStep(c)
          PROVE  FALSE
      BY <3>3 DEF BeginCancel, WaitStep, TerminateTimesOut, CancelReturns
    <3>4. ASSUME NEW c \in Callers, WaitStep(c) PROVE FALSE
      BY <3>4 DEF WaitStep, TerminateTimesOut, CancelReturns
    <3>5. CASE SessionStep
      <4>1. ~Crash
        BY CrashesAssumption DEF Crash, IInv, TypeOK
      <4>2. QED
        BY <3>5, <4>1 DEF SessionStep, OpenProject, RecoveryDone,
           ReopenCurrent, CloseProject, BeginShutdown, Restart
    <3>6. QED
      BY <3>1, <3>2, <3>3, <3>4, <3>5 DEF Next, CancelRound, ShutdownCancels
  <2>2. jobs = {} /\ loop = "idle" /\ subject = NoRound
    BY <2>1 DEF Exit, MonitorsGathered, WorkInv, IInv, LoopInv
  <2>3. QED
    BY <2>2, NoRoundAssumption DEF OwnedInv, IInv, ProcInv
<1>2. QED
  BY <1>1, Working, PTL DEF Spec, ExitLeavesNothing
=============================================================================
