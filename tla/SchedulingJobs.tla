--------------------------- MODULE SchedulingJobs ---------------------------
(***************************************************************************)
(* Automatic scheduling rounds: SchedulingJobManager                       *)
(* (sidecar/stt_desktop/scheduling/jobs.py), the part of SchedulingService *)
(* that moves a round from status to status (scheduling/service.py), and   *)
(* the API handlers that start and cancel rounds and open, close and shut  *)
(* down the project (api/app.py).                                          *)
(*                                                                         *)
(* The sidecar is one asyncio event loop. A handler runs without           *)
(* interruption between two awaits, so the only interleavings inside the   *)
(* sidecar are at the thread joins of cancel_round, _monitor and shutdown. *)
(* The solver is another operating-system process, and the sidecar may be  *)
(* killed between any two statements it has committed. A handler with      *)
(* several committed statements is therefore cut into steps: `loop' says   *)
(* where the event loop is, and no other step of the sidecar is enabled    *)
(* until it is "idle" again, but the solver, a crash and the user's next   *)
(* start of the program are.                                               *)
(*                                                                         *)
(* One project is modelled. "Closed" stands for no project being open or   *)
(* for another project being open.                                         *)
(***************************************************************************)
EXTENDS Naturals, FiniteSets

CONSTANTS
  Rounds,       \* round identifiers; uuid7 gives every started round a new one
  NoRound,      \* no round
  Clients,      \* cancel requests that can be in flight together
  Lifespan,     \* the cancel_round calls made by shutdown()
  Faults,       \* the operations that may raise in this instance
  MaxCrashes    \* bound: how often the sidecar is killed

FaultKinds ==
  {"prepare",   \* snapshot, compilation or warm start raises
   "unguarded", \* a statement of a start outside its try blocks raises
   "spawn",     \* process.start() raises
   "event",     \* recording solver_worker_started raises
   "finalize",  \* validating or persisting the result raises
   "mark"}      \* the statement of mark_failed or mark_cancelled raises

ASSUME NoRoundAssumption   == NoRound \notin Rounds
ASSUME LifespanAssumption  == Lifespan \notin Clients
ASSUME FaultsAssumption    == Faults \subseteq FaultKinds
ASSUME CrashesAssumption   == MaxCrashes \in Nat

Callers == Clients \cup {Lifespan}

VARIABLES
  \* the project directory, which survives a crash
  status,       \* scheduling_rounds.status, "absent" before the INSERT
  candidates,   \* rounds with a row in candidates and its timetable entries
  request,      \* rounds whose .<id>-worker.json request file exists
  result,       \* the envelope in the result file, "none" without a file
  \* operating-system processes
  proc,         \* the solver process of a round
  signal,       \* the strongest signal sent to it
  orphans,      \* solvers whose sidecar died before them
  \* the memory of the sidecar
  jobs,         \* keys of SchedulingJobManager._jobs
  cancelling,   \* jobs with cancel_requested
  monitors,     \* jobs whose _monitor task has not finished
  cancelPc,     \* where each cancel_round call waits
  cancelOf,     \* the round it cancels
  detached,     \* the calls whose job.project has been closed meanwhile
  loop,         \* the point the event loop has reached, "idle" between handlers
  subject,      \* the round it is working on
  isOpen,       \* the project is state.current_project
  sidecar,      \* "up", "stopping" (lifespan shutdown) or "down"
  \* history
  opened,       \* the last answer of the open handler was success, and no
                \* round has been started since
  crashes

db      == <<status, candidates>>
files   == <<request, result>>
os      == <<proc, signal, orphans>>
table   == <<jobs, cancelling, monitors>>
calls   == <<cancelPc, cancelOf, detached>>
session == <<isOpen, sidecar, opened, crashes>>
control == <<loop, subject>>
vars    == <<db, files, os, table, calls, control, session>>

InProgress == {"preparing", "solving", "validating"}
Settled    == {"succeeded", "infeasible", "cancelled", "failed_recoverable"}
Statuses   == {"absent"} \cup InProgress \cup Settled
Envelopes  == {"feasible",    \* a complete schedule that passes validation
               "rejected",    \* complete, but validation finds hard issues
               "infeasible",  \* no complete schedule
               "error"}       \* ok = false

Alive(r)    == proc[r] \in {"running", "published"}
OwnAlive(r) == Alive(r) /\ r \notin orphans
Idle        == sidecar = "up" /\ loop = "idle"
Resumable   == sidecar \in {"up", "stopping"} /\ loop = "idle"

TypeOK ==
  /\ status \in [Rounds -> Statuses]
  /\ candidates \subseteq Rounds
  /\ request \subseteq Rounds
  /\ result \in [Rounds -> Envelopes \cup {"none"}]
  /\ proc \in [Rounds -> {"none", "running", "published", "exited", "died"}]
  /\ signal \in [Rounds -> {"none", "term", "kill"}]
  /\ orphans \subseteq Rounds
  /\ jobs \subseteq Rounds
  /\ cancelling \subseteq jobs
  /\ monitors \subseteq jobs
  /\ cancelPc \in [Callers -> {"idle", "terminating", "killing"}]
  /\ cancelOf \in [Callers -> Rounds \cup {NoRound}]
  /\ \A c \in Callers : cancelPc[c] # "idle" => cancelOf[c] \in Rounds
  /\ detached \subseteq Callers
  /\ loop \in {"idle", "preparing", "compiled", "spawning", "finalizing",
               "recovering"}
  /\ subject \in Rounds \cup {NoRound}
  /\ isOpen \in BOOLEAN
  /\ sidecar \in {"up", "stopping", "down"}
  /\ opened \in BOOLEAN
  /\ crashes \in 0..MaxCrashes

Init ==
  /\ status = [r \in Rounds |-> "absent"]
  /\ candidates = {}
  /\ request = {}
  /\ result = [r \in Rounds |-> "none"]
  /\ proc = [r \in Rounds |-> "none"]
  /\ signal = [r \in Rounds |-> "none"]
  /\ orphans = {}
  /\ jobs = {} /\ cancelling = {} /\ monitors = {}
  /\ cancelPc = [c \in Callers |-> "idle"]
  /\ cancelOf = [c \in Callers |-> NoRound]
  /\ detached = {}
  /\ loop = "idle" /\ subject = NoRound
  /\ isOpen = FALSE
  /\ sidecar = "up"
  /\ opened = FALSE
  /\ crashes = 0

-----------------------------------------------------------------------------
(* Operations of SchedulingService and of the manager that the handlers    *)
(* below share.                                                            *)

\* Mutant: the statement does not look at the present status.
SettledAs_Overwrites(r, outcome) == [status EXCEPT ![r] = outcome]

\* The status after the statement that settles an unsettled round.
SettledAs(r, outcome) ==
  IF status[r] \in InProgress THEN [status EXCEPT ![r] = outcome] ELSE status

\* The values status may have after mark_failed / mark_cancelled, which leave
\* a settled round alone; the statement itself may raise.
Marked(r, outcome) ==
  {SettledAs(r, outcome)} \cup (IF "mark" \in Faults THEN {status} ELSE {})

\* Mutants: the round is left as it is.
MarkFailed_Skipped(r) == UNCHANGED status
MarkCancelled_Skipped(r) == UNCHANGED status

MarkFailed(r) == status' \in Marked(r, "failed_recoverable")
MarkCancelled(r) == status' \in Marked(r, "cancelled")

\* Mutant: the job table is not consulted.
NoActiveJob_Unchecked == TRUE

\* has_active_job and the first check of start_round
NoActiveJob == jobs = {}

At(point, r) == loop = point /\ subject = r

GoTo(point, r) == loop' = point /\ subject' = r

Return == GoTo("idle", NoRound)

\* Mutant: only the request file is deleted.
CleanupFiles_KeepsResult(r) == request' = request \ {r} /\ UNCHANGED result

\* _cleanup_files
CleanupFiles(r) ==
  /\ request' = request \ {r}
  /\ result' = [result EXCEPT ![r] = "none"]

\* The finally block of _monitor.
PopJob(r) ==
  /\ jobs' = jobs \ {r} /\ cancelling' = cancelling \ {r}
  /\ monitors' = monitors \ {r}
  /\ CleanupFiles(r)

-----------------------------------------------------------------------------
(* POST /v1/scheduling/rounds: start_round and prepare_round.              *)

\* The INSERT of the round; every earlier check refuses with no change.
StartRound(r) ==
  /\ Idle /\ isOpen
  /\ NoActiveJob
  /\ status[r] = "absent"
  /\ status' = [status EXCEPT ![r] = "preparing"]
  /\ GoTo("preparing", r)
  /\ opened' = FALSE
  /\ UNCHANGED <<candidates, files, os, table, calls, isOpen, sidecar, crashes>>

\* The snapshot and the Problem XML are written, the round is solving.
Compile(r) ==
  /\ At("preparing", r)
  /\ status' = [status EXCEPT ![r] = "solving"]
  /\ GoTo("compiled", r)
  /\ UNCHANGED <<candidates, files, os, table, calls, session>>

\* The compiler reported errors: the round ends without a solver.
RejectInput(r) ==
  /\ At("compiled", r) /\ status[r] = "solving"
  /\ status' = [status EXCEPT ![r] = "infeasible"]
  /\ UNCHANGED <<candidates, files, os, table, calls, control, session>>

InputRejected(r) ==
  /\ At("compiled", r) /\ status[r] = "infeasible"
  /\ Return
  /\ UNCHANGED <<db, files, os, table, calls, session>>

\* Also when only the event after "infeasible" could not be recorded.
PreparationFails(r) ==
  /\ "prepare" \in Faults
  /\ At("preparing", r) \/ At("compiled", r)
  /\ MarkFailed(r)
  /\ Return
  /\ UNCHANGED <<candidates, files, os, table, calls, session>>

WriteRequest(r) ==
  /\ At("compiled", r) /\ status[r] = "solving"
  /\ request' = request \cup {r}
  /\ GoTo("spawning", r)
  /\ UNCHANGED <<db, result, os, table, calls, session>>

\* The round_preparing event, _write_json and the Process constructor are in no
\* try block: the handler fails and nothing marks the round.
StartAborts(r) ==
  /\ "unguarded" \in Faults
  /\ loop \in {"preparing", "compiled", "spawning"} /\ subject = r
  /\ status[r] \in InProgress
  /\ Return
  /\ UNCHANGED <<db, files, os, table, calls, session>>

Spawn(r) ==
  /\ At("spawning", r)
  /\ proc' = [proc EXCEPT ![r] = "running"]
  /\ jobs' = jobs \cup {r}
  /\ Return
  /\ UNCHANGED <<db, files, signal, orphans, cancelling, calls, session>>

SpawnAndMonitor(r) == Spawn(r) /\ monitors' = monitors \cup {r}

\* record_event raises after the process was started: the job stays in the
\* table and no monitor task is ever created for it.
SpawnUnmonitored(r) ==
  /\ "event" \in Faults
  /\ Spawn(r)
  /\ UNCHANGED monitors

SpawnFails(r) ==
  /\ "spawn" \in Faults
  /\ At("spawning", r)
  /\ CleanupFiles(r)
  /\ MarkFailed(r)
  /\ Return
  /\ UNCHANGED <<candidates, os, table, calls, session>>

-----------------------------------------------------------------------------
(* The solver process: _solver_worker.                                     *)

\* os.replace makes the envelope visible in one step, before the exit.
SolverPublishes(r) ==
  /\ proc[r] = "running"
  /\ \E envelope \in Envelopes : result' = [result EXCEPT ![r] = envelope]
  /\ proc' = [proc EXCEPT ![r] = "published"]
  /\ UNCHANGED <<db, request, signal, orphans, table, calls, control, session>>

SolverExits(r) ==
  /\ proc[r] = "published"
  /\ proc' = [proc EXCEPT ![r] = "exited"]
  /\ UNCHANGED <<db, files, signal, orphans, table, calls, control, session>>

\* A signal, the operating system or a failing write ends the process with a
\* non-zero exit code, before or after it published.
SolverDies(r) ==
  /\ Alive(r)
  /\ proc' = [proc EXCEPT ![r] = "died"]
  /\ UNCHANGED <<db, files, signal, orphans, table, calls, control, session>>

-----------------------------------------------------------------------------
(* _monitor, resumed when its join has returned, and complete_round.       *)

MonitorWakes(r) == Resumable /\ r \in monitors /\ ~Alive(r)

\* Mutant: cancel_requested is not looked at.
SeesCancel_Never(r) == FALSE

SeesCancel(r) == r \in cancelling

MonitorSeesCancel(r) ==
  /\ MonitorWakes(r) /\ SeesCancel(r)
  /\ MarkCancelled(r)
  /\ PopJob(r)
  /\ UNCHANGED <<candidates, os, calls, control, session>>

UsableResult(r) ==
  /\ proc[r] = "exited"
  /\ result[r] \in Envelopes \ {"error"}
  /\ status[r] = "solving"

MonitorSeesFailure(r) ==
  /\ MonitorWakes(r) /\ ~SeesCancel(r) /\ ~UsableResult(r)
  /\ MarkFailed(r)
  /\ PopJob(r)
  /\ UNCHANGED <<candidates, os, calls, control, session>>

\* complete_round commits "validating" before it looks at the result.
MonitorValidates(r) ==
  /\ MonitorWakes(r) /\ ~SeesCancel(r) /\ UsableResult(r)
  /\ status' = [status EXCEPT ![r] = "validating"]
  /\ GoTo("finalizing", r)
  /\ UNCHANGED <<candidates, files, os, table, calls, session>>

\* Mutant: the candidate is rolled back but the round is not.
CommitCandidate_RowsLost(r) ==
  status' = [status EXCEPT ![r] = "succeeded"] /\ UNCHANGED candidates

\* One transaction makes the candidate and "succeeded" visible together.
CommitCandidate(r) ==
  /\ status' = [status EXCEPT ![r] = "succeeded"]
  /\ candidates' = candidates \cup {r}

PersistCandidate(r) ==
  /\ At("finalizing", r) /\ status[r] = "validating"
  /\ result[r] = "feasible"
  /\ CommitCandidate(r)
  /\ PopJob(r)
  /\ Return
  /\ UNCHANGED <<os, calls, session>>

FinishInfeasible(r) ==
  /\ At("finalizing", r) /\ status[r] = "validating"
  /\ result[r] \in {"rejected", "infeasible"}
  /\ status' = [status EXCEPT ![r] = "infeasible"]
  /\ UNCHANGED <<candidates, files, os, table, calls, control, session>>

InfeasibleFinished(r) ==
  /\ At("finalizing", r) /\ status[r] = "infeasible"
  /\ PopJob(r)
  /\ Return
  /\ UNCHANGED <<db, os, calls, session>>

\* A statement raises, the last one after "infeasible" has been committed.
FinalizeFails(r) ==
  /\ "finalize" \in Faults
  /\ At("finalizing", r)
  /\ MarkFailed(r)
  /\ PopJob(r)
  /\ Return
  /\ UNCHANGED <<candidates, os, calls, session>>

-----------------------------------------------------------------------------
(* POST /v1/scheduling/rounds/{id}/cancel and the calls of shutdown():     *)
(* cancel_round.                                                           *)

\* The tail of cancel_round. A call whose project was closed while it waited
\* raises at get_round.
SettleCancel(c, r) ==
  /\ IF c \in detached THEN UNCHANGED status ELSE MarkCancelled(r)
  /\ cancelPc' = [cancelPc EXCEPT ![c] = "idle"]
  /\ cancelOf' = [cancelOf EXCEPT ![c] = NoRound]
  /\ detached' = detached \ {c}

\* The call finds the process alive, sends SIGTERM and awaits join(5).
CancelTerminates(c, r) ==
  /\ OwnAlive(r)
  /\ signal' = [signal EXCEPT ![r] = IF @ = "kill" THEN @ ELSE "term"]
  /\ cancelPc' = [cancelPc EXCEPT ![c] = "terminating"]
  /\ cancelOf' = [cancelOf EXCEPT ![c] = r]
  /\ UNCHANGED <<status, detached>>

\* The process has ended already: no await before the status is written.
CancelsEnded(c, r) ==
  /\ ~Alive(r)
  /\ SettleCancel(c, r)
  /\ UNCHANGED signal

BeginCancel(c, r) ==
  /\ loop = "idle"
  /\ r \in jobs
  /\ cancelPc[c] = "idle"
  /\ CancelTerminates(c, r) \/ CancelsEnded(c, r)
  /\ cancelling' = cancelling \cup {r}
  /\ UNCHANGED <<candidates, files, proc, orphans, jobs, monitors, control,
                 session>>

CancelRound(c, r) == sidecar = "up" /\ isOpen /\ BeginCancel(c, r)

ShutdownCancels(r) == sidecar = "stopping" /\ BeginCancel(Lifespan, r)

\* Mutant: the second wait is entered without SIGKILL.
Kill_Skipped(r) == UNCHANGED signal

Kill(r) == signal' = [signal EXCEPT ![r] = "kill"]

\* Mutant: the first join has no time limit.
TerminateTimesOut_Never(c) == FALSE /\ UNCHANGED vars

\* join(5) returned with the process still alive.
TerminateTimesOut(c) ==
  /\ Resumable
  /\ cancelPc[c] = "terminating" /\ Alive(cancelOf[c])
  /\ Kill(cancelOf[c])
  /\ cancelPc' = [cancelPc EXCEPT ![c] = "killing"]
  /\ UNCHANGED <<db, files, proc, orphans, table, cancelOf, detached, control,
                 session>>

\* The process has ended, or join(1) after the kill ran out.
CancelReturns(c) ==
  /\ Resumable
  /\ \/ cancelPc[c] = "terminating" /\ ~Alive(cancelOf[c])
     \/ cancelPc[c] = "killing"
  /\ SettleCancel(c, cancelOf[c])
  /\ UNCHANGED <<candidates, files, os, table, control, session>>

-----------------------------------------------------------------------------
(* Opening, closing, shutting down, dying and starting again.              *)

OpenProject ==
  /\ Idle /\ ~isOpen
  /\ NoActiveJob
  /\ isOpen' = TRUE
  /\ GoTo("recovering", NoRound)
  /\ UNCHANGED <<db, files, os, table, calls, sidecar, opened, crashes>>

\* Mutant: the query forgets one of the statuses.
NeedsRecovery_MissesValidating(r) == status[r] \in {"preparing", "solving"}

\* The rows recover_interrupted_rounds selects.
NeedsRecovery(r) == status[r] \in InProgress

\* recover_interrupted_rounds, one committed row at a time. When a statement
\* raises, the handler fails but the project stays the current one.
RecoverRound(r) ==
  /\ loop = "recovering"
  /\ NeedsRecovery(r)
  /\ MarkFailed(r)
  /\ \/ status'[r] \in Settled /\ UNCHANGED control
     \/ "mark" \in Faults /\ Return
  /\ UNCHANGED <<candidates, files, os, table, calls, session>>

RecoveryDone ==
  /\ loop = "recovering"
  /\ \A r \in Rounds : ~NeedsRecovery(r)
  /\ Return
  /\ opened' = TRUE
  /\ UNCHANGED <<db, files, os, table, calls, isOpen, sidecar, crashes>>

\* The early return of open_project for the current project: no recovery.
ReopenCurrent ==
  /\ Idle /\ isOpen
  /\ NoActiveJob
  /\ opened' = TRUE
  /\ UNCHANGED <<db, files, os, table, calls, control, isOpen, sidecar,
                 crashes>>

\* close, create and the handlers that switch to another project.
CloseProject ==
  /\ Idle /\ isOpen
  /\ NoActiveJob
  /\ isOpen' = FALSE
  /\ opened' = FALSE
  /\ detached' = {c \in Callers : cancelPc[c] # "idle"}
  /\ UNCHANGED <<db, files, os, table, cancelPc, cancelOf, control, sidecar,
                 crashes>>

\* uvicorn answers the requests in flight before it runs the lifespan exit.
BeginShutdown ==
  /\ Idle
  /\ \A c \in Callers : cancelPc[c] = "idle"
  /\ sidecar' = "stopping"
  /\ UNCHANGED <<db, files, os, table, calls, control, isOpen, opened, crashes>>

\* The end of the process clears its memory and closes the project.
LoseMemory ==
  /\ jobs' = {} /\ cancelling' = {} /\ monitors' = {}
  /\ cancelPc' = [c \in Callers |-> "idle"]
  /\ cancelOf' = [c \in Callers |-> NoRound]
  /\ detached' = {}
  /\ Return
  /\ isOpen' = FALSE
  /\ opened' = FALSE
  /\ sidecar' = "down"

\* Mutant: the monitor tasks are not waited for.
MonitorsGathered_Assumed == TRUE

MonitorsGathered == monitors = {}

\* The end of lifespan: shutdown() has cancelled every job.
Exit ==
  /\ sidecar = "stopping" /\ loop = "idle"
  /\ cancelPc[Lifespan] = "idle"
  /\ jobs \subseteq cancelling /\ MonitorsGathered
  /\ LoseMemory
  /\ orphans' = orphans \cup {r \in Rounds : Alive(r)}
  /\ UNCHANGED <<db, files, proc, signal, crashes>>

Crash ==
  /\ sidecar # "down"
  /\ crashes < MaxCrashes
  /\ crashes' = crashes + 1
  /\ LoseMemory
  /\ orphans' = orphans \cup {r \in Rounds : Alive(r)}
  /\ UNCHANGED <<db, files, proc, signal>>

Restart ==
  /\ sidecar = "down"
  /\ sidecar' = "up"
  /\ UNCHANGED <<db, files, os, table, calls, control, isOpen, opened, crashes>>

-----------------------------------------------------------------------------

StartStep(r) ==
  \/ StartRound(r) \/ Compile(r)
  \/ RejectInput(r) \/ InputRejected(r) \/ PreparationFails(r)
  \/ WriteRequest(r) \/ StartAborts(r)
  \/ SpawnAndMonitor(r) \/ SpawnUnmonitored(r) \/ SpawnFails(r)

SolverStep(r) == SolverPublishes(r) \/ SolverExits(r) \/ SolverDies(r)

MonitorStep(r) ==
  \/ MonitorSeesCancel(r) \/ MonitorSeesFailure(r) \/ MonitorValidates(r)
  \/ PersistCandidate(r)
  \/ FinishInfeasible(r) \/ InfeasibleFinished(r) \/ FinalizeFails(r)

WaitStep(c) == TerminateTimesOut(c) \/ CancelReturns(c)

SessionStep ==
  \/ OpenProject \/ RecoveryDone \/ ReopenCurrent \/ CloseProject
  \/ BeginShutdown \/ Exit \/ Crash \/ Restart

Next ==
  \/ \E r \in Rounds : StartStep(r)
  \/ \E r \in Rounds : SolverStep(r)
  \/ \E r \in Rounds : MonitorStep(r)
  \/ \E c \in Clients, r \in Rounds : CancelRound(c, r)
  \/ \E r \in Rounds : ShutdownCancels(r)
  \/ \E c \in Callers : WaitStep(c)
  \/ \E r \in Rounds : RecoverRound(r)
  \/ SessionStep

Spec == Init /\ [][Next]_vars

-----------------------------------------------------------------------------
(* Safety.                                                                 *)

\* A candidate is visible exactly for the rounds that succeeded, whatever
\* cancellation, failed statement or crash happened on the way (the single
\* transaction of complete_round).
CandidateIffSucceeded == candidates = {r \in Rounds : status[r] = "succeeded"}

\* One sidecar never has two solver processes, not even while an earlier one
\* survives its cancellation: start_round looks at the job table, and a job
\* stays there until its process is gone.
OneSolver ==
  \A r, q \in Rounds : OwnAlive(r) /\ OwnAlive(q) => r = q

\* Every unsettled round of an open project belongs to the job in the table,
\* so it can be cancelled and something will settle it. False for the faults
\* "unguarded" and "mark", which leave a round nobody is responsible for.
UnsettledRoundHasJob ==
  isOpen /\ loop = "idle" =>
    \A r \in Rounds : status[r] \in InProgress => r \in jobs

\* The project object a monitor or a solver job refers to is never closed
\* under it: every handler that closes looks at the job table first.
JobsHoldProject == jobs # {} => isOpen

\* A round is only reported as cancelled once its solver is dead or has been
\* sent SIGKILL: SIGTERM alone never suffices (cancel_round, _monitor).
CancelledSolverIsKilled ==
  \A r \in Rounds :
    status[r] = "cancelled" /\ Alive(r) => signal[r] = "kill"

\* Unless the sidecar was killed, the request and result files of a worker
\* exist only while its round is being launched or has a job.
WorkerFilesHaveOwner ==
  crashes = 0 =>
    \A r \in Rounds :
      r \in request \/ result[r] # "none" => r \in jobs \cup {subject}

\* "Opening a project changes the rounds left preparing, solving or
\* validating to failed_recoverable": after a successful answer of the open
\* handler no such round is left (until one is started).
OpenedProjectIsRecovered ==
  opened => \A r \in Rounds : status[r] \notin InProgress

-----------------------------------------------------------------------------
(* Action properties.                                                      *)

\* No step, late result, second cancellation or recovery changes a round that
\* has been settled.
SettledStaysSettled ==
  [][\A r \in Rounds : status[r] \in Settled => status'[r] = status[r]]_vars

\* A candidate comes only from the feasible envelope of a solver that exited
\* normally, under the running sidecar, for a round nobody asked to cancel.
CandidateOnlyFromOwnSolver ==
  [][\A r \in candidates' \ candidates :
       /\ proc[r] = "exited" /\ r \notin orphans
       /\ result[r] = "feasible"
       /\ r \notin cancelling]_vars

\* When a cancel request is answered its round has been settled, even when
\* the monitor was faster and the project has been closed since.
AnsweredCancelIsSettled ==
  [][\A c \in Callers :
       cancelPc[c] # "idle" /\ cancelPc'[c] = "idle" /\ sidecar' # "down" =>
         status'[cancelOf[c]] \in Settled]_vars

\* An orderly shutdown leaves nothing to recover and no solver behind.
ExitLeavesNothing ==
  [][sidecar = "stopping" /\ sidecar' = "down" /\ crashes' = crashes =>
       /\ isOpen => \A r \in Rounds : status[r] \notin InProgress
       /\ \A r \in Rounds : ~OwnAlive(r)]_vars

-----------------------------------------------------------------------------
(* Liveness. The event loop runs every ready handler (its ready queue is    *)
(* first in, first out, hence strong fairness for a resumed call), the two  *)
(* joins of cancel_round time out, and SIGKILL ends a process.              *)

HandlerStep ==
  /\ loop # "idle"
  /\ \/ RecoveryDone
     \/ \E r \in Rounds : StartStep(r) \/ MonitorStep(r) \/ RecoverRound(r)

LoopFairness ==
  /\ WF_vars(HandlerStep)
  /\ \A r \in Rounds : WF_vars(MonitorStep(r)) /\ WF_vars(ShutdownCancels(r))
  /\ \A c \in Callers : SF_vars(WaitStep(c))
  /\ WF_vars(Exit)
  /\ \A r \in Rounds : WF_vars(signal[r] = "kill" /\ SolverDies(r))

\* No assumption that a solver ends by itself.
StubbornSpec == Spec /\ LoopFairness

\* A requested cancellation settles the round and frees the job table, so the
\* next round can be started, although the solver may ignore SIGTERM.
CancelFreesTable ==
  \A r \in Rounds :
    r \in cancelling ~> r \notin jobs /\ (status[r] \in Settled \/ ~isOpen)

\* A shutdown that has begun ends, although the solver may ignore SIGTERM.
ShutdownEnds == sidecar = "stopping" ~> sidecar = "down"

\* While its project stays open, an unsettled round is settled, if its solver
\* keeps its time budget (or is ended by a signal).
RoundIsSettled ==
  \A r \in Rounds :
    []<>~Alive(r) =>
      ((isOpen /\ status[r] \in InProgress)
         ~> status[r] \in Settled \/ ~isOpen)

-----------------------------------------------------------------------------
(* Refinement.                                                             *)

Lifecycle == INSTANCE RoundLifecycle WITH
  phase <- [r \in Rounds |->
              IF status[r] \in InProgress THEN "active" ELSE status[r]]

\* To the user a round is opened, one at a time, and settled once.
ImplementsLifecycle == Lifecycle!Spec
=============================================================================
