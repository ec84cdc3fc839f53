--------------------------- MODULE SidecarManager ---------------------------
(***************************************************************************)
(* The processes of the sidecar and the commands of the desktop shell that *)
(* start and stop them (apps/desktop/src-tauri/src/lib.rs).                *)
(*                                                                         *)
(* A packaged sidecar is two processes: the launcher, which is the child   *)
(* of the shell, and the worker it starts, which serves the requests. Both *)
(* outlive a killed parent. start_sidecar holds the mutex from its first   *)
(* line to its last; stop_sidecar takes it twice, with two requests to the *)
(* sidecar in between. `call' is where the command of a task is.           *)
(***************************************************************************)
EXTENDS AccessGate

CONSTANTS
  Tasks,      \* the tasks of the user interface that call the commands
  NoTask,
  Paths,      \* workspace directories
  Faults,     \* what may go wrong in this instance
  MaxStarts,  \* bound: sidecars started
  MaxEnds     \* bound: launchers, workers and shells that are ended or killed

FaultKinds ==
  {"ready",   \* no valid first line in time
   "round",   \* a round is running, and the project is not closed
   "request"} \* a request is not answered in time

Sidecars == 1 .. MaxStarts

ASSUME TaskAssumption == NoTask \notin Tasks
ASSUME FaultsAssumption == Faults \subseteq FaultKinds
ASSUME StartsAssumption == {MaxStarts, MaxEnds} \subseteq Nat /\ None \notin Sidecars

VARIABLES
  runtime,    \* SidecarManager.runtime
  mutex,      \* the task that holds it while it waits
  spawned,    \* how many sidecars were started
  directory,  \* STT_WORKSPACE_PATH of each
  launchers,  \* those whose launcher runs
  worker,     \* the worker of each
  call,
  ends

shell == <<runtime, mutex, spawned, directory, launchers, worker, call, ends>>

\* "abandoned" is history: the start ended with an error, or the shell was killed.
WorkerStates == {"none", "serves", "asked to exit", "abandoned"}

NoCall       == [at |-> "none"]
Failure      == [at |-> "failed"]
Stopping     == [at |-> "stop"]
Starting(p)  == [at |-> "start", path |-> p]
Doing(at, s) == [at |-> at, sidecar |-> s]
Answer(s)    == Doing("answered", s)

CallStates ==
  {NoCall, Failure, Stopping} \cup {Starting(p) : p \in Paths}
    \cup [at : {"answered", "awaiting", "closing", "asking", "asked", "dropping"},
          sidecar : Sidecars \cup {None}]

SidecarTypeOK ==
  /\ runtime \in Sidecars \cup {None}
  /\ mutex \in Tasks \cup {NoTask}
  /\ spawned \in 0 .. MaxStarts
  /\ directory \in [Sidecars -> Paths \cup {None}]
  /\ launchers \subseteq Sidecars
  /\ worker \in [Sidecars -> WorkerStates]
  /\ call \in [Tasks -> CallStates]
  /\ ends \in 0 .. MaxEnds

SidecarInit ==
  /\ runtime = None /\ mutex = NoTask /\ spawned = 0
  /\ directory = [s \in Sidecars |-> None]
  /\ launchers = {}
  /\ worker = [s \in Sidecars |-> "none"]
  /\ call = [t \in Tasks |-> NoCall]
  /\ ends = 0

-----------------------------------------------------------------------------
At(t, point) == call[t].at = point

Becomes(t, c) == call' = [call EXCEPT ![t] = c]

MutexFree == mutex = NoTask

Alive(s) == worker[s] # "none"

\* The child of the runtime has not exited.
Running == runtime \in launchers

\* The worker of s, if it lives, is in another state; None has no worker.
WorkerBecomes(s, state) ==
  worker' = [w \in Sidecars |-> IF w = s /\ Alive(w) THEN state ELSE worker[w]]

\* Mutant: a launcher that has exited is taken for a sidecar that has.
WorkerKilled_ByLauncher(s) ==
  IF s \in launchers THEN WorkerBecomes(s, "none") ELSE UNCHANGED worker

\* shutdown_and_wait, which every drop of a runtime ends in: whether the launcher
\* exited or not, the worker is killed.
WorkerKilled(s) == WorkerBecomes(s, "none")

-----------------------------------------------------------------------------
(* start_sidecar                                                           *)

StartReturnsRunning(t) ==
  /\ At(t, "start") /\ MutexFree /\ Running
  /\ Becomes(t, Answer(runtime))
  /\ UNCHANGED <<gateVars, runtime, mutex, spawned, directory, launchers, worker, ends>>

\* ensure_sidecar_allowed says no (bound: or the sidecars are used up); a dead
\* runtime has been dropped before.
StartRefused(t) ==
  /\ At(t, "start") /\ MutexFree /\ ~Running
  /\ ~LicenseActive \/ spawned = MaxStarts
  /\ CheckLicense
  /\ runtime' = None /\ WorkerKilled(runtime)
  /\ Becomes(t, Failure)
  /\ UNCHANGED <<time, mutex, spawned, directory, launchers, ends>>

StartSpawns(t) ==
  /\ At(t, "start") /\ MutexFree /\ ~Running
  /\ LicenseActive /\ CheckLicense
  /\ spawned < MaxStarts /\ spawned' = spawned + 1
  /\ runtime' = None
  /\ launchers' = launchers \cup {spawned'}
  /\ worker' = [s \in Sidecars |-> IF s = runtime THEN "none"
                                   ELSE IF s = spawned' THEN "serves" ELSE worker[s]]
  /\ directory' = [directory EXCEPT ![spawned'] = call[t].path]
  /\ mutex' = t
  /\ Becomes(t, Doing("awaiting", spawned'))
  /\ UNCHANGED <<time, ends>>

StartReady(t) ==
  /\ At(t, "awaiting")
  /\ LET s == call[t].sidecar IN
       /\ s \in launchers /\ Alive(s)
       /\ runtime' = s
       /\ Becomes(t, Answer(s))
  /\ mutex' = NoTask
  /\ UNCHANGED <<gateVars, spawned, directory, launchers, worker, ends>>

\* The launcher is killed, or, where a line of the wrong format is turned into an
\* error by `?', it is not; the worker never is.
StartFails(t) ==
  /\ At(t, "awaiting")
  /\ LET s == call[t].sidecar IN
       /\ "ready" \in Faults \/ s \notin launchers \/ ~Alive(s)
       /\ launchers' \in {launchers, launchers \ {s}}
       /\ WorkerBecomes(s, "abandoned")
  /\ mutex' = NoTask
  /\ Becomes(t, Failure)
  /\ UNCHANGED <<gateVars, runtime, spawned, directory, ends>>

-----------------------------------------------------------------------------
(* stop_sidecar                                                            *)

StopReadsRuntime(t) ==
  /\ At(t, "stop") /\ MutexFree
  /\ Becomes(t, IF runtime = None THEN Answer(None) ELSE Doing("closing", runtime))
  /\ UNCHANGED <<gateVars, runtime, mutex, spawned, directory, launchers, worker, ends>>

\* POST /v1/projects/current/close
StopCloses(t) ==
  /\ At(t, "closing") /\ Alive(call[t].sidecar)
  /\ Becomes(t, Doing("asking", call[t].sidecar))
  /\ UNCHANGED <<gateVars, runtime, mutex, spawned, directory, launchers, worker, ends>>

\* POST /v1/runtime/shutdown
StopAsks(t) ==
  /\ At(t, "asking") /\ Alive(call[t].sidecar)
  /\ WorkerBecomes(call[t].sidecar, "asked to exit")
  /\ Becomes(t, Doing("asked", call[t].sidecar))
  /\ UNCHANGED <<gateVars, runtime, mutex, spawned, directory, launchers, ends>>

\* Nobody listens, or the answer does not come within three seconds.
Unanswered(s) == ~Alive(s) \/ "request" \in Faults

StopRefused(t) ==
  /\ At(t, "closing")
  /\ "round" \in Faults \/ Unanswered(call[t].sidecar)
  /\ Becomes(t, Failure)
  /\ UNCHANGED <<gateVars, runtime, mutex, spawned, directory, launchers, worker, ends>>

\* The request may have arrived all the same.
StopAskFails(t) ==
  /\ At(t, "asking") /\ Unanswered(call[t].sidecar)
  /\ WorkerBecomes(call[t].sidecar, "asked to exit") \/ UNCHANGED worker
  /\ Becomes(t, Failure)
  /\ UNCHANGED <<gateVars, runtime, mutex, spawned, directory, launchers, ends>>

\* The runtime that is there now, not the one that was asked; its drop begins by
\* asking it as well, and no longer holds the mutex.
StopTakes(t) ==
  /\ At(t, "asked") /\ MutexFree
  /\ runtime' = None
  /\ WorkerBecomes(runtime, "asked to exit")
  /\ Becomes(t, Doing("dropping", runtime))
  /\ UNCHANGED <<gateVars, mutex, spawned, directory, launchers, ends>>

StopDrops(t) ==
  /\ At(t, "dropping")
  /\ launchers' = launchers \ {call[t].sidecar}
  /\ WorkerKilled(call[t].sidecar)
  /\ Becomes(t, Answer(None))
  /\ UNCHANGED <<gateVars, runtime, mutex, spawned, directory, ends>>

-----------------------------------------------------------------------------
(* The sidecar, and the end of the shell.                                  *)

WorkerExits(s) ==
  /\ worker[s] = "asked to exit"
  /\ WorkerBecomes(s, "none")
  /\ UNCHANGED <<gateVars, runtime, mutex, spawned, directory, launchers, call, ends>>

LauncherExits(s) ==
  /\ s \in launchers /\ ~Alive(s)
  /\ launchers' = launchers \ {s}
  /\ UNCHANGED <<gateVars, runtime, mutex, spawned, directory, worker, call, ends>>

Dies(s) ==
  /\ ends < MaxEnds /\ ends' = ends + 1
  /\ \/ s \in launchers /\ launchers' = launchers \ {s} /\ UNCHANGED worker
     \/ Alive(s) /\ WorkerBecomes(s, "none") /\ UNCHANGED launchers
  /\ UNCHANGED <<gateVars, runtime, mutex, spawned, directory, call>>

\* terminate_managed_sidecar. Commands that wait for an answer end with the shell;
\* start_sidecar occupies the thread that would handle the event.
Exit ==
  /\ ends < MaxEnds /\ ends' = ends + 1
  /\ MutexFree
  /\ launchers' = launchers \ {runtime}
  /\ WorkerKilled(runtime)
  /\ runtime' = None
  /\ call' = [t \in Tasks |-> NoCall]
  /\ UNCHANGED <<gateVars, mutex, spawned, directory>>

\* The shell is killed: no process of a sidecar watches its parent.
ShellDies ==
  /\ ends < MaxEnds /\ ends' = ends + 1
  /\ worker' = [s \in Sidecars |-> IF worker[s] = "serves" THEN "abandoned" ELSE worker[s]]
  /\ runtime' = None /\ mutex' = NoTask
  /\ call' = [t \in Tasks |-> NoCall]
  /\ UNCHANGED <<gateVars, spawned, directory, launchers>>

CommandStep(t) ==
  \/ StartReturnsRunning(t) \/ StartRefused(t) \/ StartSpawns(t)
  \/ StartReady(t) \/ StartFails(t)
  \/ StopReadsRuntime(t) \/ StopCloses(t) \/ StopRefused(t) \/ StopAsks(t) \/ StopAskFails(t)
  \/ StopTakes(t) \/ StopDrops(t)

ProcessStep == \E s \in Sidecars : WorkerExits(s) \/ LauncherExits(s) \/ Dies(s)

-----------------------------------------------------------------------------
\* The workers that nobody asked to exit.
Serving == {s \in Sidecars : worker[s] = "serves"}

\* A worker that nobody asked to exit is the one of the runtime or of the start in
\* progress, and the only one: through stops and starts that overlap, launchers
\* that die before their workers, and ends of the shell. Only a start that ended
\* with an error and a shell that was killed leave a worker to itself.
OneOwnedSidecar ==
  /\ \A s \in Serving : s = runtime \/ \E t \in Tasks : call[t] = Doing("awaiting", s)
  /\ \A s, q \in Serving : s = q
=============================================================================
