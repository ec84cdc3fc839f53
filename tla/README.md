# Verification of the Karios STT desktop

This directory holds TLA+ models of the school-timetabling desktop in `src/`: a Tauri shell
(`apps/desktop/src-tauri`, Rust) with a Vue interface, which runs a local Python service, the
*sidecar* (`sidecar/stt_desktop`), over HTTP. Every definition is translated from that source; the
`map` of `PROJECT.json` names the lines each one stands for. TLC checks the models on small
instances, TLAPS proves the theorems for every value of the constants.

## 1. Inventory

| Component | Source | State it keeps | Operations | Interacts with |
|---|---|---|---|---|
| Scheduling jobs | `scheduling/jobs.py`, `scheduling/service.py`, handlers of `api/app.py` | job table, `scheduling_rounds`, `candidates`, worker request/result files, one solver process | start, monitor, finalize, cancel, recover, shut down | storage (one transaction per row or per candidate), engines (in the solver process), project open/close |
| Project storage | `storage/project.py`, `storage/schema.py` | SQLite file with schema version and revision, `manifest.json`, `.stt.lock`, deletion marker | create, open (verify, migrate, repair), edit with an expected revision, close, delete | backups (before a migration), packages (copy what is on disk) |
| Backups | `backups/service.py` | `.sttbackup` archives, `backup_records` | create, prune, retain, verify, restore | storage, every destructive handler |
| Project packages | `project_archives.py` | staging directories, `.sttproj` archives | export, import, clone | storage, backups |
| Imports and exports | `transfers/importer.py`, `exporter.py` | `import_jobs`, `export_jobs`, result files | preview, remap, confirm, abandon, export | storage, backups (before an import) |
| Greedy engine | `scheduler_engine/cgcs.py` | pure: a schedule under construction | candidate actions, feasibility, greedy choice, repair, score | called in the solver process |
| CP-SAT engine | `scheduler_engine/cp_sat.py` | pure: a model for OR-Tools | candidate generation, buckets, warm start | called in the solver process |
| Timetable moves | `scheduling/timetable.py` | `candidates`, `timetable_entries` | validate a move, fork a candidate | storage, scheduling |
| Sidecar manager | `src-tauri/src/lib.rs` | the child process, its connection, the restart record | start, handshake, request, stop, exit | the sidecar, the access gate |
| Access gate | `src-tauri/src/access_gate.rs` | session and device key in the keyring, clock checkpoint, licence lease | sign in/up/out, refresh, activate, status | account and licence services (external) |
| User interface | `apps/desktop/src/App.vue`, `lib/sidecar.ts` | what it shows, two busy flags, the workspace setting | sign in/up/out, reset a password, activate, bootstrap, switch the workspace | commands of the shell |
| Updates, purchase, legacy import, installer | `app_updates.rs`, `purchase.rs`, `importers/`, `nsis/`, `scripts/` | none of their own that outlives a call | — | — |

What is hard here:

* **Interleaving.** The sidecar is one asyncio loop, but `cancel_round`, `_monitor` and `shutdown`
  wait for the solver process in threads, so they interleave with every other handler, and with the
  solver itself. The Tauri shell is multi-threaded and releases its mutexes around each `await`.
* **Crashes.** SQLite runs in autocommit: between two statements of a handler the program may be
  killed. `manifest.json` repeats facts of the database and is written after it.
* **Partial failure.** A statement that records an event, deletes a file or marks a failure can
  itself fail.
* **Several processes.** Two copies of the program may meet at one project directory.
* **Limits.** Ten automatic backups, one solver, two joins with time limits.

What makes each part correct, in one line:

* *Scheduling jobs*: a round is settled exactly once, has a candidate exactly if it succeeded, and is
  never left without somebody responsible for it.
* *Project storage*: one process inside at a time; an edit answered with an error is not stored a
  second time unseen; the manifest never runs ahead of the database and an answer never runs ahead of the disk.
* *Backups*: nothing is destroyed without an archive of exactly that data; pruning takes only what it
  may.
* *Packages, imports, exports*: a copy is a copy of one committed revision; an import adds what was
  shown and never a second record of a key; no row speaks of a missing file.
* *Engines*: the schedule under construction never breaks a required rule; the compiled model and the
  rules agree; the verdict of a round is right.
* *Timetable moves*: every candidate in a lineage is compatible although a move checks one lesson.
* *Sidecar manager*: one sidecar, with one owner, whatever commands overlap; it serves the directory
  of the setting, and a sign-out stops it.
* *Access gate*: a licence is never accepted at a time before one at which it was accepted.

## 2. Modules

| Module | Models | Rests on |
|---|---|---|
| `RoundLifecycle` | what a round promises: abstract specification | – |
| `SchedulingJobs` | the job manager, the status of rounds, the handlers around it | instantiates `RoundLifecycle` |
| `SchedulingJobs_proofs` | its theorems | extends `SchedulingJobs` |
| `ProjectDirectory`, `ProjectDirectory_proofs` | one project directory and the processes that use it; theorems | – |
| `Backups`, `Backups_proofs` | archives, records and pruning for a project and one restored from it; theorems | – |
| `Transfers`, `Transfers_proofs` | import and export jobs with the data they read and write; theorems | – |
| `AccessGate` | credentials, clock checkpoint, the decision to start the sidecar (operators and parts of actions) | – |
| `SidecarManager` | the two processes of a sidecar, the commands that start and stop them | extends `AccessGate` |
| `DesktopShell`, `DesktopShell_proofs` | the handlers of the interface, composed with both; theorems | extends `SidecarManager` |
| `LessonRules`, `LessonRules_proofs` | the rules between lessons, limits, scores, the validator, and the reference: what a timetable is (operators only); lemmas about sums, the symmetry of the rules, the validator | – |
| `GreedySchedule` | the greedy engine | extends `LessonRules` |
| `SolverRun`, `SolverRun_proofs` | a whole run: start, compiled rules, two searches, verdict; theorems about it and the greedy engine | extends `GreedySchedule`; `LessonRules_proofs` |
| `Candidates`, `Candidates_proofs` | rounds, moves and edits and the candidates they leave; theorems | extends `LessonRules`, `LessonRules_proofs` |
| `MC*` | constants and symmetry for TLC | the module of the same name |

### SchedulingJobs

The sidecar is one asyncio loop, so a handler is atomic between two awaits — except that every
statement of the database is committed by itself and the program can be killed after it. A handler
is therefore cut at each committed statement; `loop` and `subject` say where the event loop is, and
while it is not `"idle"` only the solver, a kill and the next start of the program can act.

| Code | Actions |
|---|---|
| `start_round` handler, `prepare_round`, `SchedulingJobManager.start_round` | `StartRound`, `Compile`, `RejectInput`, `InputRejected`, `PreparationFails`, `WriteRequest`, `StartAborts`, `SpawnAndMonitor`, `SpawnUnmonitored`, `SpawnFails` |
| `_run_worker` in the solver process | `SolverPublishes`, `SolverExits`, `SolverDies` |
| `_monitor`, `complete_round` | `MonitorSeesCancel`, `MonitorSeesFailure`, `MonitorValidates`, `PersistCandidate`, `FinishInfeasible`, `InfeasibleFinished`, `FinalizeFails` |
| `cancel_round` | `CancelTerminates`, `CancelsEnded`, `TerminateTimesOut`, `CancelReturns` |
| open, close, recovery | `OpenProject`, `RecoverRound`, `RecoveryDone`, `ReopenCurrent`, `CloseProject` |
| lifespan, `shutdown` | `BeginShutdown`, `ShutdownCancels`, `Exit` |
| the user | `Restart`; a kill is `Crash` |

The two joins of `cancel_round` are points where other handlers run: `cancelPc`, `cancelOf` and
`detached` (the project object that the call holds has been closed meanwhile) are its local state.
`Faults` names the operations that raise in an instance, so the same module says what holds when
only the guarded operations fail and what is left when even the error path fails.

### ProjectDirectory

`place` and `marker` are the directory and the deletion marker; `schema`, `revision` the
database; `manifest` the file beside it; `lock` the open handle on `.stt.lock`; `pc` and `memory`
what a process does and remembers. Every file operation and every commit is a step, since another
process may come in between. `open_project` is `OpenChecksMarker`, `OpenReadsManifest`, `OpenLocks`
(or `OpenRefused`), `BackUpBeforeMigration`, `MigrateOneVersion`…, `MigrationWritesManifest`, `OpenSucceeds`
(or `OpenFails`), in the order of the code: the marker and the manifest are read *before* the lock.
An edit is `CommitEdit` then `EditWritesManifest` or `EditManifestFails`, which is answered with an
error although the edit is committed (`unshown`, a history: the user has not been told the revision
that a committed edit made); `delete_project` is the
chain `DeleteReadsManifest`, `DeleteLocks`, `DeleteMarks`, `DeleteReleases`, `MoveToTrash` or
`MoveFails`, `DeleteUnmarks`. As on the platform the program ships for, a directory with an open
file cannot be moved.

### Backups

A backup is `WriteArchive`, `WriteRecord`, then for the automatic kinds `PruneUnlinks` and
`PruneDeletesRow` for each record beyond the limit, newest first, or `PruneRefuses` at the first
path that lies outside the directory of the project. The handlers around it are `RequestDestruction`
(delete an entity, confirm an import) with `Destroy`, `SaveEntity` (the daily backup), `RequestBackup`,
`SetRetained`, `RestoreBackup`, `OpenProject`. An archive has a flag `fresh`: the business data of
its owner have not changed since. It stands for the contents.

### Transfers

A handler of an import or an export has no `await`, so it is cut only at its statements, which commit
one by one; `loop` says where it is and what it holds in memory. A kill or a failing statement ends
the handler there (`KilledAndReopened`, `HandlerRaises`) and leaves what was committed.

| Code | Actions |
|---|---|
| `preview_file` | `StoreFile`, `DigestStored`, `PreviewFails`, `PreviewListed`, `PreviewAttached` |
| `remap_preview`, `abandon_import` | `RemapPreview`, `Abandon` |
| `confirm_import`, `bulk_insert_entities` | `CheckStored` (the digest of the copy), `ReadStored` or `ConfirmRefused` (the copy read again: mapping, names, duplicates), `InsertBatch`, `ImportConfirmed` |
| `export_candidate` | `ExportStarts`, `ExportProduces`, `ExportSucceeds`, `ExportRegistered`, `ExportFails`, `FailureUnrecorded` (the except branch raises too) |
| `create_template` | `TemplateFilled`, `TemplateRecorded`, `TemplateRegistered` |
| `save_entity`, `save_teaching_task_bundle`, `delete_entity` | `Edit` |
| somebody saves over the stored copy | `ReplaceStored` |

A sheet is a type and its rows; a row has the columns that decide something. Three types of sheet
stand for all: records known by their name, records with a key of their own (plans), and records
that refer to others and are cut into lessons (tasks). A job has the sheet whose digest was taken and
the sheet that was shown last: these are two, as each request reads the stored copy anew, and somebody
may write it at any time before it is read (`ReplaceStored`). `cutOff` is history: the exports that
ended without recording how. The pre-import backup is in `Backups`.

### AccessGate, SidecarManager, DesktopShell

The three are one system. `AccessGate` has the credentials of the keyring: `CheckLicense` is the
part of `ensure_sidecar_allowed` and `access_status` that moves the checkpoint, `StoreSession`,
`StoreEntitlement`, `DeleteSession` and `ResetCheckpoint` are the parts from which the commands are
made. `SidecarManager` has the processes. A packaged sidecar is a launcher, which the shell holds,
and a worker, which serves; both are ended when the shell drops its runtime.

| Code | Actions |
|---|---|
| `start_sidecar` (its mutex is held throughout) | `StartReturnsRunning`, `StartRefused`, `StartSpawns`, `StartReady`, `StartFails` |
| `stop_sidecar` (mutex taken twice, two requests between) | `StopReadsRuntime`, `StopCloses`, `StopRefused`, `StopAsks`, `StopAskFails`, `StopTakes`, `StopDrops` |
| `terminate_managed_sidecar`; a kill of the shell | `Exit`; `ShellDies` |
| the processes | `WorkerExits`, `LauncherExits`, `Dies` |
| `bootstrapGate`, `bootstrapWorkspace` | `ReadStatus`, `StatusFails`, `BootstrapStarted`, `BootstrapFails` |
| `bootstrapWorkspace`, called by the button that retries a failed start | `PressRetry`, `RetryStarted`, `RetryFails` |
| `submitAuth`, `activateLicense` with `sign_in`, `sign_up`, `complete_password_reset`, `activate` | `PressSignIn`, `SignInAccepted`, `SignInRefused`, `PressReset`, `ResetEnds`, `PressActivate`, `Activate`, `ActivateRefused` |
| `signOut` with `sign_out` | `PressSignOut`, `SignOutStopped`, `SignOutFails`, `SignOut` |
| `selectWorkspaceDirectory` | `PressSwitch`, `SwitchStarts`, `SwitchEnds`, `StopFailsSwitch`, `StartFailsSwitch`, `RequestFailsSwitch`, `GoBack`, `Restored`, `RestoreFails` |
| the program is started again; the clock | `Reopen`; `ClockChanges` |

The interface has two tasks, one for each busy flag (`gateBusy`, `workspaceBusy`). A flag disables the
buttons of its own task, so the commands of the access gate never overlap one another, while a
sign-out may run at once with a switch of the workspace or a retry of the start. `disturbed` is
history: such an overlap, or a switch that lost contact with the sidecar it had started.
`step` is where the handler of a task is,
`call` where the command it has invoked is.

### The engines

An action puts a lesson at a time, in a room, at a cost; the days and weeks of a time, bit strings
in the code, are sets. `Violates` is `_violates` for every kind of rule it knows; `Score` and
`LimitExcess` are `_score` and `_score_resource_limits`. `GreedySchedule` is `run_cgcs_greedy`:
`PlaceLesson`, `PlacingFails`, then passes over the failed lessons (`RepairDirectly`,
`RepairByRelocating`, `RepairFails`, `NextPass`). `SolverRun` extends it with `run_cp_sat_v1` and
`complete_round`: the start is the greedy schedule or the parent candidate; `HardGroups`,
`HardPairs` and `Loads` are the model compiled for CP-SAT, bucket signatures, first members and
tuple order included; `Solve…` and `Improve…` are the two searches with their statuses; `reported` is `solver_status`, what
the log and the diagnostics of the candidate call the result, which stays that of the first search when
the second returns nothing (`ImproveNothing`) or has no time (`NoTimeLeft`);
`CompleteRound` validates and settles. CP-SAT is external: within its time it returns an optimum of
the model it was given, some solution, or nothing.

What the engine models take as given (`ProblemOK`, `OrderAssumption`, `OwnersAssumption`):

* no day or week bit string is all zero, lengths are positive, penalties are not negative; a maximum
  is at least 1, to which the code raises it (`service.py:968`, `:1026`);
* lessons are numbered in the order of the problem, and the options of a lesson from 0
  (`cp_sat.py:352-354`);
* the lessons of a limit are those of one teacher or of one class (`service.py:962-969`), or some of
  them; that the lessons of a teacher, and of a class, do not overlap is always among the rules
  (`service.py:838-840`);
* a parent candidate is of the snapshot of the round and has been validated. `Candidates` shows
  exactly this (`CandidatesAreTimetables`, `LineageIsConsistent`).

A limit on consecutive lessons is read in three places: the compiler adds up overlaps with windows
of periods, the score counts the taken periods of windows, the validator looks for the longest run
of *slots*. The three agree where bell schedules number slots and periods alike up to a shift
(`NumberedAlike`), where the lessons of the limit have the same weeks (`SameWeeks`), and, for soft
limits, where no lesson is longer than a window (`FitsWindow`). The properties have these as
premises. `solver_limits` shows that the second is needed, and the configurations `solver_templates.cfg`
and `solver_windows.cfg` of `MCSolverRun` the same of the other two (see 5); the calendar page
(`CalendarView.vue:149`) writes schedules that satisfy the first.

### Candidates

The data of a project are a problem and its rooms and teachers; `history` has the data of every
revision, which stands for the snapshots. `Edit` is any change of the data (`save_entity`,
`save_task`, `delete_entity`, `bulk_insert_entities`): a new revision, and the columns that referred
to a deleted row become NULL in the entries of *all* candidates (`Without`, ON DELETE SET NULL).
`StartRound` is what `prepare_round` does with parent and session (`_load_parent`,
`_ensure_session`); `CompleteRound` persists a candidate with its entries (`_persist_candidate`),
`RoundEnds` is any other end. `ForkWithMove` is `fork_with_move`, with `MoveAllowed` for
`validate_move`: it reads the entries of the other lessons back into options of the snapshot
(`ActionsOf`), compares the moved lesson with them in one order, and counts the required limits.
Edits and moves interleave with a round in progress.

Taken as given: a round that succeeds has a timetable of its snapshot, which is what
`AcceptedIsTimetable` shows of `SolverRun`; the two models meet there, each resting on what the other
shows. Times are on one day, as the calendar page writes them, and two options of one lesson differ
in time or room, as the code finds an option by these. How a round is scheduled and interrupted is
left to `SchedulingJobs`.

## 3. Runs

| Run | Question | Bounds | Distinct states |
|---|---|---|---|
| `jobs_faults` | what holds of candidates, solvers and settled rounds when every statement may raise | 2 rounds, 2 cancel requests beside the shutdown's, 1 kill, all six kinds of fault | 659 314 |
| `jobs_liveness` | has every unsettled round a job, is `RoundLifecycle` implemented, do cancellation, shutdown and rounds come to an end | 2 rounds, 1 request beside the shutdown's, 1 kill, no symmetry; preparation, spawn and finalization may fail | 105 412 |
| `jobs_reopen` | is an opened project recovered (no, see 5) | faults outside the `try` blocks | – |
| `project_safety` | lock, manifest, revisions, repeated edits, migration and deletion between two processes | 2 processes, 2 migrations, 2 edits, 2 kills, failing opens, manifest writes and moves | 490 847 |
| `project_open_race` | does the marker close the gap before the move (no, see 5) | 2 processes, no faults | – |
| `backups_safety` | archives, records, retention and pruning in a project and one restored from it | 2 projects, limit 1, 3 archives, 1 kill or change of day | 534 688 |
| `backups_limit` | is the limit kept after a restore (no, see 5) | 2 projects, limit 1, 4 archives, no kill | – |
| `transfers_safety` | do rows and files agree, does an import add what was shown and nothing twice, do lessons cover their task | 4 sheets, 2 transfers, 2 edits, 1 kill, every statement may fail | 1 574 768 |
| `shell_safety` | one sidecar with one owner, sign-outs, switches and retries that leave what they say, and a clock that cannot be turned back | 2 sidecars, 2 directories, 1 account, 3 times, 1 change of the clock, 1 end of a process, 3 kinds of fault | 2 174 535 |
| `solver_safety` | are schedule, compiled model, verdict and price right, and does every run end | 3 lessons, 4 sets of options, each of the 11 kinds of rule required and soft, 5 sets of limits | 12 008 |
| `candidates_safety` | is every candidate a timetable, is a move refused only for a reason, do parents fit and entries agree, whatever is deleted | 3 lessons, 2 rooms, 2 teachers, 3 sets of data, 2 revisions, 3 candidates, 2 sessions | 100 526 |
| `solver_limits` | does "infeasible" always mean that there is no timetable (no, see 5) | 3 lessons, one limit | – |

Why these bounds are enough for the cases that matter:

* *Jobs.* The table holds one job, so two rounds give a job and its predecessor or successor: a
  cancelled solver that is still alive, a late result, an orphan, a second start. Two requests meet
  in one cancellation, and the shutdown makes a third. One kill can hit any point, a second one
  would meet a state of the same kind (`NeedsRecovery` holds of several rounds or of one). The proofs
  remove the bounds for safety.
* *Directory.* Two processes are what a race needs. Two versions below the current one let a
  migration be interrupted between versions; two kills interrupt the repair of an interruption.
* *Backups.* A limit of 1 is reached by the second automatic backup, so three archives prune once
  and then once more, one of them in a restored project.
* *Transfers.* Two transfers are two imports of one sheet, an import and its repetition after a kill,
  or an import during which an export is left behind; two edits change the data twice between
  preview and confirmation. Two of the sheets are of one type, so that one can be written over the
  other and be put back. The sheet of tasks has two rows that collide only if the column with the
  term is left out, and one with a rest.
* *Shell.* Two sidecars are the one before and the one after a switch; both tasks can be in a
  command at once, and one process may end at each of its points. There is one task of the workspace
  at a time (6).
* *Engines.* Three lessons are the least for a relocation (the lesson, the one in its way, a third
  that restricts where it can go). The four sets of options contain each a competition of one sort:
  for rooms, of lengths, of starts, of weeks.
* *Candidates.* Three candidates make a chain of two moves, so the second move starts from one that
  no round has made; two revisions are enough for a candidate, its parent and a round to disagree.
  The edits delete a room, a teacher or a lesson, add a limit and drop a rule.

The proofs remove the bounds of every safety run.

Symmetry is used for rounds, requests and processes in runs of safety properties only.
`CHECK_DEADLOCK FALSE` stands in the runs where the modelled system stops: when its edits, archives
or kills are used up, or when a round has its verdict. The runs of `SchedulingJobs` check for
deadlock: the program can always be started, a project opened, or the program left.

Fairness is assumed in `jobs_liveness` and `solver_safety` only; every other property is one of safety,
and its specification has none. The assumptions are:

* asyncio resumes what is ready in the order in which it became ready, so a handler that waits for
  the loop is reached: weak fairness for the rest of a handler and for monitors, strong fairness for
  a cancel request whose join has returned, since other handlers may come in between again and again;
* both joins of `cancel_round` have a time limit; SIGKILL ends a process;
* the solver is *not* assumed to stop by itself, nor to obey SIGTERM. `RoundIsSettled` has it as a
  premise, so that it says something only about solvers that end;
* the engine is a sequential program, and CP-SAT stops at its time limit (`LiveSpec`).

Each property of a passing run has a mutant of the code in `PROJECT.json` under which TLC finds it
violated; the mutants stand in the modules next to what they mutate.

## 4. Proofs

Assumptions are the named ones on constants (identifiers that differ, bounds that are naturals,
`Faults` among the fault kinds, `ProblemsAssumption`, `OrderAssumption`, `OwnersAssumption`,
`CandidatesAssumption`); nothing else. Every invariant and every action property of a passing run is
stated by a theorem.
`JobsHoldProject`, `OneProcessInside` and `OpenProjectStaysInPlace` are proved and not checked by a
run.

**SchedulingJobs**, for any rounds, requests, faults and number of kills. `TypeCorrect`; then the
invariant `IInv`, whose parts say where the loop may be with which status (`LoopInv`), that the table
holds at most one job, of an open project, and not of an orphan (`JobInv`), that a living solver of this sidecar
is in the table (`ProcInv`), and `CandidateIffSucceeded`. None of the theorems below is inductive alone: that
a candidate comes only from a round not yet settled needs `LoopInv` for the finalization, that needs
`JobInv` for the subject of the monitor, that needs `ProcInv` for a start not to meet the solver of
an earlier round. From `IInv` follow `CandidateIffSucceededAlways`, `OneSolverAlways`,
`JobsHoldProjectAlways`, `SettledStaysSettledAlways` and `CandidateOnlyFromOwnSolverAlways`, whatever
raises. If neither a statement outside the `try` blocks nor a status update raises (`Guarded`),
`OwnedInv` is also invariant; it gives `UnsettledRoundHasJobAlways` and `Refinement`, that the
manager implements `RoundLifecycle`. `jobs_reopen` shows that without the assumption the former fails.
`CancelledSolverIsKilledAlways` adds that a call in its second wait has sent SIGKILL. If recording the
start of a worker does not raise either (`Monitored`), every job has its monitor (`WorkInv`), so a
gathered shutdown has an empty table; a call that outlives its job waits for a round that was
inserted, and is detached only from a settled one, since the table was empty when the project was
closed. Hence `WorkerFilesHaveOwnerAlways`, `AnsweredCancelIsSettledAlways`, `ExitLeavesNothingAlways`.

**ProjectDirectory**, for any processes, schema version, faults, edits and kills. `LockInv`: a
process is between acquisition and release exactly when it holds the lock, and a locked directory is
in the workspace. `FileInv`: what a process remembers, read before the lock, is never ahead of the
manifest, and that is never ahead of the database; a database below the current schema has had no
edit. They give `OneProcessInsideAlways`, `ManifestNotAheadAlways`, `AnsweredRevisionIsOnDiskAlways`,
`OpenProjectStaysInPlaceAlways` and `MigrationHasRestorePointAlways`. `UnshownInv`: while a committed edit
is unshown, the revision that its user knows is below that of the database, whoever opened, migrated
or edited the project since; so `RepetitionStaysRefused`. `MarkerHasDeleterAlways` needs besides that a directory that does not exist yet has no marker.

**LessonRules** has the lemmas that the next two rest on. A sum over a finite set is the number of
its units (`Total`: as many pairs `<<x, i>>` as `f[x]` says), so facts about sums are facts about
cardinalities: sums are compared by injections between their units, exchanged by bijections
(`TotalsAgree`, `TotalOfSizes`, `TotalOfTotals`), and no induction over the set is needed. Where the
usual argument is an induction over a number, the proofs take a least counterexample instead
(`LeastNat`). `ViolatesIsSymmetric` goes through the kinds of rules (the ordered ones, `Precedence`
and `Consecutive`, turn the pair round themselves); `ConflictIsSymmetric` lifts it to required rules
and rooms. `ExcessIsExact`: the longest run of slots is within the maximum exactly if no window of
one period more is full, whatever the shift between slots and periods.

**SolverRun**, with the greedy engine, for problems of any size with any rules and limits.

* `ScheduleStaysCompatible`: `feasible_actions` compares a new action with the placed ones in one
  direction; the schedule is compatible in both because rules are symmetric (`FeasibleActionJoins`).
  A relocation removes one action and adds two; `MoveKeeps` follows the three schedules of the code.
  What the solver returns is compatible by `ChosenIsCompatible`. `RunInv` adds that a settled round
  has been validated, which gives `AcceptedStaysTimetable`.
* `CompiledRulesStayExact`: `SignatureDecides` shows that what a rule compares is in the signature of
  a bucket, `OneSignatureViolates` that the members of one bucket exclude each other, so comparing
  first members decides for all members (`BucketsAreExact`).
* `FailedHaveNoPlaceLeft`: when a lesson fails, nothing is feasible and no move is left for it
  (`HopelessHasNoPlace`), and in the last pass the schedule stays as it is (`FailInv`). A schedule
  that differs in one place would be a feasible action or a move.
* `ProvedInfeasibleStaysInfeasible`: `TimetableIsSolution`, every timetable satisfies the compiled
  model. For the windows this needs that two lessons of one owner in the same weeks never meet
  (`OwnersMeetOnce`), so that the load of a window is the number of its taken periods
  (`LoadOfWindow`). `MaxInv`: what was proved to be the maximum still is one after the second search.
* `OptimalStaysCheapest`: `WindowExcessAgrees`, windows of the model that are not taken from their
  first period on have no excess, nor have windows of the score that start after every action; so
  the objective of a complete schedule is its score times the weight, plus ties
  (`ObjectiveCountsScore`). The positions of the chosen actions add up to at most the number of
  options, since below each there are as many others of its lesson (`IndexesAreBounded`); hence ties
  stay below the weight and never outweigh the score (`WeightDecides`). `BestInv` keeps the
  optimum through the run.

**Candidates**, for any data, number of edits, rounds and moves. The invariant is the conjunction of
four properties that rest on one another. A move sees only entries, of which
deletions may have taken lesson and room. `MatchIsUnique`: an entry that still matches an option of
the snapshot matches the one that was decided, since a NULL lesson matches nothing and a NULL room
only lessons that need none. `OthersAreKept`: so a move that is allowed has found the decisions of the other
lessons, all of them — this needs `EntriesShowSolution`. `MoveIsSound`: these are compatible, since
the candidate was, and comparing the moved lesson in one order is enough (`JoinIsCompatible`, from
the symmetry of the rules). Limits are judged on the whole new schedule, by the
validator. Hence `CandidatesStayTimetables`. The converse, `MoveIsComplete`: while nothing that a
candidate refers to is gone, the entries match exactly the decided options (`EntriesMatch`), so a
move that is refused conflicts with one of them or exceeds a limit; both directions are
`MovesStayExact`. With `LineageStaysConsistent` the former gives
`WarmStartFits`: a round with a parent starts from a compatible placement of its own snapshot.

**Backups**, for any projects, limit and number of backups, restores, days and kills. `OwnersInv`:
every id in a record, live or in an archive, was given out, and belongs to the owner of the archive
with that id. Hence `PruningSparesOtherProjectsAlways`: `OwnPath` is a sufficient test although two
projects have the same records. `FreshInv`: between archive and deletion the archive with the newest
id has the data of now; pruning does not take it, since the newest record is never beyond the limit
(`NewestIsKept`). Hence `DestructionIsBackedUpAlways`. `HistoryInv`: records are told apart by ids,
their owners exist, and the unlinked file is one own record of the open project. With it
`OwnRecordsHaveArchivesAlways` follows the set `Lost` of records without an archive through every
step: only a kill adds to it, and one record at most.

**Transfers**, for any sheets, data, edits, faults and kills. `ImportsInv` and `ExportsInv` tie each
row to its file, and a row without its last statement to the handler under way: `RowsHaveFilesAlways`.
`RowsHaveFilesAlways` excepts an export in `cutOff`, and only that. `InsertInv`: what a confirmation has
in memory is acceptable against the tables of now, as no edit comes in between, and it is the sheet of
the job, read with its columns, unless the copy was written between digest and read. `AcceptedKeys` turns that
into pairwise different keys: `ImportAddsNoDuplicateAlways`. `IdsInv`: ids are below the revision,
so what an import adds can be told from what was there, and `OneTeacher`, that a resolved name has
exactly one bearer: `ImportsWhatWasShownAlways`. `LessonsInv`: the stored
lessons are exactly those into which the stored tasks are cut, and tasks are told apart by their ids
(`CoversMore`, `CoversLess` and `CoversSame` for what is inserted, deleted or edited). The pieces of a
task add up to its weekly slots because their slots are in a bijection with `1 .. weekly`
(`PiecesCount`: slot `u` of piece `i` is slot `(i - 1) * duration + u` of the week). Hence
`LessonsAlwaysCoverTask`.

**DesktopShell**, for any accounts, directories, tolerance, number of starts, ends and changes of the
clock. `SeenBelowCheckpoint`: no licence was accepted later than at the checkpoint, which no command
but an activation takes back; with `ClockAcceptable` it gives `RollbackStaysRefusedAlways`.
`ShellInv`: a task in no command has called none (`CallsMade`), and a start that waits for its first
line holds the mutex and finds no runtime (`MutexHeld`). `OneOwnedSidecar` is inductive only with
both: a spawn needs that nobody else awaits and that the dropped runtime was the only one serving,
and `StopTakes`, which takes whatever runtime is there, needs that it asks exactly that one.
`InterfaceInv` follows the two tasks of the interface. `StepCalls`: a handler waits for the command
that it has invoked, with the argument it gave. `Apart`: what the gate starts or stops does not
overlap a switch unless `disturbed`. `ViewInv`: a task that may start a sidecar without an account
being shown, or without a session, finds no licence. Unless disturbed, `RuntimeKnown`: the runtime is
the one that the interface shows or that a command is about to return; `DirectoryKnown`: it serves
the directory of the setting, or of the command; `NoneWithoutAccount`: without a session nothing serves. The last needs the
others: a sign-out asks what is shown, so nothing else may run. Hence `SignedOutStaysStopped` and
`SettingStaysServed`.

The theorems `TypeCorrect` state invariants that no run lists: they are lemmas of the others.

Only model-checked: what must eventually happen (`CancelFreesTable`, `ShutdownEnds`, `RoundIsSettled`,
`RunEnds`), as the prover has neither fairness nor `ENABLED`. Refuted by TLC, and so not proved: the
properties of section 5.

## 5. Where code and documents differ

Shown by a run:

1. `OpenedProjectIsRecovered` (`jobs_reopen`). Docs 21:40 says opening a project recovers unsettled
   rounds. Opening the *current* project again returns early (`app.py:378`), so a round left in
   `solving` by a failure at `jobs.py:98-105` stays there until the program ends.
2. `NoOpeningBeforeTheMove` (`project_open_race`). Docs 45:19 says the marker prevents an opening
   between the release of the lock and the move; it is read before the lock is taken
   (`project.py:798`, `:242`).
3. `OnlyNewestAreKept` (`backups_limit`). A restored project keeps the records of its source. When
   one of them is beyond the tenth, pruning refuses (`service.py:386`), then and ever after; docs
   18:33 promises the newest ten.
4. `InfeasibleMeansNoTimetable` (`solver_limits`). Two lessons in alternate weeks and one period
   count twice in the windows compiled for CP-SAT (`cp_sat.py:508-519`), against docs 33:16, the
   validator and the score; a required limit can then "prove" a problem infeasible that has a
   timetable.

Shown by a configuration that is not among the runs (`tlc -config <name>.cfg <module>`, with
`MCSolverRun` if no other module is named):

* `AcceptedKeepsLimits` (`solver_templates.cfg`). The validator looks for runs of slots
  (`service.py:1066-1074`), docs 33:16, the compiler and the score for windows of periods. Where a
  class has a bell schedule of its own (`test_scheduling.py:286` numbers its slots from 10), three
  lessons of one teacher in consecutive periods pass the validator, and a greedy start that the
  solver could not replace in its time becomes a candidate.
* `OptimalIsCheapestAtAnyLength` (`solver_windows.cfg`). The compiled windows of a soft limit start at
  most where the last option starts (`cp_sat.py:498-506`), those of the score at every taken period
  (`:579`). A lesson longer than a window that starts last is under-priced (docs 33:21-23), and the
  optimum is not the cheapest timetable.
* `ReportedOptimalIsCheapest` (`solver_reported.cfg`). `solver_status` starts as the status of the first
  search, which only maximizes the number of lessons (`cp_sat.py:205-206`), and is replaced only if the
  search for quality returned something (`:233-236`). When that one has no time or finds nothing, a
  complete schedule of any price is logged as "最优解" (`:272-273`) and reported as `OPTIMAL` (`:310`), also
  in the diagnostics of the candidate (`service.py:1196-1205`). `OptimalIsCheapest` has the search for
  quality as a premise (`Improved`).
* `ImportsWhatWasShownLast` (`transfers_swapped.cfg` of `MCTransfers`). Docs 19:75 says that a copy
  tampered with after the preview is refused. The digest (`importer.py:254`) and the rows (`:257`) are
  two reads of the stored copy, and a remapping shows the copy as it is without
  comparing or renewing its digest (`:231-232`). So a copy that another program writes between the two
  reads is imported unseen, and one that is replaced, remapped, shown and put back is imported as it
  was first. `ImportsWhatWasShown` excepts both.
* `SignedOutIsStoppedAnyway` (`shell_overlap.cfg` of `MCDesktopShell`). Docs 12:15 and 12:92 say that a
  sign-out stops the sidecar. After a failed start the interface shows a button to retry it
  (`App.vue:608`), which sets `workspaceBusy` and asks for neither flag; a sign-out pressed before it
  returns sees no sidecar, stops none, and the start completes without a session. A switch of the
  workspace (`:616`) overlaps a sign-out in the same way. After a switch that lost contact with its
  sidecar a sign-out does not ask any to stop either, as the interface shows none. `SignedOutIsStopped`
  excepts all three (`disturbed`).

Seen while modelling, stated here only:

* Deleting a room, a teacher or a lesson (or saving a task, which recreates its lessons,
  `project.py:503`) empties the columns of old candidates (`schema.py:290-296`), which then can no
  longer be moved and differ from their solution file; docs 16:21 says that later changes of the data
  do not overwrite them.
* An event insert that raises after the solver was started leaves job and worker files behind (docs
  21:24-30).
* A kill between a migration's commit and its manifest leaves a schema version in the manifest that
  no later opening repairs, as only the revision is compared (`project.py:249`, `:357`; docs 37:5).
  A package of such a project is "verified" when it is made, and refused by every import
  (`project_archives.py:60` copies manifest and database as they are).
* Of two concurrent deletions one may remove the record of the other (`project.py:862`; docs
  45:36,40).
* A daily backup whose record was pruned is made again the same day (docs 18:70); with a clock set
  back, a new backup is the oldest and is pruned first (docs 18:31).
* The seed of a request is stored as `random_seed` (`service.py:358`) and read as `seed`
  (`cp_sat.py:1103`).
* Docs 25:25: when a switch fails, the old setting is restored and the old workspace restarted. If
  the start succeeded and the first request failed, the setting goes back and `start_sidecar` returns
  the sidecar of the new directory, since one runs. `SettingIsServed` excepts it.
* A start that ends with an error kills at most the launcher (`lib.rs:280`), or neither process
  (`lib.rs:285`, `:294`); a killed desktop program kills nothing. The worker goes on serving and
  holds the project. The state `"abandoned"` in `SidecarManager` keeps these apart.
* Docs 19:29 allows a confirmation only with at least one valid record. The interface keeps to
  `canConfirm` (`importer.py:436`); `confirm_import` looks at errors only (`importer.py:248-264`), so
  a sheet without rows is confirmed.
* An edit whose manifest could not be written is answered with an error and is stored (`project.py:453`).
  Its repetition is refused as long as the interface sends the revision it knew
  (`RepetitionIsRefused`); once any request has told it the new one, the same edit is accepted again.
* A killed export stays `running`, or `succeeded` without a row in `artifacts`; without a kill the same
  is left when the update to `failed` in the except branch raises too (`exporter.py:129`), for instance
  on a full disk. `RowsHaveFiles` excepts both (`cutOff`). A confirmation killed after its rows leaves a job that still asks
  to be confirmed, and is then refused as a sheet of duplicates.

## 6. Not modelled, and the plan

What could come next, in this order:

1. `Packages`: export and import of a directory whose manifest lags behind, on `ProjectDirectory`.
2. Proofs: that `SolverRun` and `Candidates` rest on each other without a gap (a run whose parent
   comes from a lineage of `Candidates`).
3. The explanations of lessons without a place.

Parts of modelled components that are left out: the proxy of requests in the shell
(`sidecar_request`, a request under the token of the runtime) and `runtime_status`, which nothing
calls; refreshing of tokens and signatures of leases; columns of sheets that no check looks at; a generic PUT of a task or lesson, which the interface does not
use (`save_teaching_task_bundle` keeps lessons and task together, a PUT would not); the contents
and verification of archives; a second task of the workspace beside the first, which a bootstrap that
clears the flag of a switch makes possible, and the retry button, which asks for no flag, while a
switch goes back.

Not planned: the construction of a problem from the tables (`service.py:659-985`), XML, workbooks and
the legacy import (data mapping), the presentation of projects and data in the interface, updates,
the purchase page, the installer and scripts.
