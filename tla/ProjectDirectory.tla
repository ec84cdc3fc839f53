-------------------------- MODULE ProjectDirectory --------------------------
(***************************************************************************)
(* One project directory and the processes that use it: create_project,    *)
(* open_project, delete_project, the transactions of ProjectRepository and *)
(* its migrations (sidecar/stt_desktop/storage/project.py).                *)
(*                                                                         *)
(* The database and manifest.json are two files; the manifest repeats the  *)
(* schema version and the revision of the database and is written after    *)
(* it. Inside a process nothing interleaves, but every committed statement *)
(* and every file operation is a step of its own here, since another       *)
(* process may come between two of them and a process may be killed there. *)
(*                                                                         *)
(* The lock file is held by an open handle, so a killed process loses it,  *)
(* and, as on the platform the program ships for, a directory in which a   *)
(* file is open cannot be moved.                                           *)
(***************************************************************************)
EXTENDS Naturals

CONSTANTS
  Procs,          \* processes that use the workspace
  NoProc,         \* no process
  SchemaVersion,  \* the schema the program supports
  Faults,         \* the operations that may raise in this instance
  MaxRevision,    \* bound: edits of the project
  MaxCrashes      \* bound: how often a process is killed

FaultKinds ==
  {"open",      \* integrity check, backup, migration or manifest write
   "manifest",  \* the manifest write after a committed edit
   "move"}      \* the rename into the trash

ASSUME NoProcAssumption == NoProc \notin Procs
ASSUME SchemaAssumption == SchemaVersion \in Nat \ {0}
ASSUME FaultsAssumption == Faults \subseteq FaultKinds
ASSUME BoundsAssumption == MaxRevision \in Nat /\ MaxCrashes \in Nat

VARIABLES
  \* the workspace on disk
  place,      \* where the directory is
  marker,     \* .stt.deleting.json exists in it
  schema,     \* app_metadata.schema_version
  revision,   \* app_metadata.revision
  manifest,   \* manifest.json
  backups,    \* the pre-migration backups
  lock,       \* the process that holds .stt.lock
  \* a process
  pc,         \* the point of its operation on this project
  memory,     \* ProjectRepository.manifest
  view,       \* the revision the user interface sends as expected_revision
  answer,     \* the last answer about the open project
  unshown,    \* history: processes that have committed an edit since the last
              \* answer that told their user the revision
  crashes

disk == <<place, marker, schema, revision, manifest, backups>>
user == <<view, answer, unshown>>
vars == <<disk, lock, pc, memory, user, crashes>>

NoManifest == [schema |-> 0, revision |-> 0]
Manifests  == [schema : 0..SchemaVersion, revision : Nat]

OpenPoints  == {"verifying", "migrating", "open", "committed"}
LockPoints  == OpenPoints \cup {"marking", "marked"}
Points      == LockPoints \cup {"idle", "creating", "checked", "read", "named",
                                "moving", "unmarking"}

TypeOK ==
  /\ place \in {"nowhere", "projects", "trash"}
  /\ marker \in BOOLEAN
  /\ schema \in 1..SchemaVersion
  /\ revision \in Nat
  /\ manifest \in Manifests
  /\ backups \subseteq [schema : 1..SchemaVersion, revision : Nat]
  /\ lock \in Procs \cup {NoProc}
  /\ pc \in [Procs -> Points]
  /\ memory \in [Procs -> Manifests]
  /\ view \in [Procs -> Nat]
  /\ answer \in [Procs -> {"none", "ok", "error"}]
  /\ unshown \subseteq Procs
  /\ crashes \in 0..MaxCrashes

\* A workspace without the project, or with one of this or an older version.
Init ==
  /\ \/ place = "nowhere" /\ schema = SchemaVersion /\ manifest = NoManifest
     \/ /\ place = "projects" /\ schema \in 1..SchemaVersion
        /\ manifest = [schema |-> schema, revision |-> 0]
  /\ marker = FALSE
  /\ revision = 0
  /\ backups = {}
  /\ lock = NoProc
  /\ pc = [p \in Procs |-> "idle"]
  /\ memory = [p \in Procs |-> NoManifest]
  /\ view = [p \in Procs |-> 0]
  /\ answer = [p \in Procs |-> "none"]
  /\ unshown = {}
  /\ crashes = 0

-----------------------------------------------------------------------------
GoTo(p, point) == pc' = [pc EXCEPT ![p] = point]

Move(p, from, to) == pc[p] = from /\ GoTo(p, to)

InProjects == place = "projects"

\* The lock file can be opened and locked.
LockFree == InProjects /\ lock = NoProc

Acquire(p) == LockFree /\ lock' = p

Release(p) == lock' = IF lock = p THEN NoProc ELSE lock

\* A step that gives up: the lock goes back and the process is done.
GiveUp(p) ==
  /\ GoTo(p, "idle")
  /\ Release(p)
  /\ UNCHANGED <<disk, memory, user, crashes>>

-----------------------------------------------------------------------------
(* create_project. Until the manifest is written nothing treats the        *)
(* directory as a project.                                                 *)

CreateDatabase(p) ==
  /\ place = "nowhere" /\ Move(p, "idle", "creating")
  /\ place' = "projects"
  /\ UNCHANGED <<marker, schema, revision, manifest, backups, lock, memory,
                 user, crashes>>

CreateManifest(p) ==
  /\ Move(p, "creating", "idle")
  /\ manifest' = [schema |-> SchemaVersion, revision |-> 0]
  /\ UNCHANGED <<place, marker, schema, revision, backups, lock, memory, user,
                 crashes>>

-----------------------------------------------------------------------------
(* open_project and ProjectRepository.__init__.                            *)

\* An answer with the revision, which is what the next edit will be made on.
TellRevision(p) ==
  /\ view' = [view EXCEPT ![p] = revision]
  /\ unshown' = unshown \ {p}

OpenChecksMarker(p) ==
  /\ InProjects /\ ~marker
  /\ Move(p, "idle", "checked")
  /\ UNCHANGED <<disk, lock, memory, user, crashes>>

OpenReadsManifest(p) ==
  /\ InProjects /\ manifest # NoManifest
  /\ Move(p, "checked", "read")
  /\ memory' = [memory EXCEPT ![p] = manifest]
  /\ UNCHANGED <<disk, lock, user, crashes>>

OpenLocks(p) ==
  /\ Acquire(p)
  /\ Move(p, "read", "verifying")
  /\ UNCHANGED <<disk, memory, user, crashes>>

\* No manifest or no directory any more; or the lock is held.
OpenRefused(p) ==
  /\ \/ pc[p] = "checked" /\ (~InProjects \/ manifest = NoManifest)
     \/ pc[p] = "read" /\ ~LockFree
  /\ GiveUp(p)

\* Mutant: the migration starts without a backup.
RestorePoint_None == {}

RestorePoint == {[schema |-> schema, revision |-> revision]}

\* _migrate_database up to its verified backup.
BackUpBeforeMigration(p) ==
  /\ schema < SchemaVersion
  /\ Move(p, "verifying", "migrating")
  /\ backups' = backups \cup RestorePoint
  /\ UNCHANGED <<place, marker, schema, revision, manifest, lock, memory, user,
                 crashes>>

MigrationPending == schema < SchemaVersion

\* One transaction per version.
MigrateOneVersion(p) ==
  /\ pc[p] = "migrating" /\ MigrationPending
  /\ schema' = schema + 1
  /\ UNCHANGED <<place, marker, revision, manifest, backups, lock, pc, memory,
                 user, crashes>>

WithSchema(content) ==
  [schema |-> SchemaVersion, revision |-> content.revision]

AtRevision(content, n) == [schema |-> content.schema, revision |-> n]

WriteManifest(p, content) ==
  /\ memory' = [memory EXCEPT ![p] = content]
  /\ manifest' = content

MigrationWritesManifest(p) ==
  /\ schema = SchemaVersion
  /\ Move(p, "migrating", "verifying")
  /\ WriteManifest(p, WithSchema(memory[p]))
  /\ UNCHANGED <<place, marker, schema, revision, backups, lock, user, crashes>>

\* Mutant: the manifest is not compared with the database.
Repair_Skipped(p) == UNCHANGED <<memory, manifest>>

\* The revision is all that is compared.
Repair(p) ==
  IF memory[p].revision = revision
    THEN UNCHANGED <<memory, manifest>>
    ELSE WriteManifest(p, AtRevision(memory[p], revision))

OpenSucceeds(p) ==
  /\ schema = SchemaVersion
  /\ Move(p, "verifying", "open")
  /\ Repair(p)
  /\ TellRevision(p)
  /\ answer' = [answer EXCEPT ![p] = "ok"]
  /\ UNCHANGED <<place, marker, schema, revision, backups, lock, crashes>>

OpenFails(p) ==
  /\ "open" \in Faults
  /\ pc[p] \in {"verifying", "migrating"}
  /\ GiveUp(p)

-----------------------------------------------------------------------------
(* save_entity, save_teaching_task_bundle, bulk_insert_entities and        *)
(* delete_entity: one transaction, then the manifest.                      *)

\* _begin_write
ExpectedRevision(p) == view[p] = revision

\* Mutant: the manifest is written before COMMIT.
CommitWrite_ManifestFirst(p) ==
  /\ WriteManifest(p, AtRevision(memory[p], revision + 1))
  /\ UNCHANGED revision

\* Mutant: a transaction that leaves the revision as it is.
CommitWrite_SameRevision(p) == UNCHANGED <<revision, manifest, memory>>

\* _commit_write
CommitWrite(p) ==
  /\ revision' = revision + 1
  /\ UNCHANGED <<manifest, memory>>

CommitEdit(p) ==
  /\ revision < MaxRevision
  /\ ExpectedRevision(p)
  /\ Move(p, "open", "committed")
  /\ CommitWrite(p)
  /\ unshown' = unshown \cup {p}
  /\ UNCHANGED <<place, marker, schema, backups, lock, view, answer, crashes>>

\* _write_manifest_revision and the answer with the new revision.
EditWritesManifest(p) ==
  /\ Move(p, "committed", "open")
  /\ WriteManifest(p, AtRevision(memory[p], revision))
  /\ TellRevision(p)
  /\ answer' = [answer EXCEPT ![p] = "ok"]
  /\ UNCHANGED <<place, marker, schema, revision, backups, lock, crashes>>

\* The edit is committed, but its answer is an error without a revision.
EditManifestFails(p) ==
  /\ "manifest" \in Faults
  /\ Move(p, "committed", "open")
  /\ memory' = [memory EXCEPT ![p] = AtRevision(@, revision)]
  /\ answer' = [answer EXCEPT ![p] = "error"]
  /\ UNCHANGED <<disk, lock, view, unshown, crashes>>

\* Every reading request answers with the revision.
Refresh(p) ==
  /\ pc[p] = "open" /\ view[p] # revision
  /\ TellRevision(p)
  /\ UNCHANGED <<disk, lock, pc, memory, answer, crashes>>

Close(p) == pc[p] = "open" /\ GiveUp(p)

-----------------------------------------------------------------------------
(* delete_project, called for a project this process has not open.         *)

DeleteReadsManifest(p) ==
  /\ InProjects /\ manifest # NoManifest
  /\ Move(p, "idle", "named")
  /\ UNCHANGED <<disk, lock, memory, user, crashes>>

DeleteLocks(p) ==
  /\ Acquire(p)
  /\ Move(p, "named", "marking")
  /\ UNCHANGED <<disk, memory, user, crashes>>

DeleteRefused(p) == pc[p] = "named" /\ ~LockFree /\ GiveUp(p)

DeleteMarks(p) ==
  /\ Move(p, "marking", "marked")
  /\ marker' = TRUE
  /\ UNCHANGED <<place, schema, revision, manifest, backups, lock, memory, user,
                 crashes>>

DeleteReleases(p) ==
  /\ Move(p, "marked", "moving")
  /\ Release(p)
  /\ UNCHANGED <<disk, memory, user, crashes>>

\* No handle is open inside the directory.
Movable == InProjects /\ lock = NoProc

MoveToTrash(p) ==
  /\ Movable
  /\ Move(p, "moving", "idle")
  /\ place' = "trash"
  /\ UNCHANGED <<marker, schema, revision, manifest, backups, lock, memory,
                 user, crashes>>

MoveFails(p) ==
  /\ ~Movable \/ "move" \in Faults
  /\ Move(p, "moving", "unmarking")
  /\ UNCHANGED <<disk, lock, memory, user, crashes>>

\* Mutant: the marker stays where it is.
Unmark_Skipped == marker

\* unlink(missing_ok=True) at the original path.
Unmark == IF InProjects THEN FALSE ELSE marker

DeleteUnmarks(p) ==
  /\ Move(p, "unmarking", "idle")
  /\ marker' = Unmark
  /\ UNCHANGED <<place, schema, revision, manifest, backups, lock, memory, user,
                 crashes>>

-----------------------------------------------------------------------------
Crash(p) ==
  /\ crashes < MaxCrashes /\ pc[p] # "idle"
  /\ crashes' = crashes + 1
  /\ GoTo(p, "idle")
  /\ Release(p)
  /\ UNCHANGED <<disk, memory, user>>

CreateStep(p) == CreateDatabase(p) \/ CreateManifest(p)

OpenStep(p) ==
  \/ OpenChecksMarker(p) \/ OpenReadsManifest(p) \/ OpenLocks(p)
  \/ OpenRefused(p)
  \/ BackUpBeforeMigration(p) \/ MigrateOneVersion(p)
  \/ MigrationWritesManifest(p)
  \/ OpenSucceeds(p) \/ OpenFails(p)

EditStep(p) ==
  \/ CommitEdit(p) \/ EditWritesManifest(p) \/ EditManifestFails(p)
  \/ Refresh(p) \/ Close(p)

DeleteStep(p) ==
  \/ DeleteReadsManifest(p) \/ DeleteLocks(p) \/ DeleteRefused(p)
  \/ DeleteMarks(p) \/ DeleteReleases(p)
  \/ MoveToTrash(p) \/ MoveFails(p) \/ DeleteUnmarks(p)

Next ==
  \E p \in Procs :
    CreateStep(p) \/ OpenStep(p) \/ EditStep(p) \/ DeleteStep(p) \/ Crash(p)

Spec == Init /\ [][Next]_vars

-----------------------------------------------------------------------------
(* Safety.                                                                 *)

\* Between the lock and its release a process is alone in the directory, also
\* after kills, failed openings and deletions that ran into one another
\* (_ProjectLock in __init__ and delete_project).
OneProcessInside ==
  \A p, q \in Procs : pc[p] \in LockPoints /\ pc[q] \in LockPoints => p = q

\* The manifest never runs ahead of the database, whatever step a kill or a
\* failed write comes after: the database commits first.
ManifestNotAhead ==
  manifest.revision <= revision /\ manifest.schema <= schema

\* When an opening or an edit has been answered with success, the manifest in
\* the directory has the revision of the database, whatever was lost before
\* (the repair in __init__, _write_manifest_revision).
AnsweredRevisionIsOnDisk ==
  \A p \in Procs :
    pc[p] = "open" /\ answer[p] = "ok" => manifest.revision = revision

\* A project somebody has open is where the project list says it is: the trash
\* never receives a directory in use.
OpenProjectStaysInPlace ==
  \A p \in Procs : pc[p] \in LockPoints => place = "projects"

\* Unless a process was killed, the marker is in a listed project only while a
\* deletion is under way: a failed move takes it away again.
MarkerHasDeleter ==
  crashes = 0 /\ marker /\ InProjects =>
    \E p \in Procs : pc[p] \in {"marked", "moving", "unmarking"}

\* "Opening refuses when it sees the marker, which avoids a new opening between
\* the release of the lock and the move".
NoOpeningBeforeTheMove ==
  \A p, q \in Procs : pc[p] = "moving" => pc[q] # "open"

-----------------------------------------------------------------------------
(* Action properties.                                                      *)

\* A user who was told of an error for an edit that is stored, because the write
\* of the manifest failed after COMMIT, cannot store it again: the repetition is
\* refused until some answer has told the new revision (save_entity,
\* _write_manifest_revision). Any reading request does, also one that does not
\* show what was edited.
RepetitionIsRefused ==
  [][\A p \in Procs :
       pc[p] = "open" /\ pc'[p] = "committed" => p \notin unshown]_vars

\* No transaction of a migration commits without a backup of the same revision
\* made before the version it replaces: an interrupted migration that goes on
\* has backed up again, and nothing was edited in between.
MigrationHasRestorePoint ==
  [][schema' # schema =>
       \E b \in backups : b.schema <= schema /\ b.revision = revision]_vars
=============================================================================
