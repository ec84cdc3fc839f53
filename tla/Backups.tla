------------------------------ MODULE Backups ------------------------------
(***************************************************************************)
(* The backups of the projects of one workspace: BackupService             *)
(* (sidecar/stt_desktop/backups/service.py) and the handlers that back up  *)
(* before a deletion or an import, after the first saving of a day, on     *)
(* request, and that restore an archive as a new project (api/app.py).     *)
(*                                                                         *)
(* A backup is an archive file and, in the database of its project, a      *)
(* record. The archive contains a copy of that database, records included, *)
(* so a restored project inherits the records of its source. The handlers  *)
(* do not interleave; the program may be killed between two of the steps   *)
(* below.                                                                  *)
(***************************************************************************)
EXTENDS Naturals, FiniteSets

CONSTANTS
  Projects,    \* project identifiers
  NoProject,   \* no project is open
  Source,      \* the project the workspace begins with
  Keep,        \* automatic backups that are kept (10 in the code)
  MaxBackups,  \* bound: archives made
  MaxEvents    \* bound: days that pass and kills, taken together

ASSUME SourceAssumption  == Source \in Projects /\ NoProject \notin Projects
ASSUME KeepAssumption    == Keep \in Nat \ {0}
ASSUME BoundsAssumption  ==
  MaxBackups \in Nat /\ MaxEvents \in Nat

VARIABLES
  projects,  \* the projects that exist
  records,   \* backup_records of a project
  archives,  \* the .sttbackup files, each in the directory of its owner; fresh as
             \* long as the owner's business data are the ones in the archive
  current,   \* the open project
  task,      \* the backup in progress: its reason, "none" without one
  point,     \* how far it has come
  victim,    \* the records whose file _prune_automatic_backups has unlinked
  attempt,   \* how the last automatic backup of the open project ended
  made,      \* archives made so far; gives every backup a new id, and the
             \* order of created_at: the clock is never set back here
  day,       \* the local day of the last saving
  crashes

store   == <<projects, archives>>
backup  == <<task, point, victim>>
times   == <<made, day>>
vars    == <<store, records, current, backup, attempt, times, crashes>>

Automatic == {"daily", "destructive"}   \* "destructive" covers pre-import too
Reasons   == Automatic \cup {"manual"}

Records == [id : Nat, owner : Projects, reason : Reasons, retained : BOOLEAN, day : Nat]

Idle == task = "none"

TypeOK ==
  /\ projects \subseteq Projects
  /\ records \in [Projects -> SUBSET Records]
  /\ \A a \in archives : /\ a.id \in Nat /\ a.owner \in Projects
                         /\ a.fresh \in BOOLEAN /\ a.records \subseteq Records
  /\ current \in projects \cup {NoProject}
  /\ task \in Reasons \cup {"none"}
  /\ point \in {"none", "staging", "archived", "recorded", "pruned"}
  /\ victim \subseteq Records /\ Cardinality(victim) <= 1
  /\ attempt \in {"none", "ok", "error"}
  /\ made \in Nat /\ day \in Nat
  /\ crashes \in Nat

Init ==
  /\ projects = {Source}
  /\ records = [p \in Projects |-> {}]
  /\ archives = {}
  /\ current = Source
  /\ task = "none" /\ point = "none" /\ victim = {}
  /\ attempt = "none"
  /\ made = 0 /\ day = 0
  /\ crashes = 0

-----------------------------------------------------------------------------
(* create_backup.                                                          *)

Begin(reason) ==
  /\ made < MaxBackups
  /\ task' = reason /\ point' = "staging" /\ victim' = {}
  /\ attempt' = IF reason = "manual" THEN attempt ELSE "none"

End(outcome) ==
  /\ task' = "none" /\ point' = "none" /\ victim' = {}
  /\ attempt' = IF task \in Automatic THEN outcome ELSE attempt

Advance(from, to) ==
  point = from /\ point' = to /\ UNCHANGED <<task, attempt>>

ThisId(x) == x.id = made

\* The staged copy of the database does not have the new record yet.
WriteArchive ==
  /\ Advance("staging", "archived")
  /\ made' = made + 1
  /\ archives' = archives \cup
       {[id |-> made + 1, owner |-> current, fresh |-> TRUE,
         records |-> records[current]]}
  /\ UNCHANGED <<projects, records, current, victim, day, crashes>>

ArchiveFails ==
  /\ point = "staging"
  /\ End("error")
  /\ UNCHANGED <<store, records, current, times, crashes>>

WriteRecord ==
  /\ Advance("archived", "recorded")
  /\ \E retained \in IF task = "manual" THEN BOOLEAN ELSE {FALSE} :
       records' = [records EXCEPT ![current] = @ \cup
         {[id |-> made, owner |-> current, reason |-> task,
           retained |-> retained, day |-> day]}]
  /\ UNCHANGED <<store, current, victim, times, crashes>>

\* The copy of a manual backup to the user's folder raises: archive and record
\* stay.
CopyFails ==
  /\ point = "recorded" /\ task = "manual"
  /\ End("error")
  /\ UNCHANGED <<store, records, current, times, crashes>>

-----------------------------------------------------------------------------
(* _prune_automatic_backups: the records beyond the newest Keep, newest    *)
(* first, file before row.                                                 *)

Prunable(p) == {r \in records[p] : ~r.retained /\ r.reason \in Automatic}

\* Mutant: in ascending order, so that the newest are beyond the limit.
Newer_Ascending(r, s) == s.id < r.id

Newer(r, s) == s.id > r.id

Excess(p) ==
  {r \in Prunable(p) : Cardinality({s \in Prunable(p) : Newer(r, s)}) >= Keep}

NextVictim(r) == r \in Excess(current) /\ \A s \in Excess(current) : ~Newer(r, s)

Pruning == task \in Automatic /\ point = "recorded"

\* Mutant: the directory of the path is not compared with the project.
OwnPath_Unchecked(r) == TRUE

OwnPath(r) == r.owner = current

PruneUnlinks ==
  /\ Pruning /\ victim = {}
  /\ \E r \in Excess(current) :
       /\ NextVictim(r) /\ OwnPath(r)
       /\ victim' = {r}
       /\ archives' = {a \in archives : a.id # r.id}
  /\ UNCHANGED <<projects, records, current, task, point, attempt,
                 times, crashes>>

\* Mutant: the row stays.
DeleteRow_Skipped == UNCHANGED records

DeleteRow == records' = [records EXCEPT ![current] = @ \ victim]

PruneDeletesRow ==
  /\ Pruning /\ victim # {}
  /\ DeleteRow
  /\ victim' = {}
  /\ UNCHANGED <<store, current, task, point, attempt, times, crashes>>

\* A record whose path lies in another project's directory.
PruneRefuses ==
  /\ Pruning /\ victim = {}
  /\ \E r \in Excess(current) : NextVictim(r) /\ ~OwnPath(r)
  /\ End("error")
  /\ UNCHANGED <<store, records, current, times, crashes>>

PruneDone ==
  /\ Pruning /\ victim = {} /\ Excess(current) = {}
  /\ Advance("recorded", "pruned")
  /\ UNCHANGED <<store, records, current, victim, times, crashes>>

BackupDone ==
  /\ \/ task = "manual" /\ point = "recorded"
     \/ task = "daily" /\ point = "pruned"
  /\ End("ok")
  /\ UNCHANGED <<store, records, current, times, crashes>>

-----------------------------------------------------------------------------
(* The handlers.                                                           *)

\* Mutant: the deletion runs ahead of its backup.
MayDestroy_AtOnce == point \in {"staging", "pruned"}

MayDestroy == point = "pruned"

\* save_entity, delete_entity and confirm_import change the business data.
Changed ==
  archives' = {[a EXCEPT !.fresh = @ /\ a.owner # current] : a \in archives}

\* delete_entity or confirm_import after its backup.
Destroy ==
  /\ task = "destructive" /\ MayDestroy
  /\ Changed
  /\ End("ok")
  /\ UNCHANGED <<projects, records, current, times, crashes>>

\* The entity does not exist, or the import turns out to be invalid.
DestroyNothing ==
  /\ task = "destructive" /\ point = "pruned"
  /\ End("ok")
  /\ UNCHANGED <<store, records, current, times, crashes>>

RequestDestruction ==
  /\ Idle /\ current # NoProject
  /\ Begin("destructive")
  /\ UNCHANGED <<store, records, current, times, crashes>>

RequestBackup ==
  /\ Idle /\ current # NoProject
  /\ Begin("manual")
  /\ UNCHANGED <<store, records, current, times, crashes>>

\* Mutant: the newest daily record is not found.
DailyMade_Never(p, today) == FALSE

\* create_daily_backup_if_needed looks at the newest daily record only.
DailyMade(p, today) ==
  \E r \in records[p] :
    /\ r.reason = "daily" /\ r.day = today
    /\ \A s \in records[p] : s.reason = "daily" => ~Newer(r, s)

SaveEntity ==
  /\ Idle /\ current # NoProject
  /\ Changed
  /\ day' \in {day, day + 1} /\ day' + crashes <= MaxEvents
  /\ IF DailyMade(current, day') THEN UNCHANGED <<backup, attempt>>
     ELSE Begin("daily")
  /\ UNCHANGED <<projects, records, current, made, crashes>>

SetRetained ==
  /\ Idle /\ current # NoProject
  /\ \E r \in records[current], retained \in BOOLEAN :
       /\ r.retained # retained
       /\ records' = [records EXCEPT ![current] =
            (@ \ {r}) \cup {[r EXCEPT !.retained = retained]}]
  /\ attempt' = "none"
  /\ UNCHANGED <<store, current, backup, times, crashes>>

\* Mutant: nothing of the archive but its data is taken over.
RestoredRecords_None(a) == {}

\* The database of the archive, records included, under a new project id.
RestoredRecords(a) == a.records

Placed(p) == projects' = projects \cup {p}

RestoreBackup(a, p) ==
  /\ Idle /\ current # NoProject /\ p \notin projects
  /\ Placed(p)
  /\ records' = [records EXCEPT ![p] = RestoredRecords(a)]
  /\ current' = p
  /\ attempt' = "none"
  /\ UNCHANGED <<archives, backup, times, crashes>>

OpenProject(p) ==
  /\ Idle /\ p \in projects \ {current}
  /\ current' = p
  /\ attempt' = "none"
  /\ UNCHANGED <<store, records, backup, times, crashes>>

\* A kill between two handlers closes the project and changes nothing else.
Crash ==
  /\ ~Idle
  /\ day + crashes < MaxEvents
  /\ crashes' = crashes + 1
  /\ task' = "none" /\ point' = "none" /\ victim' = {}
  /\ current' = NoProject
  /\ attempt' = "none"
  /\ UNCHANGED <<store, records, times>>

BackupStep ==
  \/ WriteArchive \/ ArchiveFails \/ WriteRecord \/ CopyFails
  \/ PruneUnlinks \/ PruneDeletesRow \/ PruneRefuses \/ PruneDone
  \/ BackupDone \/ Destroy \/ DestroyNothing

Request ==
  \/ RequestDestruction \/ RequestBackup \/ SaveEntity \/ SetRetained
  \/ \E a \in archives, p \in Projects : RestoreBackup(a, p)
  \/ \E p \in Projects : OpenProject(p)

Next == BackupStep \/ Request \/ Crash

Spec == Init /\ [][Next]_vars

-----------------------------------------------------------------------------
(* Safety.                                                                 *)

OwnArchive(p, r) == \E a \in archives : a.id = r.id /\ a.owner = p

\* A record of a backup this project made has its archive: nobody else's
\* pruning takes it, and pruning takes both. Being killed between unlink and
\* DELETE costs one record its archive, and never more than one.
OwnRecordsHaveArchives ==
  \A p \in projects :
    Cardinality({r \in records[p] \ victim : r.owner = p /\ ~OwnArchive(p, r)})
      <= crashes

\* "Only the newest 10 automatic backups are kept": after every automatic
\* backup, however it ended.
OnlyNewestAreKept ==
  Idle /\ attempt # "none" => Cardinality(Prunable(current)) <= Keep

-----------------------------------------------------------------------------
(* Action properties.                                                      *)

\* "A pre-destructive backup is made before an entity is deleted": when data
\* are destroyed, an archive of the project with exactly those data exists.
DestructionIsBackedUp ==
  [][Destroy => \E a \in archives : a.owner = current /\ a.fresh]_vars

\* Pruning never deletes an archive of another project, although a restored
\* project has the records of its source among its own.
PruningSparesOtherProjects ==
  [][\A a \in archives :
       a.owner = current \/ \E b \in archives' : b.id = a.id]_vars
=============================================================================
