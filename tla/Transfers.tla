------------------------------ MODULE Transfers ------------------------------
(***************************************************************************)
(* Spreadsheets on their way into a project (ImportService,                *)
(* transfers/importer.py), candidates and templates on their way out       *)
(* (ExportService, transfers/exporter.py), and the edits of the business   *)
(* data around them (ProjectRepository, storage/project.py).               *)
(*                                                                         *)
(* The handlers have no await, so inside the sidecar nothing comes between *)
(* two of their statements. But each statement commits by itself, any of   *)
(* them may raise, and the sidecar may be killed after it: `loop' says     *)
(* where the handler is, and what it holds in memory.                      *)
(*                                                                         *)
(* "teacher" stands for the six types of records that are known by their   *)
(* name alone; the subject of a plan or a task is left out. Ids are never  *)
(* used again: a revision and a place in its batch.                        *)
(***************************************************************************)
EXTENDS Naturals, Sequences, FiniteSets

CONSTANTS
  Sheets,      \* the files a user may import
  ImportIds,   \* import jobs; uuid7 makes a new id for each
  ExportIds,   \* export jobs of candidates
  TemplateIds, \* export jobs of templates
  Names,       \* names of teachers
  Staff,       \* those of the teachers that are there at the start
  Terms,
  Homerooms,
  None,        \* NULL
  Faults,      \* the operations that may raise in this instance
  MaxTransfers, \* bound: imports and exports together
  MaxRevision, \* bound: edits
  MaxCrashes   \* bound: how often the sidecar is killed

FaultKinds ==
  {"raise",    \* a statement or a file operation of a handler
   "export"}   \* one inside the try block of export_candidate

RowsOfType(type) ==
  CASE type = "teacher"       -> [name : Names]
    [] type = "course_plan"   -> [homeroom : Homerooms, term : Terms \cup {None}]
    [] type = "teaching_task" ->
         [homeroom : Homerooms, term : Terms \cup {None}, teacher : Names,
          weekly : Nat, duration : Nat \ {0}]

Types == {"teacher", "course_plan", "teaching_task"}

ASSUME SheetsAssumption ==
  \A s \in Sheets : s.type \in Types /\ s.rows \in Seq(RowsOfType(s.type))
ASSUME IdsAssumption == ExportIds \cap TemplateIds = {}
ASSUME NoneAssumption == None \notin Terms
ASSUME StaffAssumption == Staff \subseteq Names /\ IsFiniteSet(Staff)
ASSUME FaultsAssumption == Faults \subseteq FaultKinds
ASSUME BoundsAssumption == {MaxTransfers, MaxRevision, MaxCrashes} \subseteq Nat

VARIABLES
  \* the business data
  termOf,      \* the term of each homeroom
  teachers, plans, tasks, lessons,
  revision,
  \* the transfers
  imports,     \* import_jobs
  stored,      \* attachments/imports: the contents of the file of each job
  attachments, \* rows of attachments
  exports,     \* export_jobs.status
  produced,    \* artifacts/exports: the jobs with a file
  artifacts,   \* rows of artifacts
  cutOff,      \* history: the exports that ended without a last word
  \* the sidecar
  loop,
  crashes

data  == <<termOf, teachers, plans, tasks, lessons, revision>>
jobs  == <<imports, stored, attachments>>
outs  == <<exports, produced, artifacts, cutOff>>
vars  == <<data, jobs, outs, loop, crashes>>

\* The optional columns a mapping may use.
Columns(sheet) == SUBSET (IF sheet.type = "teacher" THEN {} ELSE {"term_name"})

OutIds == ExportIds \cup TemplateIds

NoJob  == [status |-> "absent"]
NoFile == [type |-> "absent"]

\* The sheet whose sha256 is in the summary, the one that was shown last, and the
\* columns chosen with it.
JobRows ==
  [status : {"preview", "confirmed", "abandoned"}, sheet : Sheets, shown : Sheets,
   columns : SUBSET {"term_name"}]

Idle == [at |-> "idle"]

ImportPoints == {"stored", "digested", "listed", "checked", "backed up", "inserted"}
ExportPoints == {"exporting", "produced", "succeeded"}
TemplatePoints == {"filled", "recorded"}

TypeOK ==
  /\ imports \in [ImportIds -> JobRows \cup {NoJob}]
  /\ stored \in [ImportIds -> Sheets \cup {NoFile}]
  /\ attachments \subseteq ImportIds
  /\ exports \in [OutIds -> {"absent", "running", "succeeded", "failed"}]
  /\ produced \subseteq OutIds /\ artifacts \subseteq OutIds /\ cutOff \subseteq ExportIds
  /\ revision \in Nat
  /\ crashes \in 0..MaxCrashes

Init ==
  /\ termOf \in [Homerooms -> Terms \cup {None}]
  /\ teachers = {[id |-> <<0, n>>, name |-> n] : n \in Staff}
  /\ plans = {} /\ tasks = {} /\ lessons = {}
  /\ revision = 0
  /\ imports = [j \in ImportIds |-> NoJob]
  /\ stored = [j \in ImportIds |-> NoFile]
  /\ attachments = {}
  /\ exports = [e \in OutIds |-> "absent"]
  /\ produced = {} /\ artifacts = {} /\ cutOff = {}
  /\ loop = Idle
  /\ crashes = 0

-----------------------------------------------------------------------------
Ready == loop = Idle

\* Another transfer may start.
Room ==
  Cardinality({j \in ImportIds : stored[j] # NoFile})
    + Cardinality({e \in OutIds : exports[e] # "absent" \/ e \in produced}) < MaxTransfers

Id(i) == <<revision + 1, i>>

\* _begin_write and _commit_write around the statements of an edit; the caller's
\* expected revision is the current one, any other is refused.
Commit == revision < MaxRevision /\ revision' = revision + 1

At(point, j) == loop.at = point /\ loop.job = j

GoTo(point, j) == loop' = [at |-> point, job |-> j]

\* The loop that splits the weekly slots of a task, in bulk imports and in
\* save_teaching_task_bundle. Lessons are counted from 1 here.
LessonLengths(task) ==
  [i \in 1 .. (task.weekly + task.duration - 1) \div task.duration |->
     IF i * task.duration <= task.weekly
       THEN task.duration
       ELSE task.weekly - (i - 1) * task.duration]

LessonsOf(task) ==
  {[task |-> task.id, index |-> i, duration |-> LessonLengths(task)[i]] :
     i \in DOMAIN LessonLengths(task)}

LessonRowsOf(id) == {l \in lessons : l.task = id}

-----------------------------------------------------------------------------
(* Reading a sheet: _normalize_rows. Every check is made against the data  *)
(* as they are when the sheet is read.                                     *)

\* _resolve_mapping and the table read with it.
Read(sheet, columns) ==
  IF sheet.type = "teacher" \/ "term_name" \in columns
    THEN sheet.rows
    ELSE [i \in DOMAIN sheet.rows |-> [sheet.rows[i] EXCEPT !.term = None]]

\* A row without a term takes that of its homeroom.
TermOf(row) == IF row.term = None THEN termOf[row.homeroom] ELSE row.term

Called(name) == {t \in teachers : t.name = name}

TeacherOf(row) == (CHOOSE t \in Called(row.teacher) : TRUE).id

PlansFor(row) == {p \in plans : p.homeroom = row.homeroom /\ p.term = TermOf(row)}

PlanOf(row) ==
  IF PlansFor(row) = {} THEN None ELSE (CHOOSE p \in PlansFor(row) : TRUE).id

\* _resolve_references: a name that is not unique refers to nothing.
Resolvable(type, row) ==
  type = "teaching_task" =>
    Cardinality(Called(row.teacher)) = 1 /\ Cardinality(PlansFor(row)) <= 1

\* _duplicate_key
Key(type, row) ==
  CASE type = "teacher"       -> <<row.name>>
    [] type = "course_plan"   -> <<TermOf(row), row.homeroom>>
    [] type = "teaching_task" -> <<TermOf(row), row.homeroom, TeacherOf(row)>>

\* The same keys of the records in the tables: _check_existing_duplicate.
KeysInTables(type) ==
  CASE type = "teacher"       -> {<<t.name>> : t \in teachers}
    [] type = "course_plan"   -> {<<p.term, p.homeroom>> : p \in plans}
    [] type = "teaching_task" -> {<<t.term, t.homeroom, t.teacher>> : t \in tasks}

\* Mutant: only the rows of the same sheet are compared.
TakenBefore_OnlyInFile(type, rows, i) ==
  \E h \in 1 .. i - 1 : Resolvable(type, rows[h]) /\ Key(type, rows[h]) = Key(type, rows[i])

TakenBefore(type, rows, i) ==
  \/ Key(type, rows[i]) \in KeysInTables(type)
  \/ \E h \in 1 .. i - 1 :
       Resolvable(type, rows[h]) /\ Key(type, rows[h]) = Key(type, rows[i])

\* A sheet without errors; it may be one without rows.
Accepted(type, rows) ==
  \A i \in DOMAIN rows : Resolvable(type, rows[i]) /\ ~TakenBefore(type, rows, i)

-----------------------------------------------------------------------------
(* Imports.                                                                *)

\* preview_file: the copy is in place before anything is said of it.
StoreFile(j) ==
  /\ Ready /\ Room /\ imports[j] = NoJob /\ stored[j] = NoFile
  /\ \E s \in Sheets : stored' = [stored EXCEPT ![j] = s]
  /\ GoTo("stored", j)
  /\ UNCHANGED <<data, imports, attachments, outs, crashes>>

\* The digest of the copy is taken before the copy is read.
DigestStored(j) ==
  /\ At("stored", j)
  /\ loop' = [at |-> "digested", job |-> j, sheet |-> stored[j]]
  /\ UNCHANGED <<data, jobs, outs, crashes>>

Unlink(j) == [stored EXCEPT ![j] = NoFile]

\* _preview raises: no table, no header, a required column is missing.
PreviewFails(j) ==
  /\ At("digested", j)
  /\ stored' = Unlink(j)
  /\ loop' = Idle
  /\ UNCHANGED <<data, imports, attachments, outs, crashes>>

\* The type of the request is that of the sheet that could be read.
PreviewListed(j) ==
  /\ At("digested", j)
  /\ \E columns \in Columns(stored[j]) :
       imports' = [imports EXCEPT ![j] =
         [status |-> "preview", sheet |-> loop.sheet, shown |-> stored[j], columns |-> columns]]
  /\ GoTo("listed", j)
  /\ UNCHANGED <<data, stored, attachments, outs, crashes>>

PreviewAttached(j) ==
  /\ At("listed", j)
  /\ attachments' = attachments \cup {j}
  /\ loop' = Idle
  /\ UNCHANGED <<data, imports, stored, outs, crashes>>

\* _preview_job
InPreview(j) == imports[j] # NoJob /\ imports[j].status = "preview"

\* remap_preview reads and shows the copy as it is; its digest is neither compared
\* nor taken again.
RemapPreview(j) ==
  /\ Ready /\ InPreview(j)
  /\ \E columns \in Columns(stored[j]) :
       imports' = [imports EXCEPT ![j].shown = stored[j], ![j].columns = columns]
  /\ UNCHANGED <<data, stored, attachments, outs, loop, crashes>>

\* Mutant: the digest is not compared.
AsPreviewed_Unchecked(j) == TRUE

\* The digest of the stored file is the one of the preview.
AsPreviewed(j) == stored[j] = imports[j].sheet

\* `swapped' is history: the copy was written after its digest was compared.
Checked(j, swapped) == [at |-> "checked", job |-> j, swapped |-> swapped]

\* confirm_import: first the digest of the copy.
CheckStored(j) ==
  /\ Ready /\ InPreview(j) /\ revision < MaxRevision
  /\ AsPreviewed(j)
  /\ loop' = Checked(j, FALSE)
  /\ UNCHANGED <<data, jobs, outs, crashes>>

RowsRead(j) == Read(stored[j], imports[j].columns)

Importable(j) == Accepted(stored[j].type, RowsRead(j))

\* Then the copy is read again, up to the pre-import backup. The records are in
\* memory now.
ReadStored(j) ==
  /\ At("checked", j) /\ Importable(j)
  /\ loop' = [at |-> "backed up", job |-> j, swapped |-> loop.swapped,
              type |-> stored[j].type, rows |-> RowsRead(j)]
  /\ UNCHANGED <<data, jobs, outs, crashes>>

ConfirmRefused(j) ==
  /\ At("checked", j) /\ ~Importable(j)
  /\ loop' = Idle
  /\ UNCHANGED <<data, jobs, outs, crashes>>

InsertTeachers ==
  /\ loop.type = "teacher"
  /\ teachers' = teachers \cup
       {[id |-> Id(i), name |-> loop.rows[i].name] : i \in DOMAIN loop.rows}
  /\ UNCHANGED <<termOf, plans, tasks, lessons>>

InsertPlans ==
  /\ loop.type = "course_plan"
  /\ plans' = plans \cup
       {[id |-> Id(i), homeroom |-> loop.rows[i].homeroom, term |-> TermOf(loop.rows[i])] :
          i \in DOMAIN loop.rows}
  /\ UNCHANGED <<termOf, teachers, tasks, lessons>>

TaskFrom(i) ==
  LET row == loop.rows[i]
  IN  [id |-> Id(i), homeroom |-> row.homeroom, term |-> TermOf(row),
       teacher |-> TeacherOf(row), plan |-> PlanOf(row),
       weekly |-> row.weekly, duration |-> row.duration]

InsertTasks ==
  /\ loop.type = "teaching_task"
  /\ tasks' = tasks \cup {TaskFrom(i) : i \in DOMAIN loop.rows}
  /\ lessons' = lessons \cup UNION {LessonsOf(TaskFrom(i)) : i \in DOMAIN loop.rows}
  /\ UNCHANGED <<termOf, teachers, plans>>

\* bulk_insert_entities: the whole sheet in one transaction.
InsertBatch(j) ==
  /\ At("backed up", j)
  /\ InsertTeachers \/ InsertPlans \/ InsertTasks
  /\ Commit
  /\ GoTo("inserted", j)
  /\ UNCHANGED <<jobs, outs, crashes>>

\* The status is a statement of its own, after the transaction of the rows and
\* the write of manifest.json.
ImportConfirmed(j) ==
  /\ At("inserted", j)
  /\ imports' = [imports EXCEPT ![j].status = "confirmed"]
  /\ loop' = Idle
  /\ UNCHANGED <<data, stored, attachments, outs, crashes>>

Abandon(j) ==
  /\ Ready /\ InPreview(j)
  /\ imports' = [imports EXCEPT ![j].status = "abandoned"]
  /\ UNCHANGED <<data, stored, attachments, outs, loop, crashes>>

\* Not the program: someone saves another sheet over the stored copy, or puts the
\* first one back, also between two reads of a handler (bounds: while the copy is
\* still to be read, of one listed job, and by a sheet of the same type; one of
\* another type lacks a column, and reading it raises).
ReplaceStored(j) ==
  /\ InPreview(j) \/ At("stored", j) \/ At("digested", j)
  /\ \A k \in ImportIds \ {j} : imports[k] # NoJob => stored[k] = imports[k].sheet
  /\ \E s \in {sheet \in Sheets : sheet.type = stored[j].type} :
       stored' = [stored EXCEPT ![j] = s]
  /\ loop' = IF At("checked", j) THEN Checked(j, TRUE) ELSE loop
  /\ UNCHANGED <<data, imports, attachments, outs, crashes>>

-----------------------------------------------------------------------------
(* Exports and templates.                                                  *)

\* export_candidate of a valid candidate without violations: "running" first.
ExportStarts(e) ==
  /\ Ready /\ Room /\ exports[e] = "absent" /\ e \notin produced
  /\ exports' = [exports EXCEPT ![e] = "running"]
  /\ GoTo("exporting", e)
  /\ UNCHANGED <<data, jobs, produced, artifacts, cutOff, crashes>>

ExportProduces(e) ==
  /\ At("exporting", e)
  /\ produced' = produced \cup {e}
  /\ GoTo("produced", e)
  /\ UNCHANGED <<data, jobs, exports, artifacts, cutOff, crashes>>

\* After the copy to the user's destination, if one was given.
ExportSucceeds(e) ==
  /\ At("produced", e)
  /\ exports' = [exports EXCEPT ![e] = "succeeded"]
  /\ GoTo("succeeded", e)
  /\ UNCHANGED <<data, jobs, produced, artifacts, cutOff, crashes>>

ExportRegistered(e) ==
  /\ At("succeeded", e)
  /\ artifacts' = artifacts \cup {e}
  /\ loop' = Idle
  /\ UNCHANGED <<data, jobs, exports, produced, cutOff, crashes>>

\* Mutant: a success stays a success.
FailedExport_KeepsSuccess(e) ==
  IF exports[e] = "succeeded" THEN exports ELSE [exports EXCEPT ![e] = "failed"]

FailedExport(e) == [exports EXCEPT ![e] = "failed"]

\* The except branch, which also catches a failing insert of the artifact.
ExportFails(e) ==
  /\ "export" \in Faults
  /\ loop.at \in ExportPoints /\ loop.job = e
  /\ exports' = FailedExport(e)
  /\ loop' = Idle
  /\ UNCHANGED <<data, jobs, produced, artifacts, cutOff, crashes>>

\* The UPDATE of the except branch raises as well: the row stays as it was.
FailureUnrecorded(e) ==
  /\ Faults = FaultKinds
  /\ loop.at \in ExportPoints /\ loop.job = e
  /\ loop' = Idle
  /\ cutOff' = cutOff \cup {e}
  /\ UNCHANGED <<data, jobs, exports, produced, artifacts, crashes>>

\* create_template: the file and its copy come before the first row.
TemplateFilled(e) ==
  /\ Ready /\ Room /\ exports[e] = "absent" /\ e \notin produced
  /\ produced' = produced \cup {e}
  /\ GoTo("filled", e)
  /\ UNCHANGED <<data, jobs, exports, artifacts, cutOff, crashes>>

TemplateRecorded(e) ==
  /\ At("filled", e)
  /\ exports' = [exports EXCEPT ![e] = "succeeded"]
  /\ GoTo("recorded", e)
  /\ UNCHANGED <<data, jobs, produced, artifacts, cutOff, crashes>>

TemplateRegistered(e) ==
  /\ At("recorded", e)
  /\ artifacts' = artifacts \cup {e}
  /\ loop' = Idle
  /\ UNCHANGED <<data, jobs, exports, produced, cutOff, crashes>>

-----------------------------------------------------------------------------
(* Edits. Each is one transaction; what the write of manifest.json after   *)
(* it may do is in ProjectDirectory.                                       *)

\* save_entity
SaveTeacher ==
  /\ \E n \in Names :
       \/ teachers' = teachers \cup {[id |-> Id(1), name |-> n]}
       \/ \E t \in teachers :
            teachers' = (teachers \ {t}) \cup {[t EXCEPT !.name = n]}
  /\ UNCHANGED <<termOf, plans, tasks, lessons>>

SaveHomeroom ==
  /\ \E h \in Homerooms, term \in Terms \cup {None} :
       termOf' = [termOf EXCEPT ![h] = term]
  /\ UNCHANGED <<teachers, plans, tasks, lessons>>

\* UNIQUE (term_id, homeroom_id, subject_id) holds of rows with a term.
SavePlan ==
  /\ \E h \in Homerooms, term \in Terms \cup {None} :
       /\ term # None => <<term, h>> \notin KeysInTables("course_plan")
       /\ plans' = plans \cup {[id |-> Id(1), homeroom |-> h, term |-> term]}
  /\ UNCHANGED <<termOf, teachers, tasks, lessons>>

\* Mutant: the lessons of the old number of slots stay.
RegeneratedLessons_Added(task) == lessons \cup LessonsOf(task)

RegeneratedLessons(task) == (lessons \ LessonRowsOf(task.id)) \cup LessonsOf(task)

\* save_teaching_task_bundle, which looks for no duplicate: of a task that exists
\* the numbers change, a new one has no plan.
SaveTask ==
  /\ \E s \in {sheet \in Sheets : sheet.type = "teaching_task"} : \E i \in DOMAIN s.rows :
       LET row   == s.rows[i]
           new   == {[id |-> Id(1), homeroom |-> row.homeroom, term |-> row.term,
                      teacher |-> t.id, plan |-> None,
                      weekly |-> row.weekly, duration |-> row.duration] : t \in teachers}
           saved == {[t EXCEPT !.weekly = row.weekly, !.duration = row.duration] : t \in tasks}
       IN  \E task \in new \cup saved :
             /\ tasks' = {t \in tasks : t.id # task.id} \cup {task}
             /\ lessons' = RegeneratedLessons(task)
  /\ UNCHANGED <<termOf, teachers, plans>>

\* delete_entity: ON DELETE SET NULL, ON DELETE CASCADE.
DeleteTeacher ==
  /\ \E t \in teachers :
       /\ teachers' = teachers \ {t}
       /\ tasks' = {[k EXCEPT !.teacher = IF @ = t.id THEN None ELSE @] : k \in tasks}
  /\ UNCHANGED <<termOf, plans, lessons>>

DeletePlan ==
  /\ \E p \in plans :
       /\ plans' = plans \ {p}
       /\ tasks' = {[k EXCEPT !.plan = IF @ = p.id THEN None ELSE @] : k \in tasks}
  /\ UNCHANGED <<termOf, teachers, lessons>>

DeleteTask ==
  /\ \E t \in tasks :
       tasks' = tasks \ {t} /\ lessons' = lessons \ LessonRowsOf(t.id)
  /\ UNCHANGED <<termOf, teachers, plans>>

Edit ==
  /\ Ready /\ Commit
  /\ \/ SaveTeacher \/ SaveHomeroom \/ SavePlan \/ SaveTask
     \/ DeleteTeacher \/ DeletePlan \/ DeleteTask
  /\ UNCHANGED <<jobs, outs, loop, crashes>>

-----------------------------------------------------------------------------
\* Any statement or file operation of an import or a template raises, the write
\* of the manifest included: nothing is taken back.
HandlerRaises ==
  /\ "raise" \in Faults
  /\ loop.at \in ImportPoints \cup TemplatePoints
  /\ loop' = Idle
  /\ UNCHANGED <<data, jobs, outs, crashes>>

\* The sidecar is killed in a handler, and the project opened again. Between
\* handlers there is nothing to lose.
KilledAndReopened ==
  /\ loop # Idle /\ crashes < MaxCrashes
  /\ loop' = Idle
  /\ crashes' = crashes + 1
  /\ cutOff' = IF loop.at \in ExportPoints THEN cutOff \cup {loop.job} ELSE cutOff
  /\ UNCHANGED <<data, jobs, exports, produced, artifacts>>

ImportStep(j) ==
  \/ StoreFile(j) \/ DigestStored(j) \/ PreviewFails(j) \/ PreviewListed(j)
  \/ PreviewAttached(j) \/ RemapPreview(j) \/ Abandon(j) \/ ReplaceStored(j)
  \/ CheckStored(j) \/ ReadStored(j) \/ ConfirmRefused(j)
  \/ InsertBatch(j) \/ ImportConfirmed(j)

ExportStep(e) ==
  \/ ExportStarts(e) \/ ExportProduces(e) \/ ExportSucceeds(e) \/ ExportRegistered(e)
  \/ ExportFails(e) \/ FailureUnrecorded(e)

TemplateStep(e) == TemplateFilled(e) \/ TemplateRecorded(e) \/ TemplateRegistered(e)

Next ==
  \/ \E j \in ImportIds : ImportStep(j)
  \/ \E e \in ExportIds : ExportStep(e)
  \/ \E e \in TemplateIds : TemplateStep(e)
  \/ Edit \/ HandlerRaises \/ KilledAndReopened

Spec == Init /\ [][Next]_vars

-----------------------------------------------------------------------------
(* Safety.                                                                 *)

\* Whatever raises or is killed between two statements, no row of the database
\* speaks of a file that is not there, and whatever is registered as an artifact
\* is a success. An export that is "running", or a success without its artifact,
\* has a handler that still runs, or one that was killed or could not even record
\* that it failed.
RowsHaveFiles ==
  /\ \A j \in ImportIds : imports[j] # NoJob \/ j \in attachments => stored[j] # NoFile
  /\ \A e \in OutIds :
       /\ exports[e] = "succeeded" => e \in produced
       /\ e \in artifacts => exports[e] = "succeeded"
  /\ \A e \in ExportIds \ cutOff :
       /\ exports[e] = "running" => At("exporting", e) \/ At("produced", e)
       /\ exports[e] = "succeeded" => At("succeeded", e) \/ e \in artifacts

\* The lessons of a task are its weekly slots, cut into pieces of its duration
\* with the rest last, whether it was imported or saved, and however often its
\* numbers were changed; no lesson outlives its task.
LessonsCoverTask ==
  /\ \A t \in tasks :
       LET rows == LessonRowsOf(t.id)
       IN  /\ Cardinality(UNION {{l.index} \X (1 .. l.duration) : l \in rows}) = t.weekly
           /\ {l.index : l \in rows} = 1 .. Cardinality(rows)
           /\ \A l \in rows : IF l.index < Cardinality(rows)
                                 THEN l.duration = t.duration
                                 ELSE l.duration \in 1 .. t.duration
  /\ \A l \in lessons : \E t \in tasks : t.id = l.task

-----------------------------------------------------------------------------
(* Action properties.                                                      *)

\* The transaction of an import.
Inserting == loop.at = "backed up" /\ loop'.at = "inserted"

\* An import adds no second record of a key, neither to those in the tables nor
\* to those of its own sheet: not when the sheet of a killed confirmation is
\* confirmed again, nor when two jobs have the same sheet, nor when names, terms
\* or plans were changed after the preview.
ImportAddsNoDuplicate ==
  [][Inserting =>
       /\ \A n \in teachers' \ teachers, o \in teachers' : n.name = o.name => n = o
       /\ \A n \in plans' \ plans, o \in plans' :
            n.homeroom = o.homeroom /\ n.term = o.term => n = o
       /\ \A n \in tasks' \ tasks, o \in tasks' :
            n.homeroom = o.homeroom /\ n.term = o.term /\ n.teacher = o.teacher => n = o]_vars

\* The records added are those of this sheet, read with these columns: all of its
\* rows and no others; and a task refers to the one teacher with the name in its row.
Adds(sheet, columns) ==
  LET rows == Read(sheet, columns)
      rowsIf(type) == IF sheet.type = type THEN DOMAIN rows ELSE {}
  IN  /\ {<<t.name, t.id[2]>> : t \in teachers' \ teachers}
           = {<<rows[i].name, i>> : i \in rowsIf("teacher")}
      /\ {<<p.homeroom, p.term, p.id[2]>> : p \in plans' \ plans}
           = {<<rows[i].homeroom, TermOf(rows[i]), i>> : i \in rowsIf("course_plan")}
      /\ {<<t.homeroom, t.term, t.weekly, t.id[2]>> : t \in tasks' \ tasks}
           = {<<rows[i].homeroom, TermOf(rows[i]), rows[i].weekly, i>> :
                i \in rowsIf("teaching_task")}
      /\ \A t \in tasks' \ tasks :
           {u \in teachers : u.name = rows[t.id[2]].teacher}
             = {u \in teachers : u.id = t.teacher}

\* An import adds the sheet that was shown last, with the columns chosen with it,
\* although the copy may have been written over and put back any number of times:
\* unless that sheet was not the digested one when it was shown, or the copy was
\* written between the digest of the confirmation and its read.
ImportsWhatWasShown ==
  [][LET job == imports[loop.job]
     IN  Inserting /\ job.shown = job.sheet /\ ~loop.swapped => Adds(job.shown, job.columns)]_vars

\* The same without exception.
ImportsWhatWasShownLast ==
  [][Inserting => Adds(imports[loop.job].shown, imports[loop.job].columns)]_vars
=============================================================================
