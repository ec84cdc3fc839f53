---------------------- MODULE ProjectDirectory_proofs ----------------------
(* Theorems about ProjectDirectory and their proofs.                       *)
EXTENDS ProjectDirectory, TLAPS

USE DEF NoManifest, Manifests, OpenPoints, LockPoints, Points, TellRevision,
        WithSchema, AtRevision

\* In every reachable state the directory and the processes have their types:
\* no migration passes the supported schema, whatever fails or is killed.
LEMMA TypeCorrect == Spec => []TypeOK
<1>1. Init => TypeOK
  <2> SUFFICES ASSUME Init PROVE TypeOK
    OBVIOUS
  <2> USE SchemaAssumption, BoundsAssumption DEF Init
  <2>1. NoManifest \in Manifests
    OBVIOUS
  <2>2. schema \in 1..SchemaVersion /\ manifest \in Manifests
    BY <2>1
  <2>3. memory \in [Procs -> Manifests]
    BY <2>1
  <2>4. /\ view \in [Procs -> Nat] /\ pc \in [Procs -> Points]
        /\ answer \in [Procs -> {"none", "ok", "error"}]
    OBVIOUS
  <2>5. /\ place \in {"nowhere", "projects", "trash"} /\ marker \in BOOLEAN
        /\ lock \in Procs \cup {NoProc}
    OBVIOUS
  <2>6. revision \in Nat /\ unshown = {} /\ backups = {} /\ crashes \in 0..MaxCrashes
    OBVIOUS
  <2>7. QED
    BY <2>2, <2>3, <2>4, <2>5, <2>6 DEF TypeOK
<1>2. TypeOK /\ [Next]_vars => TypeOK'
  <2> SUFFICES ASSUME TypeOK, [Next]_vars PROVE TypeOK'
    OBVIOUS
  <2> USE SchemaAssumption, BoundsAssumption
      DEF TypeOK, disk, user, Move, GoTo, Acquire, Release, GiveUp,
          WriteManifest
  <2>1. ASSUME NEW p \in Procs, CreateStep(p) PROVE TypeOK'
    BY <2>1 DEF CreateStep, CreateDatabase, CreateManifest
  <2>2. ASSUME NEW p \in Procs, OpenStep(p) PROVE TypeOK'
    <3>1. CASE OpenChecksMarker(p) \/ OpenLocks(p)
      BY <3>1 DEF OpenChecksMarker, OpenLocks
    <3>6. CASE OpenReadsManifest(p)
      <4> USE DEF OpenReadsManifest
      <4>1. memory' \in [Procs -> Manifests] /\ pc' \in [Procs -> Points]
        BY <3>6
      <4>2. QED
        BY <3>6, <4>1
    <3>2. CASE OpenRefused(p) \/ OpenFails(p)
      BY <3>2 DEF OpenRefused, OpenFails
    <3>3. CASE BackUpBeforeMigration(p)
      BY <3>3 DEF BackUpBeforeMigration, RestorePoint
    <3>4. CASE MigrateOneVersion(p) \/ MigrationWritesManifest(p)
      BY <3>4 DEF MigrateOneVersion, MigrationPending, MigrationWritesManifest
    <3>5. CASE OpenSucceeds(p)
      BY <3>5 DEF OpenSucceeds, Repair
    <3>7. QED
      BY <2>2, <3>1, <3>2, <3>3, <3>4, <3>5, <3>6 DEF OpenStep
  <2>3. ASSUME NEW p \in Procs, EditStep(p) PROVE TypeOK'
    <3>1. CASE CommitEdit(p)
      BY <3>1 DEF CommitEdit, CommitWrite
    <3>2. CASE EditWritesManifest(p) \/ EditManifestFails(p)
      <4> USE DEF EditWritesManifest, EditManifestFails
      <4>1. PICK m \in Manifests :
              memory' = [memory EXCEPT ![p] = m] /\ manifest' \in {m, manifest}
        BY <3>2
      <4>2. memory' \in [Procs -> Manifests] /\ manifest' \in Manifests
        BY <4>1
      <4>3. view' = [view EXCEPT ![p] = revision] \/ view' = view
        BY <3>2
      <4>4. view' \in [Procs -> Nat]
        BY <4>3
      <4>5. /\ pc' \in [Procs -> Points]
            /\ answer' \in [Procs -> {"none", "ok", "error"}]
            /\ unshown' \subseteq Procs
        BY <3>2
      <4>6. UNCHANGED <<place, marker, schema, revision, backups, lock, crashes>>
        BY <3>2
      <4>7. QED
        BY <4>2, <4>4, <4>5, <4>6
    <3>3. CASE Refresh(p) \/ Close(p)
      BY <3>3 DEF Refresh, Close
    <3>4. QED
      BY <2>3, <3>1, <3>2, <3>3 DEF EditStep
  <2>4. ASSUME NEW p \in Procs, DeleteStep(p) PROVE TypeOK'
    BY <2>4 DEF DeleteStep, DeleteReadsManifest, DeleteLocks, DeleteRefused,
       DeleteMarks, DeleteReleases, MoveToTrash, MoveFails, DeleteUnmarks,
       Unmark
  <2>5. ASSUME NEW p \in Procs, Crash(p) PROVE TypeOK'
    BY <2>5 DEF Crash
  <2>6. CASE UNCHANGED vars
    BY <2>6 DEF vars
  <2>7. QED
    BY <2>1, <2>2, <2>3, <2>4, <2>5, <2>6 DEF Next
<1>3. QED
  BY <1>1, <1>2, PTL DEF Spec

-----------------------------------------------------------------------------
(***************************************************************************)
(* The lock. A process is at a point between its acquisition and its       *)
(* release exactly when it is the holder, and only a directory that is     *)
(* still in the workspace is locked: the move waits for open handles.      *)
(***************************************************************************)
LockInv ==
  /\ \A p \in Procs : pc[p] \in LockPoints <=> lock = p
  /\ lock # NoProc => place = "projects"

\* Only the process inside writes the database or, once a manifest exists, the
\* manifest; what it remembers is never ahead of the database.
FileInv ==
  /\ manifest = NoManifest \/ manifest.schema >= 1
  /\ \A p \in Procs :
       /\ memory[p].revision <= revision
       /\ memory[p].schema <= schema
       /\ pc[p] \in {"open", "committed"} => schema = SchemaVersion
       /\ pc[p] \in OpenPoints \cup {"read"} =>
            manifest.schema >= 1 /\ memory[p].schema >= 1
       /\ pc[p] \in {"read", "verifying"} =>
            memory[p].revision <= manifest.revision
       /\ pc[p] = "migrating" \/ schema < SchemaVersion => revision = 0
       /\ pc[p] = "creating" =>
            /\ manifest = NoManifest /\ schema = SchemaVersion
            /\ place # "nowhere"
       /\ pc[p] = "migrating" =>
            \E b \in backups : b.schema <= schema /\ b.revision = revision
  /\ \A p, q \in Procs : pc[p] = "creating" /\ pc[q] = "creating" => p = q
  /\ place = "nowhere" => manifest = NoManifest /\ schema = SchemaVersion

IInv ==
  /\ TypeOK /\ LockInv /\ FileInv
  /\ ManifestNotAhead /\ AnsweredRevisionIsOnDisk

\* The lock, the files and the answers stay consistent in every step.
LEMMA Inductive == Spec => []IInv
<1>1. Init /\ TypeOK => IInv
  BY NoProcAssumption, SchemaAssumption
     DEF Init, IInv, TypeOK, LockInv, FileInv, ManifestNotAhead,
         AnsweredRevisionIsOnDisk
<1>2. IInv /\ TypeOK' /\ [Next]_vars => IInv'
  <2> SUFFICES ASSUME IInv, TypeOK', [Next]_vars PROVE IInv'
    OBVIOUS
  <2> USE NoProcAssumption, SchemaAssumption
      DEF TypeOK, disk, user, Move, GoTo, Acquire, Release, GiveUp, LockFree,
          InProjects, Movable
  <2>1. LockInv'
    <3> USE DEF IInv, LockInv
    <3>1. ASSUME NEW p \in Procs, CreateStep(p) PROVE LockInv'
      BY <3>1 DEF CreateStep, CreateDatabase, CreateManifest
    <3>2. ASSUME NEW p \in Procs, OpenStep(p) PROVE LockInv'
      BY <3>2 DEF OpenStep, OpenChecksMarker, OpenReadsManifest, OpenLocks,
         OpenRefused, OpenFails, BackUpBeforeMigration, MigrateOneVersion,
         MigrationWritesManifest, OpenSucceeds
    <3>3. ASSUME NEW p \in Procs, EditStep(p) PROVE LockInv'
      BY <3>3 DEF EditStep, CommitEdit, EditWritesManifest, EditManifestFails,
         Refresh, Close
    <3>4. ASSUME NEW p \in Procs, DeleteStep(p) PROVE LockInv'
      BY <3>4 DEF DeleteStep, DeleteReadsManifest, DeleteLocks, DeleteRefused,
         DeleteMarks, DeleteReleases, MoveToTrash, MoveFails, DeleteUnmarks
    <3>5. ASSUME NEW p \in Procs, Crash(p) PROVE LockInv'
      BY <3>5 DEF Crash
    <3>6. CASE UNCHANGED vars
      BY <3>6 DEF vars
    <3>7. QED
      BY <3>1, <3>2, <3>3, <3>4, <3>5, <3>6 DEF Next
  <2>2. (FileInv /\ ManifestNotAhead /\ AnsweredRevisionIsOnDisk)'
    <3> DEFINE Goal == (FileInv /\ ManifestNotAhead /\ AnsweredRevisionIsOnDisk)'
    <3> USE DEF IInv, LockInv, FileInv, ManifestNotAhead,
                AnsweredRevisionIsOnDisk, WriteManifest
    <3>1. ASSUME NEW p \in Procs, CreateStep(p) PROVE Goal
      BY <3>1 DEF CreateStep, CreateDatabase, CreateManifest
    <3>2. ASSUME NEW p \in Procs, OpenStep(p) PROVE Goal
      <4>1. CASE OpenChecksMarker(p) \/ OpenReadsManifest(p) \/ OpenLocks(p)
        <5>1. CASE OpenChecksMarker(p)
          BY <5>1 DEF OpenChecksMarker
        <5>2. CASE OpenReadsManifest(p)
          <6>1. /\ pc' = [pc EXCEPT ![p] = "read"]
                /\ memory' = [memory EXCEPT ![p] = manifest]
                /\ manifest.schema >= 1
                /\ UNCHANGED <<manifest, revision, schema, backups, place, answer>>
            BY <5>2 DEF OpenReadsManifest
          <6>2. QED
            BY <6>1
        <5>3. CASE OpenLocks(p)
          BY <5>3 DEF OpenLocks
        <5>4. QED
          BY <4>1, <5>1, <5>2, <5>3
      <4>2. CASE OpenRefused(p) \/ OpenFails(p)
        BY <4>2 DEF OpenRefused, OpenFails
      <4>3. CASE BackUpBeforeMigration(p)
        <5> USE DEF BackUpBeforeMigration, RestorePoint
        <5> DEFINE point == [schema |-> schema, revision |-> revision]
        <5>1. /\ point \in backups' /\ point.schema = schema
              /\ point.revision = revision
          BY <4>3
        <5>2. /\ pc' = [pc EXCEPT ![p] = "migrating"] /\ backups \subseteq backups'
              /\ pc[p] = "verifying" /\ schema < SchemaVersion
              /\ UNCHANGED <<memory, schema, revision, manifest, place, answer>>
          BY <4>3
        <5> HIDE DEF BackUpBeforeMigration, RestorePoint, point
        <5>3. QED
          BY <5>1, <5>2
      <4>4. CASE MigrateOneVersion(p)
        BY <4>4 DEF MigrateOneVersion, MigrationPending
      <4>5. CASE MigrationWritesManifest(p)
        BY <4>5 DEF MigrationWritesManifest
      <4>6. CASE OpenSucceeds(p)
        <5> USE DEF OpenSucceeds, Repair
        <5>1. /\ pc' = [pc EXCEPT ![p] = "open"] /\ pc[p] = "verifying"
              /\ schema = SchemaVersion
              /\ UNCHANGED <<schema, revision, backups, place>>
          BY <4>6
        <5>2. CASE memory[p].revision = revision
          <6>1. UNCHANGED <<memory, manifest>>
            BY <4>6, <5>2
          <6>2. manifest.revision = revision
            BY <5>1, <5>2 DEF TypeOK
          <6>3. QED
            BY <5>1, <6>1, <6>2
        <5>3. CASE memory[p].revision # revision
          <6>1. PICK m \in Manifests :
                  /\ m.schema = memory[p].schema /\ m.revision = revision
                  /\ memory' = [memory EXCEPT ![p] = m] /\ manifest' = m
            BY <4>6, <5>3
          <6>2. QED
            BY <5>1, <6>1
        <5>4. QED
          BY <5>2, <5>3
      <4>7. QED
        BY <3>2, <4>1, <4>2, <4>3, <4>4, <4>5, <4>6 DEF OpenStep
    <3>3. ASSUME NEW p \in Procs, EditStep(p) PROVE Goal
      <4>1. CASE CommitEdit(p)
        BY <4>1 DEF CommitEdit, CommitWrite
      <4>2. CASE EditWritesManifest(p)
        BY <4>2 DEF EditWritesManifest
      <4>3. CASE EditManifestFails(p)
        BY <4>3 DEF EditManifestFails
      <4>4. CASE Refresh(p) \/ Close(p)
        BY <4>4 DEF Refresh, Close
      <4>5. QED
        BY <3>3, <4>1, <4>2, <4>3, <4>4 DEF EditStep
    <3>4. ASSUME NEW p \in Procs, DeleteStep(p) PROVE Goal
      BY <3>4 DEF DeleteStep, DeleteReadsManifest, DeleteLocks, DeleteRefused,
         DeleteMarks, DeleteReleases, MoveToTrash, MoveFails, DeleteUnmarks
    <3>5. ASSUME NEW p \in Procs, Crash(p) PROVE Goal
      BY <3>5 DEF Crash
    <3>6. CASE UNCHANGED vars
      BY <3>6 DEF vars
    <3>7. QED
      BY <3>1, <3>2, <3>3, <3>4, <3>5, <3>6 DEF Next
  <2>3. QED
    BY <2>1, <2>2 DEF IInv
<1>3. QED
  BY <1>1, <1>2, TypeCorrect, PTL DEF Spec

\* Two processes are never inside the directory together.
THEOREM OneProcessInsideAlways == Spec => []OneProcessInside
<1>1. IInv => OneProcessInside
  BY DEF IInv, LockInv, OneProcessInside
<1>2. QED
  BY <1>1, Inductive, PTL

\* The manifest is never ahead of the database.
THEOREM ManifestNotAheadAlways == Spec => []ManifestNotAhead
<1>1. IInv => ManifestNotAhead
  BY DEF IInv
<1>2. QED
  BY <1>1, Inductive, PTL

\* After an answer of success the manifest has the database's revision.
THEOREM AnsweredRevisionIsOnDiskAlways == Spec => []AnsweredRevisionIsOnDisk
<1>1. IInv => AnsweredRevisionIsOnDisk
  BY DEF IInv
<1>2. QED
  BY <1>1, Inductive, PTL

\* A project somebody has open is not moved away.
THEOREM OpenProjectStaysInPlaceAlways == Spec => []OpenProjectStaysInPlace
<1>1. IInv => OpenProjectStaysInPlace
  BY NoProcAssumption DEF IInv, LockInv, OpenProjectStaysInPlace
<1>2. QED
  BY <1>1, Inductive, PTL

\* An edit that its user has not been told of leaves that user behind the database:
\* nobody is told a revision before it is committed, and every edit raises it.
UnshownInv ==
  \A p \in Procs : view[p] <= revision /\ (p \in unshown => view[p] < revision)

\* An edit that was answered with an error is not stored a second time.
THEOREM RepetitionStaysRefused == Spec => RepetitionIsRefused
<1>1. Init => UnshownInv
  <2> SUFFICES ASSUME Init PROVE UnshownInv
    OBVIOUS
  <2>1. view = [p \in Procs |-> 0] /\ revision = 0 /\ unshown = {}
    BY DEF Init
  <2>2. ASSUME NEW p \in Procs
        PROVE  view[p] = 0 /\ p \notin unshown
    BY <2>1
  <2>3. 0 <= 0
    OBVIOUS
  <2>4. QED
    BY <2>1, <2>2, <2>3 DEF UnshownInv
<1>2. TypeOK /\ UnshownInv /\ [Next]_vars => UnshownInv'
  <2> SUFFICES ASSUME TypeOK, UnshownInv, [Next]_vars PROVE UnshownInv'
    OBVIOUS
  <2> USE DEF UnshownInv, TypeOK
  <2>1. ASSUME NEW p \in Procs, TellRevision(p), revision' = revision
        PROVE  UnshownInv'
    BY <2>1 DEF TellRevision
  <2>2. ASSUME NEW p \in Procs, CommitEdit(p) PROVE UnshownInv'
    BY <2>2 DEF CommitEdit, CommitWrite
  <2>3. ASSUME UNCHANGED <<revision, view, unshown>> PROVE UnshownInv'
    BY <2>3
  <2>4. ASSUME NEW p \in Procs, CreateStep(p) PROVE UnshownInv'
    BY <2>3, <2>4 DEF CreateStep, CreateDatabase, CreateManifest, user
  <2>5. ASSUME NEW p \in Procs, OpenStep(p) PROVE UnshownInv'
    BY <2>1, <2>3, <2>5
       DEF OpenStep, OpenChecksMarker, OpenReadsManifest, OpenLocks, OpenRefused,
       GiveUp, BackUpBeforeMigration, MigrateOneVersion, MigrationWritesManifest,
       OpenSucceeds, OpenFails, disk, user
  <2>6. ASSUME NEW p \in Procs, EditStep(p) PROVE UnshownInv'
    BY <2>1, <2>2, <2>3, <2>6
       DEF EditStep, EditWritesManifest, EditManifestFails, Refresh, Close, GiveUp,
       disk, user
  <2>7. ASSUME NEW p \in Procs, DeleteStep(p) PROVE UnshownInv'
    BY <2>3, <2>7
       DEF DeleteStep, DeleteReadsManifest, DeleteLocks, DeleteRefused, GiveUp,
       DeleteMarks, DeleteReleases, MoveToTrash, MoveFails, DeleteUnmarks, disk,
       user
  <2>8. ASSUME NEW p \in Procs, Crash(p) PROVE UnshownInv'
    BY <2>3, <2>8 DEF Crash, disk, user
  <2>9. CASE UNCHANGED vars
    BY <2>3, <2>9 DEF vars, disk, user
  <2>10. QED
    BY <2>4, <2>5, <2>6, <2>7, <2>8, <2>9 DEF Next
<1>3. TypeOK /\ UnshownInv /\ [Next]_vars =>
        [\A p \in Procs :
           pc[p] = "open" /\ pc'[p] = "committed" => p \notin unshown]_vars
  <2> SUFFICES ASSUME TypeOK, UnshownInv, Next, NEW p \in Procs,
                      pc[p] = "open", pc'[p] = "committed"
               PROVE  p \notin unshown
    OBVIOUS
  <2>1. ASSUME NEW q \in Procs, CommitEdit(q) PROVE p \notin unshown
    <3>1. p = q /\ view[p] = revision
      BY <2>1 DEF CommitEdit, Move, GoTo, ExpectedRevision, TypeOK
    <3>2. QED
      BY <3>1 DEF UnshownInv, TypeOK
  <2>2. ASSUME NEW q \in Procs,
               CreateStep(q) \/ OpenStep(q) \/ DeleteStep(q) \/ Crash(q)
        PROVE  FALSE
    BY <2>2
       DEF TypeOK, Move, GoTo, GiveUp, CreateStep, CreateDatabase, CreateManifest,
       OpenStep, OpenChecksMarker, OpenReadsManifest, OpenLocks, OpenRefused,
       BackUpBeforeMigration, MigrateOneVersion, MigrationWritesManifest,
       OpenSucceeds, OpenFails, DeleteStep, DeleteReadsManifest, DeleteLocks,
       DeleteRefused, DeleteMarks, DeleteReleases, MoveToTrash, MoveFails,
       DeleteUnmarks, Crash
  <2>3. ASSUME NEW q \in Procs, EditStep(q) PROVE p \notin unshown
    BY <2>1, <2>3
       DEF TypeOK, Move, GoTo, GiveUp, EditStep, EditWritesManifest,
       EditManifestFails, Refresh, Close
  <2>4. QED
    BY <2>2, <2>3 DEF Next
<1>4. QED
  BY <1>1, <1>2, <1>3, TypeCorrect, PTL DEF Spec, RepetitionIsRefused

\* Every transaction of a migration has a restore point of its revision.
THEOREM MigrationHasRestorePointAlways == Spec => MigrationHasRestorePoint
<1>1. IInv /\ [Next]_vars =>
        [schema' # schema =>
           \E b \in backups : b.schema <= schema /\ b.revision = revision]_vars
  <2> SUFFICES ASSUME IInv, Next, schema' # schema
               PROVE  \E b \in backups :
                        b.schema <= schema /\ b.revision = revision
    OBVIOUS
  <2>1. PICK p \in Procs : MigrateOneVersion(p)
    BY DEF Next, disk, CreateStep, CreateDatabase, CreateManifest, OpenStep,
       OpenChecksMarker, OpenReadsManifest, OpenLocks, OpenRefused, GiveUp,
       BackUpBeforeMigration, MigrationWritesManifest, OpenSucceeds, OpenFails,
       EditStep, CommitEdit, EditWritesManifest, EditManifestFails, Refresh,
       Close, DeleteStep, DeleteReadsManifest, DeleteLocks, DeleteRefused,
       DeleteMarks, DeleteReleases, MoveToTrash, MoveFails, DeleteUnmarks,
       Crash
  <2>2. QED
    BY <2>1 DEF MigrateOneVersion, IInv, FileInv
<1>2. QED
  BY <1>1, Inductive, PTL DEF Spec, MigrationHasRestorePoint

\* Unless a process was killed, a listed project is marked only while a
\* deletion is under way. A directory that is not there yet has no marker.
THEOREM MarkerHasDeleterAlways == Spec => []MarkerHasDeleter
<1> DEFINE MarkerInv == MarkerHasDeleter /\ (place = "nowhere" => ~marker)
<1>1. Init => MarkerInv
  BY DEF Init, MarkerHasDeleter
<1>2. IInv /\ MarkerInv /\ [Next]_vars => MarkerInv'
  <2> SUFFICES ASSUME IInv, MarkerInv, [Next]_vars PROVE MarkerInv'
    OBVIOUS
  <2> USE NoProcAssumption
      DEF MarkerHasDeleter, TypeOK, IInv, disk, user, Move, GoTo, GiveUp,
          InProjects
  <2>1. ASSUME NEW p \in Procs, CreateStep(p) PROVE MarkerInv'
    BY <2>1 DEF CreateStep, CreateDatabase, CreateManifest
  <2>2. ASSUME NEW p \in Procs, OpenStep(p) PROVE MarkerInv'
    BY <2>2 DEF OpenStep, OpenChecksMarker, OpenReadsManifest, OpenLocks,
       OpenRefused, OpenFails, BackUpBeforeMigration, MigrateOneVersion,
       MigrationWritesManifest, OpenSucceeds
  <2>3. ASSUME NEW p \in Procs, EditStep(p) PROVE MarkerInv'
    BY <2>3 DEF EditStep, CommitEdit, EditWritesManifest, EditManifestFails,
       Refresh, Close
  <2>4. ASSUME NEW p \in Procs, DeleteStep(p) PROVE MarkerInv'
    <3>1. CASE DeleteReadsManifest(p) \/ DeleteLocks(p) \/ DeleteRefused(p)
      BY <3>1 DEF DeleteReadsManifest, DeleteLocks, DeleteRefused
    <3>2. CASE DeleteMarks(p)
      <4>1. place = "projects"
        BY <3>2 DEF DeleteMarks, LockInv, LockPoints
      <4>2. QED
        BY <3>2, <4>1 DEF DeleteMarks
    <3>3. CASE DeleteReleases(p) \/ MoveFails(p)
      BY <3>3 DEF DeleteReleases, MoveFails
    <3>4. CASE MoveToTrash(p)
      BY <3>4 DEF MoveToTrash
    <3>5. CASE DeleteUnmarks(p)
      BY <3>5 DEF DeleteUnmarks, Unmark
    <3>6. QED
      BY <2>4, <3>1, <3>2, <3>3, <3>4, <3>5 DEF DeleteStep
  <2>5. ASSUME NEW p \in Procs, Crash(p) PROVE MarkerInv'
    BY <2>5 DEF Crash
  <2>6. CASE UNCHANGED vars
    BY <2>6 DEF vars
  <2>7. QED
    BY <2>1, <2>2, <2>3, <2>4, <2>5, <2>6 DEF Next
<1>3. QED
  BY <1>1, <1>2, Inductive, PTL DEF Spec
=============================================================================
