---------------------------- MODULE Backups_proofs ----------------------------
(* Theorems about Backups with their proofs.                               *)
EXTENDS Backups, FiniteSetTheorems, TLAPS

USE SourceAssumption, KeepAssumption, BoundsAssumption

\* What the records of a database, live or in an archive, and the archives have in
\* common: ids that were given out, each to one owner.
KnownRecords(rows) ==
  \A r \in rows : /\ r.id \in Nat /\ r.id <= made
                  /\ \A a \in archives : a.id = r.id => a.owner = r.owner

Archives == [id : Nat, owner : Projects, fresh : BOOLEAN, records : SUBSET Records]

OwnersInv ==
  /\ made \in Nat /\ day \in Nat
  /\ records \in [Projects -> SUBSET Records]
  /\ victim \subseteq Records
  /\ \A p \in Projects : KnownRecords(records[p])
  /\ archives \subseteq Archives
  /\ \A a \in archives : a.id <= made /\ KnownRecords(a.records)
  /\ point = "archived" => \A a \in archives : a.id = made => a.owner = current
  /\ current \in Projects \cup {NoProject}
  /\ ~Idle => current \in Projects
  /\ task \in Reasons \cup {"none"}
  /\ point = "none" <=> Idle

\* A deletion waits for its backup: an archive with the newest id has the data of now.
FreshInv ==
  task = "destructive" /\ point \in {"archived", "recorded", "pruned"} =>
    \E a \in archives : a.id = made /\ a.owner = current /\ a.fresh

\* The newest record of all is never beyond the limit.
LEMMA NewestIsKept ==
  ASSUME OwnersInv, NEW p \in Projects, NEW r \in Excess(p)
  PROVE  r \in records[p] /\ r.id < made
<1>1. r \in records[p] /\ r.id \in Nat /\ r.id <= made
  BY DEF Excess, Prunable, OwnersInv, KnownRecords
<1>2. CASE r.id = made
  <2>1. {s \in Prunable(p) : Newer(r, s)} = {}
    BY <1>2 DEF Newer, Prunable, OwnersInv, KnownRecords
  <2>2. Cardinality({s \in Prunable(p) : Newer(r, s)}) = 0
    BY <2>1, FS_EmptySet
  <2>3. QED
    BY <2>2 DEF Excess
<1>3. QED
  BY <1>1, <1>2 DEF OwnersInv

\* The records that are added, changed or copied were known, or are the new one.
LEMMA OwnersKept == OwnersInv /\ [Next]_vars => OwnersInv'
<1> SUFFICES ASSUME OwnersInv, [Next]_vars PROVE OwnersInv'
  OBVIOUS
<1>0. /\ made \in Nat /\ day \in Nat /\ records \in [Projects -> SUBSET Records]
      /\ victim \subseteq Records /\ current \in Projects \cup {NoProject}
      /\ \A p \in Projects : KnownRecords(records[p])
      /\ archives \subseteq Archives
      /\ \A a \in archives : a.id \in Nat /\ a.id <= made /\ KnownRecords(a.records)
      /\ point = "archived" => \A a \in archives : a.id = made => a.owner = current
      /\ task # "none" => current \in Projects
      /\ task \in Reasons \cup {"none"} /\ (point = "none" <=> task = "none")
  BY DEF OwnersInv, Idle, Archives
\* The step of a task, a request or a crash that makes no archive and no record.
<1>1. ASSUME made' = made, day' \in Nat,
             archives' \subseteq Archives,
             \A a \in archives' : \E b \in archives :
               a.id = b.id /\ a.owner = b.owner /\ a.records = b.records,
             records' \in [Projects -> SUBSET Records], victim' \subseteq Records,
             \A p \in Projects : KnownRecords(records'[p]),
             current' \in Projects \cup {NoProject},
             point' # "archived",
             task' # "none" => current' \in Projects,
             task' \in Reasons \cup {"none"}, point' = "none" <=> task' = "none"
      PROVE  OwnersInv'
  <2>1. ASSUME NEW rows, KnownRecords(rows) PROVE KnownRecords(rows)'
    BY <1>1, <2>1 DEF KnownRecords
  <2>2. \A p \in Projects : KnownRecords(records[p])'
    BY <1>1 DEF KnownRecords
  <2>3. \A a \in archives' : a.id <= made /\ KnownRecords(a.records)'
    BY <1>0, <1>1, <2>1
  <2>4. QED
    BY <1>0, <1>1, <2>2, <2>3 DEF OwnersInv, Idle
<1>2. CASE WriteArchive
  <2> DEFINE new == [id |-> made + 1, owner |-> current, fresh |-> TRUE,
                     records |-> records[current]]
  <2>1. archives' = archives \cup {new} /\ made' = made + 1 /\ records' = records
    BY <1>2 DEF WriteArchive
  <2>2. new.id = made + 1 /\ new.owner = current /\ new.records = records[current]
    OBVIOUS
  <2>3. /\ current \in Projects /\ UNCHANGED <<current, task, victim, day>>
        /\ point' = "archived" /\ task # "none"
    BY <1>0, <1>2 DEF WriteArchive, Advance
  <2>9. new \in Archives
    BY <1>0, <2>3 DEF Archives
  <2> HIDE DEF new
  <2>4. ASSUME NEW rows, KnownRecords(rows) PROVE KnownRecords(rows)'
    BY <1>0, <2>1, <2>2, <2>4 DEF KnownRecords
  <2>5. \A p \in Projects : KnownRecords(records[p])'
    BY <1>0, <2>1, <2>4 DEF KnownRecords
  <2>6. /\ archives' \subseteq Archives
        /\ \A a \in archives' : a.id <= made' /\ KnownRecords(a.records)'
    BY <1>0, <2>1, <2>2, <2>3, <2>4, <2>9
  <2>7. \A a \in archives' : a.id = made' => a.owner = current
    BY <1>0, <2>1, <2>2
  <2>8. QED
    BY <1>0, <2>1, <2>3, <2>5, <2>6, <2>7 DEF OwnersInv, Idle
<1>3. CASE WriteRecord
  <2>1. PICK retained \in BOOLEAN :
          records' = [records EXCEPT ![current] = @ \cup
            {[id |-> made, owner |-> current, reason |-> task, retained |-> retained, day |-> day]}]
    BY <1>3 DEF WriteRecord
  <2>2. /\ point = "archived" /\ point' = "recorded" /\ UNCHANGED <<task, victim, current>>
        /\ UNCHANGED <<made, day, archives>>
    BY <1>3 DEF WriteRecord, Advance, store, times
  <2> DEFINE new == [id |-> made, owner |-> current, reason |-> task, retained |-> retained,
                     day |-> day]
  <2>3. new \in Records /\ new.id = made /\ new.owner = current
    BY <1>0, <2>2 DEF Records
  <2>4. KnownRecords({new})
    BY <1>0, <2>2, <2>3 DEF KnownRecords
  <2>5. records'[current] = records[current] \cup {new} /\ records' \in [Projects -> SUBSET Records]
    BY <1>0, <2>1, <2>2, <2>3
  <2> HIDE DEF new
  <2>6. \A p \in Projects : KnownRecords(records'[p])
    BY <1>0, <2>1, <2>2, <2>4, <2>5 DEF KnownRecords
  <2>7. QED
    BY <1>0, <1>1, <2>2, <2>5, <2>6
<1>4. CASE PruneUnlinks
  <2>1. PICK r \in Excess(current) :
          victim' = {r} /\ archives' = {a \in archives : a.id # r.id}
    BY <1>4 DEF PruneUnlinks
  <2>2. /\ task # "none" /\ point = "recorded"
        /\ UNCHANGED <<records, current, task, point, made, day>>
    BY <1>0, <1>4 DEF PruneUnlinks, Pruning, times
  <2>3. victim' \subseteq Records
    BY <1>0, <2>1, <2>2 DEF Excess, Prunable
  <2>4. QED
    BY <1>0, <1>1, <2>1, <2>2, <2>3
<1>5. CASE PruneDeletesRow
  <2>1. /\ UNCHANGED <<archives, current, task, point, made, day>> /\ point = "recorded"
        /\ records' = [records EXCEPT ![current] = @ \ victim] /\ victim' = {}
    BY <1>5 DEF PruneDeletesRow, DeleteRow, Pruning, store, times
  <2>2. records' \in [Projects -> SUBSET Records]
    BY <1>0, <2>1
  <2>3. \A p \in Projects : records'[p] \subseteq records[p]
    BY <1>0, <2>1
  <2>4. \A p \in Projects : KnownRecords(records'[p])
    BY <1>0, <2>3 DEF KnownRecords
  <2>5. QED
    BY <1>0, <1>1, <2>1, <2>2, <2>4
\* The other steps of a backup, which change no record and no archive.
<1>6. ASSUME ArchiveFails \/ CopyFails \/ PruneRefuses \/ PruneDone \/ BackupDone \/ DestroyNothing
      PROVE  OwnersInv'
  <2>1. UNCHANGED <<archives, records, current, made, day>>
    BY <1>6 DEF ArchiveFails, CopyFails, PruneRefuses, PruneDone, BackupDone, DestroyNothing,
       store, times
  <2>2. \/ task' = "none" /\ point' = "none" /\ victim' = {}
        \/ task' = task /\ point = "recorded" /\ point' = "pruned" /\ victim' = victim
    BY <1>6 DEF ArchiveFails, CopyFails, PruneRefuses, PruneDone, BackupDone, DestroyNothing,
       End, Advance
  <2>3. QED
    BY <1>0, <1>1, <2>1, <2>2
<1>7. ASSUME Changed
      PROVE  /\ archives' \subseteq Archives
             /\ \A a \in archives' : \E b \in archives :
                  a.id = b.id /\ a.owner = b.owner /\ a.records = b.records
  <2> DEFINE Stale(a) == [a EXCEPT !.fresh = @ /\ a.owner # current]
  <2>1. archives' = {Stale(a) : a \in archives}
    BY <1>7 DEF Changed
  <2>2. ASSUME NEW a \in Archives
        PROVE  /\ Stale(a) \in Archives
               /\ Stale(a).id = a.id /\ Stale(a).owner = a.owner /\ Stale(a).records = a.records
    <3>1. (a.fresh /\ a.owner # current) \in BOOLEAN
      OBVIOUS
    <3>2. \A f \in BOOLEAN : [a EXCEPT !.fresh = f] \in Archives
      BY DEF Archives
    <3>3. Stale(a) \in Archives
      BY <3>1, <3>2
    <3>4. QED
      BY <3>3 DEF Archives
  <2> HIDE DEF Stale
  <2>3. QED
    BY <1>0, <2>1, <2>2
<1>8. CASE Destroy
  BY <1>0, <1>1, <1>7, <1>8 DEF Destroy, End, times
<1>9. CASE RequestDestruction \/ RequestBackup \/ SaveEntity
  <2>1. /\ UNCHANGED <<records, current, made>> /\ day' \in Nat /\ current \in Projects
        /\ archives' = archives \/ Changed
    BY <1>0, <1>9 DEF RequestDestruction, RequestBackup, SaveEntity, store, times
  <2>2. \/ UNCHANGED <<task, point, victim>> /\ task = "none"
        \/ task' \in Reasons /\ point' = "staging" /\ victim' = {}
    BY <1>0, <1>9
       DEF RequestDestruction, RequestBackup, SaveEntity, Idle, Begin, backup, Reasons, Automatic
  <2>3. QED
    BY <1>0, <1>1, <1>7, <2>1, <2>2 DEF Reasons, Automatic
<1>10. CASE SetRetained
  <2>1. PICK r \in records[current], retained \in BOOLEAN :
          records' = [records EXCEPT ![current] = (@ \ {r}) \cup {[r EXCEPT !.retained = retained]}]
    BY <1>10 DEF SetRetained
  <2>2. /\ UNCHANGED <<archives, current, task, point, victim, made, day>>
        /\ task = "none" /\ current \in Projects
    BY <1>0, <1>10 DEF SetRetained, store, backup, times, Idle
  <2> DEFINE new == [r EXCEPT !.retained = retained]
  <2>3. new \in Records /\ new.id = r.id /\ new.owner = r.owner
    BY <1>0, <2>2 DEF Records
  <2> HIDE DEF new
  <2>4. KnownRecords({new})
    BY <1>0, <2>2, <2>3 DEF KnownRecords
  <2>5. /\ records'[current] = (records[current] \ {r}) \cup {new}
        /\ records' \in [Projects -> SUBSET Records]
    BY <1>0, <2>1, <2>2, <2>3 DEF new
  <2>6. \A p \in Projects : KnownRecords(records'[p])
    BY <1>0, <2>1, <2>2, <2>4, <2>5 DEF KnownRecords
  <2>7. QED
    BY <1>0, <1>1, <2>2, <2>5, <2>6
<1>11. ASSUME NEW a \in archives, NEW p \in Projects, RestoreBackup(a, p) PROVE OwnersInv'
  <2>1. /\ UNCHANGED <<archives, task, point, victim, made, day>> /\ task = "none"
        /\ current' = p /\ records' = [records EXCEPT ![p] = a.records]
    BY <1>11 DEF RestoreBackup, RestoredRecords, backup, times, Idle
  <2>2. a.records \in SUBSET Records /\ KnownRecords(a.records)
    BY <1>0 DEF Archives
  <2>3. /\ records' \in [Projects -> SUBSET Records]
        /\ \A q \in Projects : KnownRecords(records'[q])
    BY <1>0, <2>1, <2>2
  <2>4. QED
    BY <1>0, <1>1, <2>1, <2>3
<1>12. ASSUME NEW p \in Projects, OpenProject(p) PROVE OwnersInv'
  BY <1>0, <1>1, <1>12 DEF OpenProject, store, backup, times, Idle
<1>13. CASE Crash
  BY <1>0, <1>1, <1>13 DEF Crash, store, times
<1>14. CASE UNCHANGED vars
  BY <1>14 DEF vars, store, backup, times, OwnersInv, KnownRecords, Idle
<1>15. QED
  BY <1>2, <1>3, <1>4, <1>5, <1>6, <1>8, <1>9, <1>10, <1>11, <1>12, <1>13, <1>14
     DEF Next, BackupStep, Request

LEMMA OwnersAlways == Spec => []OwnersInv
<1>1. Init => OwnersInv
  BY DEF Init, OwnersInv, KnownRecords, Idle, Reasons
<1>2. QED
  BY <1>1, OwnersKept, PTL DEF Spec

\* For any projects, limit and number of kills: pruning deletes archives of the open
\* project only, although a restored project has the records of its source.
THEOREM PruningSparesOtherProjectsAlways == Spec => PruningSparesOtherProjects
<1> DEFINE Spared == \A a \in archives : a.owner = current \/ \E b \in archives' : b.id = a.id
<1>1. OwnersInv /\ [Next]_vars => [Spared]_vars
  <2> SUFFICES ASSUME OwnersInv, [Next]_vars PROVE Spared
    OBVIOUS
  <2>1. CASE UNCHANGED archives
    BY <2>1
  <2>2. CASE Changed
    <3>1. \A a \in archives : [a EXCEPT !.fresh = @ /\ a.owner # current].id = a.id
      BY DEF OwnersInv, Archives
    <3>2. QED
      BY <2>2, <3>1 DEF Changed
  <2>3. CASE WriteArchive
    BY <2>3 DEF WriteArchive
  <2>4. CASE PruneUnlinks
    <3>1. PICK r \in Excess(current) :
            /\ OwnPath(r)
            /\ archives' = {a \in archives : a.id # r.id}
      BY <2>4 DEF PruneUnlinks
    <3>2. current \in Projects
      BY <2>4 DEF PruneUnlinks, Pruning, OwnersInv, Idle, Automatic
    <3>3. r \in records[current]
      BY <3>1 DEF Excess, Prunable
    <3>4. \A a \in archives : a.id = r.id => a.owner = current
      BY <3>1, <3>2, <3>3 DEF OwnPath, OwnersInv, KnownRecords
    <3>5. QED
      BY <3>1, <3>4
  <2>5. CASE UNCHANGED vars
    BY <2>5 DEF vars, store
  <2>6. QED
    BY <2>1, <2>2, <2>3, <2>4, <2>5
       DEF Next, BackupStep, Request, Crash, ArchiveFails, WriteRecord, CopyFails,
           PruneDeletesRow, PruneRefuses, PruneDone, BackupDone, Destroy, DestroyNothing,
           RequestDestruction, RequestBackup, SaveEntity, SetRetained, RestoreBackup,
           OpenProject, store
<1>2. QED
  BY <1>1, OwnersAlways, PTL DEF Spec, PruningSparesOtherProjects

LEMMA FreshKept == OwnersInv /\ FreshInv /\ [Next]_vars => FreshInv'
<1> SUFFICES ASSUME OwnersInv, FreshInv, [Next]_vars PROVE FreshInv'
  OBVIOUS
<1>1. ASSUME UNCHANGED <<archives, made, current, task>>,
             point' \in {"archived", "recorded", "pruned"} =>
               point \in {"archived", "recorded", "pruned"}
      PROVE  FreshInv'
  BY <1>1 DEF FreshInv
<1>2. CASE task' # "destructive" \/ point' \notin {"archived", "recorded", "pruned"}
  BY <1>2 DEF FreshInv
<1>3. CASE WriteArchive
  <2>1. made' = made + 1 /\ current' = current
    BY <1>3 DEF WriteArchive
  <2> DEFINE new == [id |-> made + 1, owner |-> current, fresh |-> TRUE,
                     records |-> records[current]]
  <2>2. new \in archives' /\ new.id = made + 1 /\ new.owner = current /\ new.fresh
    BY <1>3 DEF WriteArchive
  <2> HIDE DEF new
  <2>3. QED
    BY <2>1, <2>2 DEF FreshInv
<1>4. CASE PruneUnlinks
  <2>1. PICK r \in Excess(current) : archives' = {a \in archives : a.id # r.id}
    BY <1>4 DEF PruneUnlinks
  <2>2. UNCHANGED <<made, current, task, point>> /\ current \in Projects
    BY <1>4 DEF PruneUnlinks, Pruning, times, OwnersInv, Idle, Automatic
  <2>3. r.id # made
    BY <2>1, <2>2, NewestIsKept DEF OwnersInv, KnownRecords
  <2>4. QED
    BY <2>1, <2>2, <2>3 DEF FreshInv
<1>5. CASE WriteRecord \/ PruneDeletesRow \/ PruneDone
  <2>1. UNCHANGED <<archives, made, current, task>>
    BY <1>5 DEF WriteRecord, PruneDeletesRow, PruneDone, Advance, store, times
  <2>2. point \in {"archived", "recorded"}
    BY <1>5 DEF WriteRecord, PruneDeletesRow, PruneDone, Pruning, Advance
  <2>3. QED
    BY <1>1, <2>1, <2>2
<1>6. CASE ArchiveFails \/ CopyFails \/ PruneRefuses \/ BackupDone \/ Destroy \/ DestroyNothing
           \/ Crash
  BY <1>2, <1>6 DEF ArchiveFails, CopyFails, PruneRefuses, BackupDone, Destroy, DestroyNothing,
     Crash, End
<1>7. CASE Request
  <2>1. Idle
    BY <1>7 DEF Request, RequestDestruction, RequestBackup, SaveEntity, SetRetained,
       RestoreBackup, OpenProject
  <2>2. point' \in {"staging", "none"}
    BY <1>7, <2>1 DEF Request, RequestDestruction, RequestBackup, SaveEntity, SetRetained,
       RestoreBackup, OpenProject, Begin, backup, OwnersInv
  <2>3. QED
    BY <1>2, <2>2
<1>8. CASE UNCHANGED vars
  <2>1. UNCHANGED <<archives, made, current, task, point>>
    BY <1>8 DEF vars, store, backup, times
  <2>2. QED
    BY <1>1, <2>1
<1>9. QED
  BY <1>3, <1>4, <1>5, <1>6, <1>7, <1>8 DEF Next, BackupStep

\* For any projects, limit and number of kills: whenever data are destroyed, an archive
\* has exactly these data; pruning in between does not take it.
THEOREM DestructionIsBackedUpAlways == Spec => DestructionIsBackedUp
<1> DEFINE BackedUp == Destroy => \E a \in archives : a.owner = current /\ a.fresh
<1>1. FreshInv => [BackedUp]_vars
  BY DEF FreshInv, Destroy, MayDestroy
<1>2. Init => OwnersInv /\ FreshInv
  BY DEF Init, OwnersInv, KnownRecords, Idle, Reasons, FreshInv
<1>3. OwnersInv /\ FreshInv /\ [Next]_vars => (OwnersInv /\ FreshInv)'
  BY OwnersKept, FreshKept
<1>4. QED
  BY <1>1, <1>2, <1>3, PTL DEF Spec, DestructionIsBackedUp

-----------------------------------------------------------------------------
(* Records without an archive.                                             *)

\* Of a set of rows: ids tell them apart, and only given projects own them.
Consistent(rows, owners) ==
  /\ IsFiniteSet(rows)
  /\ \A r, s \in rows : r.id = s.id => r = s
  /\ \A r \in rows : r.owner \in owners

\* What is unlinked is one own record of the open project, and is not forgotten until
\* its row is deleted.
VictimInv ==
  victim = {} \/ (Pruning /\ \E r \in records[current] : victim = {r} /\ r.owner = current)

HistoryInv ==
  /\ crashes \in Nat /\ projects \subseteq Projects /\ current \in projects \cup {NoProject}
  /\ \A p \in Projects : Consistent(records[p], projects)
  /\ \A a \in archives : Consistent(a.records, projects)
  /\ VictimInv
  /\ point = "archived" =>
       /\ \E a \in archives : a.id = made /\ a.owner = current
       /\ \A p \in Projects : \A r \in records[p] : r.id # made

LEMMA HistoryKept == OwnersInv /\ HistoryInv /\ [Next]_vars => HistoryInv'
<1> SUFFICES ASSUME OwnersInv, HistoryInv, [Next]_vars PROVE HistoryInv'
  OBVIOUS
<1>0. /\ crashes \in Nat /\ projects \subseteq Projects /\ current \in projects \cup {NoProject}
      /\ \A p \in Projects : Consistent(records[p], projects)
      /\ \A a \in archives : Consistent(a.records, projects)
      /\ VictimInv
      /\ records \in [Projects -> SUBSET Records] /\ made \in Nat
      /\ task # "none" => current \in projects
      /\ task \in Reasons \cup {"none"} /\ (point = "none" <=> task = "none")
      /\ NoProject \notin projects
  BY DEF OwnersInv, HistoryInv, Idle
<1>1. ASSUME crashes' \in Nat, projects \subseteq projects', projects' \subseteq Projects,
             current' \in projects' \cup {NoProject},
             \A a \in archives' : \E b \in archives : a.records = b.records,
             \A p \in Projects : Consistent(records'[p], projects'),
             victim' = {}, point' # "archived"
      PROVE  HistoryInv'
  <2>1. ASSUME NEW rows, Consistent(rows, projects) PROVE Consistent(rows, projects')
    BY <1>1, <2>1 DEF Consistent
  <2>2. \A a \in archives' : Consistent(a.records, projects')
    BY <1>0, <1>1, <2>1
  <2>3. VictimInv'
    BY <1>1 DEF VictimInv
  <2>4. (point = "archived" =>
           /\ \E a \in archives : a.id = made /\ a.owner = current
           /\ \A p \in Projects : \A r \in records[p] : r.id # made)'
    BY <1>1
  <2>5. QED
    BY <1>1, <2>2, <2>3, <2>4 DEF HistoryInv
<1>2. ASSUME projects \subseteq projects', UNCHANGED records
      PROVE  \A p \in Projects : Consistent(records'[p], projects')
  BY <1>0, <1>2 DEF Consistent
<1>3. CASE WriteArchive
  <2> DEFINE new == [id |-> made + 1, owner |-> current, fresh |-> TRUE,
                     records |-> records[current]]
  <2>1. /\ archives' = archives \cup {new} /\ made' = made + 1 /\ point' = "archived"
        /\ UNCHANGED <<projects, records, current, victim, crashes>> /\ point = "staging"
        /\ current \in Projects
    BY <1>0, <1>3 DEF WriteArchive, Advance
  <2>2. new.id = made + 1 /\ new.owner = current /\ new.records = records[current]
    OBVIOUS
  <2> HIDE DEF new
  <2>3. \A rows : Consistent(rows, projects') <=> Consistent(rows, projects)
    BY <2>1 DEF Consistent
  <2>4. \A p \in Projects : Consistent(records'[p], projects')
    BY <1>0, <2>1 DEF Consistent
  <2>5. \A a \in archives' : Consistent(a.records, projects')
    BY <1>0, <2>1, <2>2, <2>3
  <2>6. victim' = {}
    BY <1>0, <2>1 DEF VictimInv, Pruning
  <2>7. \A p \in Projects : \A r \in records[p] : r.id # made + 1
    BY <1>0 DEF OwnersInv, KnownRecords
  <2>8. VictimInv'
    BY <2>6 DEF VictimInv
  <2>9. new \in archives'
    BY <2>1
  <2>10. QED
    BY <1>0, <2>1, <2>2, <2>4, <2>5, <2>7, <2>8, <2>9 DEF HistoryInv
<1>4. CASE WriteRecord
  <2>1. PICK retained \in BOOLEAN :
          records' = [records EXCEPT ![current] = @ \cup
            {[id |-> made, owner |-> current, reason |-> task, retained |-> retained, day |-> day]}]
    BY <1>4 DEF WriteRecord
  <2>2. /\ point = "archived" /\ point' = "recorded" /\ UNCHANGED <<task, victim, current>>
        /\ UNCHANGED <<made, archives, projects, crashes>> /\ current \in projects
    BY <1>0, <1>4 DEF WriteRecord, Advance, store, times
  <2> DEFINE new == [id |-> made, owner |-> current, reason |-> task, retained |-> retained,
                     day |-> day]
  <2>3. new.id = made /\ new.owner = current
    OBVIOUS
  <2>4. records'[current] = records[current] \cup {new}
        /\ \A p \in Projects \ {current} : records'[p] = records[p]
    BY <1>0, <2>1, <2>2
  <2> HIDE DEF new
  <2>5. \A r \in records[current] : r.id # made
    BY <1>0, <2>2 DEF HistoryInv
  <2>6. Consistent(records[current] \cup {new}, projects)
    <3>1. IsFiniteSet(records[current] \cup {new})
      BY <1>0, <2>2, FS_AddElement DEF Consistent
    <3>2. QED
      BY <1>0, <2>2, <2>3, <2>5, <3>1 DEF Consistent
  <2>7. \A p \in Projects : Consistent(records'[p], projects')
    BY <1>0, <2>2, <2>4, <2>6 DEF Consistent
  <2>8. victim = {}
    BY <1>0, <2>2 DEF VictimInv, Pruning
  <2>9. QED
    BY <1>0, <1>1, <2>2, <2>7, <2>8
<1>5. CASE PruneUnlinks
  <2>1. PICK r \in Excess(current) : /\ OwnPath(r) /\ victim' = {r}
                                     /\ archives' = {a \in archives : a.id # r.id}
    BY <1>5 DEF PruneUnlinks
  <2>2. /\ UNCHANGED <<records, current, task, point, made, projects, crashes>>
        /\ Pruning /\ point = "recorded" /\ current \in projects
    BY <1>0, <1>5 DEF PruneUnlinks, Pruning, times, Automatic
  <2>3. r \in records[current] /\ r.owner = current
    BY <2>1 DEF Excess, Prunable, OwnPath
  <2>4. \A rows : Consistent(rows, projects') <=> Consistent(rows, projects)
    BY <2>2 DEF Consistent
  <2>5. \A p \in Projects : Consistent(records'[p], projects')
    BY <1>0, <2>2 DEF Consistent
  <2>6. \A a \in archives' : Consistent(a.records, projects')
    BY <1>0, <2>1, <2>4
  <2>7. VictimInv' /\ point' # "archived"
    BY <2>1, <2>2, <2>3 DEF VictimInv, Pruning
  <2>8. QED
    BY <1>0, <2>1, <2>2, <2>3, <2>5, <2>6, <2>7 DEF HistoryInv
<1>6. CASE PruneDeletesRow
  <2>1. /\ UNCHANGED <<archives, projects, current, point, crashes>> /\ point = "recorded"
        /\ records' = [records EXCEPT ![current] = @ \ victim] /\ victim' = {}
    BY <1>6 DEF PruneDeletesRow, DeleteRow, Pruning, store
  <2>2. \A p \in Projects : records'[p] \subseteq records[p]
    BY <1>0, <2>1
  <2>3. ASSUME NEW p \in Projects PROVE Consistent(records'[p], projects)
    <3>1. IsFiniteSet(records'[p])
      BY <1>0, <2>2, FS_Subset DEF Consistent
    <3>2. QED
      BY <1>0, <2>2, <3>1 DEF Consistent
  <2>4. \A p \in Projects : Consistent(records'[p], projects')
    BY <2>1, <2>3 DEF Consistent
  <2>5. QED
    BY <1>0, <1>1, <2>1, <2>4
<1>7. CASE ArchiveFails \/ CopyFails \/ PruneRefuses \/ BackupDone \/ DestroyNothing \/ Crash
  <2>1. /\ UNCHANGED <<archives, projects, records>> /\ current' \in {current, NoProject}
        /\ crashes' \in {crashes, crashes + 1} /\ victim' = {} /\ point' = "none"
    BY <1>7 DEF ArchiveFails, CopyFails, PruneRefuses, BackupDone, DestroyNothing, Crash, End,
       store
  <2>2. QED
    BY <1>0, <1>1, <1>2, <2>1
<1>8. CASE PruneDone
  <2>1. /\ UNCHANGED <<archives, projects, records, current, crashes>> /\ victim' = {}
        /\ point' = "pruned"
    BY <1>8 DEF PruneDone, Advance, store
  <2>2. QED
    BY <1>0, <1>1, <1>2, <2>1
<1>9. ASSUME Changed PROVE \A a \in archives' : \E b \in archives : a.records = b.records
  <2> DEFINE Stale(a) == [a EXCEPT !.fresh = @ /\ a.owner # current]
  <2>1. archives' = {Stale(a) : a \in archives}
    BY <1>9 DEF Changed
  <2>2. \A a \in Archives : Stale(a).records = a.records
    BY DEF Archives
  <2> HIDE DEF Stale
  <2>3. QED
    BY <2>1, <2>2 DEF OwnersInv
<1>10. CASE Destroy
  <2>1. /\ Changed /\ UNCHANGED <<projects, records, current, crashes>> /\ victim' = {}
        /\ point' = "none"
    BY <1>10 DEF Destroy, End
  <2>2. QED
    BY <1>0, <1>1, <1>2, <1>9, <2>1
<1>11. CASE RequestDestruction \/ RequestBackup \/ SaveEntity
  <2>1. /\ UNCHANGED <<projects, records, current, crashes>>
        /\ archives' = archives \/ Changed
    BY <1>11 DEF RequestDestruction, RequestBackup, SaveEntity, store
  <2>2. victim' = {} /\ point' # "archived"
    BY <1>0, <1>11
       DEF RequestDestruction, RequestBackup, SaveEntity, Idle, Begin, backup, VictimInv, Pruning,
           Automatic
  <2>3. QED
    BY <1>0, <1>1, <1>2, <1>9, <2>1, <2>2
<1>12. CASE SetRetained
  <2>1. PICK r \in records[current], retained \in BOOLEAN :
          records' = [records EXCEPT ![current] = (@ \ {r}) \cup {[r EXCEPT !.retained = retained]}]
    BY <1>12 DEF SetRetained
  <2>2. /\ UNCHANGED <<archives, projects, current, task, point, victim, crashes>>
        /\ task = "none" /\ current \in projects
    BY <1>0, <1>12 DEF SetRetained, store, backup, Idle
  <2> DEFINE new == [r EXCEPT !.retained = retained]
  <2>3. new.id = r.id /\ new.owner = r.owner
    BY <1>0, <2>2 DEF Records
  <2>4. records'[current] = (records[current] \ {r}) \cup {new}
        /\ \A p \in Projects \ {current} : records'[p] = records[p]
    BY <1>0, <2>1, <2>2
  <2> HIDE DEF new
  <2>5. Consistent((records[current] \ {r}) \cup {new}, projects)
    <3>1. IsFiniteSet((records[current] \ {r}) \cup {new})
      BY <1>0, <2>2, FS_AddElement, FS_RemoveElement DEF Consistent
    <3>2. QED
      BY <1>0, <2>2, <2>3, <3>1 DEF Consistent
  <2>6. \A p \in Projects : Consistent(records'[p], projects')
    BY <1>0, <2>2, <2>4, <2>5 DEF Consistent
  <2>7. victim = {} /\ point # "archived"
    BY <1>0, <2>2 DEF VictimInv, Pruning, Automatic
  <2>8. QED
    BY <1>0, <1>1, <2>2, <2>6, <2>7
<1>13. ASSUME NEW a \in archives, NEW p \in Projects, RestoreBackup(a, p) PROVE HistoryInv'
  <2>1. /\ UNCHANGED <<archives, task, point, victim, crashes>> /\ task = "none"
        /\ current' = p /\ records' = [records EXCEPT ![p] = a.records]
        /\ projects' = projects \cup {p}
    BY <1>13 DEF RestoreBackup, RestoredRecords, Placed, backup, Idle
  <2>2. \A q \in Projects : Consistent(records'[q], projects)
    BY <1>0, <2>1
  <2>3. \A q \in Projects : Consistent(records'[q], projects')
    BY <2>1, <2>2 DEF Consistent
  <2>4. victim = {} /\ point # "archived"
    BY <1>0, <2>1 DEF VictimInv, Pruning, Automatic
  <2>5. QED
    BY <1>0, <1>1, <2>1, <2>3, <2>4
<1>14. ASSUME NEW p \in Projects, OpenProject(p) PROVE HistoryInv'
  <2>1. /\ UNCHANGED <<archives, projects, records, victim, point, crashes>> /\ task = "none"
        /\ current' \in projects
    BY <1>14 DEF OpenProject, store, backup, Idle
  <2>2. victim = {} /\ point # "archived"
    BY <1>0, <2>1 DEF VictimInv, Pruning, Automatic
  <2>3. QED
    BY <1>0, <1>1, <1>2, <2>1, <2>2
<1>15. CASE UNCHANGED vars
  BY <1>15 DEF vars, store, backup, times, HistoryInv, VictimInv, Consistent, Pruning
<1>16. QED
  BY <1>3, <1>4, <1>5, <1>6, <1>7, <1>8, <1>10, <1>11, <1>12, <1>13, <1>14, <1>15
     DEF Next, BackupStep, Request

\* The own records without an archive, but the one whose file was just unlinked.
Lost(p) == {r \in records[p] \ victim : r.owner = p /\ ~OwnArchive(p, r)}

LEMMA LostKept ==
  ASSUME OwnersInv, HistoryInv, OwnRecordsHaveArchives, [Next]_vars, HistoryInv'
  PROVE  OwnRecordsHaveArchives'
<1>0. /\ crashes \in Nat /\ crashes' \in Nat /\ projects \subseteq Projects
      /\ records \in [Projects -> SUBSET Records]
      /\ \A p \in Projects : Consistent(records[p], projects) /\ KnownRecords(records[p])
      /\ \A p \in projects : Cardinality(Lost(p)) <= crashes
      /\ VictimInv
      /\ (task # "none" => current \in projects)
  BY DEF OwnersInv, HistoryInv, OwnRecordsHaveArchives, Lost, Idle
<1>1. \A p \in projects : IsFiniteSet(Lost(p)) /\ Cardinality(Lost(p)) \in Nat
  <2> SUFFICES ASSUME NEW p \in projects
               PROVE  IsFiniteSet(Lost(p)) /\ Cardinality(Lost(p)) \in Nat
    OBVIOUS
  <2>1. Lost(p) \in SUBSET records[p] /\ IsFiniteSet(records[p])
    BY <1>0 DEF Lost, Consistent
  <2>2. QED
    BY <2>1, FS_Subset, FS_CardinalityType
\* It is enough that nothing is lost, or the counter goes up with the loss.
<1>2. ASSUME UNCHANGED projects, crashes' >= crashes,
             \A p \in projects : Lost(p)' \subseteq Lost(p)
      PROVE  OwnRecordsHaveArchives'
  <2>1. \A p \in projects : Cardinality(Lost(p)') <= Cardinality(Lost(p))
                            /\ Cardinality(Lost(p)') \in Nat
    <3> SUFFICES ASSUME NEW p \in projects
                 PROVE  Cardinality(Lost(p)') <= Cardinality(Lost(p))
                        /\ Cardinality(Lost(p)') \in Nat
      OBVIOUS
    <3>1. Lost(p)' \in SUBSET Lost(p) /\ IsFiniteSet(Lost(p))
      BY <1>1, <1>2
    <3>2. QED
      BY <3>1, FS_Subset, FS_CardinalityType
  <2>2. \A p \in projects' : Cardinality(Lost(p)') <= crashes'
    BY <1>0, <1>1, <1>2, <2>1
  <2>3. QED
    BY <2>2 DEF OwnRecordsHaveArchives, Lost
<1>3. ASSUME UNCHANGED <<projects, records>>, crashes' >= crashes,
             victim' = victim,
             \A a \in archives : \E b \in archives' : b.id = a.id /\ b.owner = a.owner
      PROVE  OwnRecordsHaveArchives'
  <2>1. \A p, r : OwnArchive(p, r) => OwnArchive(p, r)'
    BY <1>3 DEF OwnArchive
  <2>2. QED
    BY <1>2, <1>3, <2>1 DEF Lost
<1>4. Idle => victim = {}
  BY <1>0 DEF VictimInv, Pruning, Idle, Automatic
<1>5. CASE WriteArchive
  <2>1. UNCHANGED <<projects, records, victim, crashes>> /\ archives \subseteq archives'
    BY <1>5 DEF WriteArchive
  <2>2. QED
    BY <1>0, <1>3, <2>1
<1>6. CASE WriteRecord
  <2>1. PICK retained \in BOOLEAN :
          records' = [records EXCEPT ![current] = @ \cup
            {[id |-> made, owner |-> current, reason |-> task, retained |-> retained, day |-> day]}]
    BY <1>6 DEF WriteRecord
  <2>2. /\ point = "archived" /\ task # "none"
        /\ UNCHANGED <<archives, projects, victim, crashes>>
    BY <1>6 DEF WriteRecord, Advance, store, OwnersInv, Idle
  <2> DEFINE new == [id |-> made, owner |-> current, reason |-> task, retained |-> retained,
                     day |-> day]
  <2>3. new.id = made /\ new.owner = current
    OBVIOUS
  <2>4. \A p \in Projects : records'[p] = IF p = current THEN records[p] \cup {new} ELSE records[p]
    BY <1>0, <2>1
  <2> HIDE DEF new
  <2>5. OwnArchive(current, new)
    BY <2>2, <2>3 DEF HistoryInv, OwnArchive
  <2>6. \A p, r : OwnArchive(p, r)' <=> OwnArchive(p, r)
    BY <2>2 DEF OwnArchive
  <2>7. \A p \in projects : Lost(p)' \subseteq Lost(p)
    BY <1>0, <2>2, <2>4, <2>5, <2>6 DEF Lost
  <2>8. QED
    BY <1>0, <1>2, <2>2, <2>7
<1>7. CASE PruneUnlinks
  <2>1. PICK r \in Excess(current) : /\ OwnPath(r) /\ victim' = {r}
                                     /\ archives' = {a \in archives : a.id # r.id}
    BY <1>7 DEF PruneUnlinks
  <2>2. UNCHANGED <<records, projects, crashes>> /\ victim = {} /\ current \in projects
    BY <1>0, <1>7 DEF PruneUnlinks, Pruning, Automatic
  <2>3. r \in records[current] /\ r.owner = current
    BY <2>1 DEF Excess, Prunable, OwnPath
  <2>4. ASSUME NEW p \in projects, NEW x \in records[p], x # r, OwnArchive(p, x)
        PROVE  OwnArchive(p, x)'
    <3>1. PICK a \in archives : a.id = x.id /\ a.owner = p
      BY <2>4 DEF OwnArchive
    <3>2. CASE a.id = r.id
      <4>1. a.owner = current
        BY <1>0, <2>2, <2>3, <3>2 DEF KnownRecords
      <4>2. QED
        BY <1>0, <2>2, <2>3, <2>4, <3>1, <3>2, <4>1 DEF Consistent
    <3>3. CASE a.id # r.id
      BY <2>1, <3>1, <3>3 DEF OwnArchive
    <3>4. QED
      BY <3>2, <3>3
  <2>5. \A p \in projects : Lost(p)' \subseteq Lost(p)
    BY <2>1, <2>2, <2>4 DEF Lost
  <2>6. QED
    BY <1>0, <1>2, <2>2, <2>5
<1>8. CASE PruneDeletesRow
  <2>1. /\ UNCHANGED <<archives, projects, crashes>> /\ current \in projects
        /\ records' = [records EXCEPT ![current] = @ \ victim] /\ victim' = {}
    BY <1>0, <1>8 DEF PruneDeletesRow, DeleteRow, Pruning, Automatic, store
  <2>2. \A p, r : OwnArchive(p, r)' <=> OwnArchive(p, r)
    BY <2>1 DEF OwnArchive
  <2>3. \A r \in victim : r.owner = current
    BY <1>0 DEF VictimInv
  <2>4. \A p \in projects : Lost(p)' \subseteq Lost(p)
    BY <1>0, <2>1, <2>2, <2>3 DEF Lost
  <2>5. QED
    BY <1>0, <1>2, <2>1, <2>4
<1>9. CASE ArchiveFails \/ CopyFails \/ PruneRefuses \/ BackupDone \/ DestroyNothing
  <2>1. UNCHANGED <<archives, projects, records, crashes>> /\ victim' = {}
    BY <1>9 DEF ArchiveFails, CopyFails, PruneRefuses, BackupDone, DestroyNothing, End, store
  <2>2. victim = {}
    BY <1>0, <1>9 DEF ArchiveFails, CopyFails, PruneRefuses, BackupDone, DestroyNothing,
       VictimInv, Pruning, Automatic
  <2>3. QED
    BY <1>0, <1>3, <2>1, <2>2
<1>10. CASE PruneDone
  <2>1. UNCHANGED <<archives, projects, records, victim, crashes>>
    BY <1>10 DEF PruneDone, store
  <2>2. QED
    BY <1>0, <1>3, <2>1
<1>11. ASSUME Changed
       PROVE  \A a \in archives : \E b \in archives' : b.id = a.id /\ b.owner = a.owner
  <2> DEFINE Stale(a) == [a EXCEPT !.fresh = @ /\ a.owner # current]
  <2>1. archives' = {Stale(a) : a \in archives}
    BY <1>11 DEF Changed
  <2>2. \A a \in Archives : Stale(a).id = a.id /\ Stale(a).owner = a.owner
    BY DEF Archives
  <2> HIDE DEF Stale
  <2>3. QED
    BY <2>1, <2>2 DEF OwnersInv
<1>12. CASE Destroy
  <2>1. Changed /\ UNCHANGED <<projects, records, crashes>> /\ victim' = {}
    BY <1>12 DEF Destroy, End
  <2>2. victim = {}
    BY <1>0, <1>12 DEF Destroy, MayDestroy, VictimInv, Pruning
  <2>3. QED
    BY <1>0, <1>3, <1>11, <2>1, <2>2
<1>13. CASE RequestDestruction \/ RequestBackup \/ SaveEntity
  <2>1. UNCHANGED <<projects, records, crashes>> /\ (archives' = archives \/ Changed)
    BY <1>13 DEF RequestDestruction, RequestBackup, SaveEntity, store
  <2>2. victim = {} /\ victim' = {}
    BY <1>4, <1>13 DEF RequestDestruction, RequestBackup, SaveEntity, Begin, backup
  <2>3. QED
    BY <1>0, <1>3, <1>11, <2>1, <2>2
<1>14. CASE SetRetained
  <2>1. PICK r \in records[current], retained \in BOOLEAN :
          records' = [records EXCEPT ![current] = (@ \ {r}) \cup {[r EXCEPT !.retained = retained]}]
    BY <1>14 DEF SetRetained
  <2>2. /\ UNCHANGED <<archives, projects, current, victim, crashes>> /\ victim = {}
        /\ current \in projects
    BY <1>4, <1>14 DEF SetRetained, store, backup, HistoryInv
  <2> DEFINE new == [r EXCEPT !.retained = retained]
  <2>3. new.id = r.id /\ new.owner = r.owner
    BY <1>0, <2>2 DEF Records
  <2>4. \A p \in Projects : records'[p] = IF p = current THEN (records[p] \ {r}) \cup {new}
                                                         ELSE records[p]
    BY <1>0, <2>1
  <2> HIDE DEF new
  <2>5. /\ \A p, x : OwnArchive(p, x)' <=> OwnArchive(p, x)
        /\ OwnArchive(current, new) <=> OwnArchive(current, r)
    BY <2>2, <2>3 DEF OwnArchive
  <2>6. CASE r \notin Lost(current)
    <3>1. ASSUME NEW p \in projects, NEW x \in Lost(p)' PROVE x \in Lost(p)
      <4>1. x \in records'[p] /\ x.owner = p /\ ~OwnArchive(p, x)
        BY <2>5, <3>1 DEF Lost
      <4>2. x \in records[p]
        <5>1. CASE p = current /\ x = new
          BY <2>2, <2>3, <2>5, <2>6, <4>1, <5>1 DEF Lost
        <5>2. CASE ~(p = current /\ x = new)
          BY <1>0, <2>4, <3>1, <4>1, <5>2
        <5>3. QED
          BY <5>1, <5>2
      <4>3. QED
        BY <2>2, <4>1, <4>2 DEF Lost
    <3>2. \A p \in projects : Lost(p)' \subseteq Lost(p)
      BY <3>1
    <3>3. QED
      BY <1>0, <1>2, <2>2, <3>2
  <2>7. CASE r \in Lost(current)
    <3>1. Lost(current)' \in SUBSET ((Lost(current) \ {r}) \cup {new})
      <4> SUFFICES ASSUME NEW x \in Lost(current)', x # new
                   PROVE  x \in Lost(current) \ {r}
        OBVIOUS
      <4>1. x \in records'[current] /\ x.owner = current /\ ~OwnArchive(current, x)
        BY <2>2, <2>5 DEF Lost
      <4>2. x \in records[current] /\ x # r
        BY <1>0, <2>2, <2>4, <4>1
      <4>3. QED
        BY <2>2, <4>1, <4>2 DEF Lost
    <3>2. /\ IsFiniteSet((Lost(current) \ {r}) \cup {new})
          /\ Cardinality((Lost(current) \ {r}) \cup {new}) <= Cardinality(Lost(current))
      <4>1. /\ IsFiniteSet(Lost(current) \ {r})
            /\ Cardinality(Lost(current) \ {r}) = Cardinality(Lost(current)) - 1
        BY <1>1, <2>2, <2>7, FS_RemoveElement
      <4>2. Cardinality(Lost(current)) \in Nat /\ Cardinality(Lost(current) \ {r}) \in Nat
        BY <1>1, <2>2, <4>1, FS_CardinalityType
      <4>3. /\ IsFiniteSet((Lost(current) \ {r}) \cup {new})
            /\ \/ Cardinality((Lost(current) \ {r}) \cup {new}) = Cardinality(Lost(current) \ {r})
               \/ Cardinality((Lost(current) \ {r}) \cup {new})
                    = Cardinality(Lost(current) \ {r}) + 1
        BY <4>1, FS_AddElement
      <4>4. QED
        BY <4>1, <4>2, <4>3
    <3>3. Cardinality(Lost(current)') <= crashes
      <4>1. /\ Cardinality(Lost(current)') <= Cardinality((Lost(current) \ {r}) \cup {new})
            /\ Cardinality(Lost(current)') \in Nat
            /\ Cardinality((Lost(current) \ {r}) \cup {new}) \in Nat
        BY <3>1, <3>2, FS_Subset, FS_CardinalityType
      <4>2. QED
        BY <1>0, <1>1, <2>2, <3>2, <4>1
    <3>4. \A p \in projects : p # current => Lost(p)' = Lost(p)
      BY <1>0, <2>2, <2>4, <2>5 DEF Lost
    <3>5. ASSUME NEW p \in projects' PROVE Cardinality(Lost(p)') <= crashes'
      <4>1. CASE p = current
        BY <2>2, <3>3, <4>1
      <4>2. CASE p # current
        BY <1>0, <2>2, <3>4, <3>5, <4>2
      <4>3. QED
        BY <4>1, <4>2
    <3>6. QED
      BY <3>5 DEF OwnRecordsHaveArchives, Lost
  <2>8. QED
    BY <2>6, <2>7
<1>15. ASSUME NEW a \in archives, NEW p \in Projects, RestoreBackup(a, p)
       PROVE  OwnRecordsHaveArchives'
  <2>1. /\ UNCHANGED <<archives, victim, crashes>> /\ p \notin projects
        /\ records' = [records EXCEPT ![p] = a.records] /\ projects' = projects \cup {p}
    BY <1>15 DEF RestoreBackup, RestoredRecords, Placed, backup
  <2>2. \A q \in projects : Lost(q)' = Lost(q)
    BY <1>0, <2>1 DEF Lost, OwnArchive
  <2>3. Lost(p)' = {}
    BY <1>0, <2>1 DEF Lost, HistoryInv, Consistent
  <2>4. Cardinality(Lost(p)') = 0
    BY <2>3, FS_EmptySet
  <2>5. \A q \in projects' : Cardinality(Lost(q)') <= crashes'
    BY <1>0, <2>1, <2>2, <2>4
  <2>6. QED
    BY <2>5 DEF OwnRecordsHaveArchives, Lost
<1>16. ASSUME NEW p \in Projects, OpenProject(p) PROVE OwnRecordsHaveArchives'
  <2>1. UNCHANGED <<archives, projects, records, victim, crashes>>
    BY <1>16 DEF OpenProject, store, backup
  <2>2. QED
    BY <1>0, <1>3, <2>1
<1>17. CASE Crash
  <2>1. UNCHANGED <<archives, projects, records>> /\ victim' = {} /\ crashes' = crashes + 1
    BY <1>17 DEF Crash, store
  <2>2. \A p, r : OwnArchive(p, r)' <=> OwnArchive(p, r)
    BY <2>1 DEF OwnArchive
  <2>3. ASSUME NEW p \in projects PROVE Cardinality(Lost(p)') <= crashes'
    <3>1. PICK r : victim \subseteq {r}
      BY <1>0 DEF VictimInv
    <3>2. Lost(p)' \in SUBSET (Lost(p) \cup {r})
      BY <2>1, <2>2, <3>1 DEF Lost
    <3>3. /\ IsFiniteSet(Lost(p) \cup {r})
          /\ Cardinality(Lost(p) \cup {r}) <= Cardinality(Lost(p)) + 1
      BY <1>1, <2>3, FS_AddElement
    <3>4. /\ Cardinality(Lost(p)') <= Cardinality(Lost(p) \cup {r})
          /\ Cardinality(Lost(p)') \in Nat /\ Cardinality(Lost(p) \cup {r}) \in Nat
      BY <3>2, <3>3, FS_Subset, FS_CardinalityType
    <3>5. QED
      BY <1>0, <1>1, <2>1, <2>3, <3>3, <3>4
  <2>4. QED
    BY <2>1, <2>3 DEF OwnRecordsHaveArchives, Lost
<1>18. CASE UNCHANGED vars
  <2>1. UNCHANGED <<archives, projects, records, victim, crashes>>
    BY <1>18 DEF vars, store, backup
  <2>2. QED
    BY <1>0, <1>3, <2>1
<1>19. QED
  BY <1>5, <1>6, <1>7, <1>8, <1>9, <1>10, <1>12, <1>13, <1>14, <1>15, <1>16, <1>17, <1>18
     DEF Next, BackupStep, Request

\* For any projects, limit and number of backups, restores and kills: of the records of
\* a project's own backups, no more are without an archive than there were kills.
THEOREM OwnRecordsHaveArchivesAlways == Spec => []OwnRecordsHaveArchives
<1>1. Init => OwnersInv /\ HistoryInv /\ OwnRecordsHaveArchives
  <2> SUFFICES ASSUME Init PROVE OwnersInv /\ HistoryInv /\ OwnRecordsHaveArchives
    OBVIOUS
  <2>1. OwnersInv
    BY DEF Init, OwnersInv, KnownRecords, Idle, Reasons
  <2>2. HistoryInv
    BY FS_EmptySet DEF Init, HistoryInv, VictimInv, Consistent
  <2>3. \A p \in projects : {r \in records[p] \ victim : r.owner = p /\ ~OwnArchive(p, r)} = {}
    BY DEF Init
  <2>4. OwnRecordsHaveArchives
    BY <2>3, FS_EmptySet DEF Init, OwnRecordsHaveArchives
  <2>5. QED
    BY <2>1, <2>2, <2>4
<1>2. OwnersInv /\ HistoryInv /\ OwnRecordsHaveArchives /\ [Next]_vars
        => (OwnersInv /\ HistoryInv /\ OwnRecordsHaveArchives)'
  BY OwnersKept, HistoryKept, LostKept
<1>3. QED
  BY <1>1, <1>2, PTL DEF Spec
=============================================================================
