--------------------------- MODULE Transfers_proofs ---------------------------
(* Theorems about Transfers with their proofs.                             *)
EXTENDS Transfers, Integers, FunctionTheorems, FiniteSetTheorems, TLAPS

-----------------------------------------------------------------------------
(* Lessons.                                                                *)

LEMMA DivFacts ==
  ASSUME NEW a \in Nat, NEW d \in Nat \ {0}
  PROVE  /\ a \div d \in Nat
         /\ d * (a \div d) <= a /\ a < d * (a \div d) + d
OBVIOUS

LEMMA ProductsApart ==
  ASSUME NEW i \in Nat, NEW j \in Nat, NEW d \in Nat, i < j
  PROVE  i * d + d <= j * d
OBVIOUS

\* f cuts w slots into n pieces of d, the last one with the rest.
Cuts(f, n, w, d) ==
  /\ n = (w + d - 1) \div d
  /\ \A i \in 1 .. n : f[i] = IF i * d <= w THEN d ELSE w - (i - 1) * d

LEMMA PiecesCount ==
  ASSUME NEW n \in Nat, NEW w \in Nat, NEW d \in Nat \ {0}, NEW f,
         Cuts(f, n, w, d), NEW S, S = UNION {{i} \X (1 .. f[i]) : i \in 1 .. n}
  PROVE  /\ \A i \in 1 .. n : f[i] \in 1 .. d /\ (i < n => f[i] = d)
         /\ IsFiniteSet(S) /\ Cardinality(S) = w
<1>0. /\ n = (w + d - 1) \div d
      /\ \A i \in 1 .. n : f[i] = IF i * d <= w THEN d ELSE w - (i - 1) * d
  BY DEF Cuts
<1>1. n * d >= w /\ (n > 0 => (n - 1) * d < w)
  <2>1. d * n <= w + d - 1 /\ w + d - 1 < d * n + d
    BY <1>0, DivFacts
  <2>2. (n - 1) * d = d * n - d /\ n * d = d * n
    OBVIOUS
  <2> QED BY <2>1, <2>2
<1>2. ASSUME NEW i \in 1 .. n
      PROVE  /\ (i - 1) * d < w /\ (i - 1) * d \in Nat /\ i * d = (i - 1) * d + d
             /\ f[i] \in 1 .. d /\ (i < n => f[i] = d)
             /\ (i - 1) * d + f[i] <= w /\ (i * d <= w => f[i] = d)
  <2>1. i * d = (i - 1) * d + d /\ (i - 1) * d \in Nat
    OBVIOUS
  <2>2. (i - 1) * d <= (n - 1) * d
    BY ProductsApart
  <2>3. i < n => i * d <= (n - 1) * d
    <3>1. i < n => i <= n - 1
      OBVIOUS
    <3>2. i < n - 1 => i * d + d <= (n - 1) * d
      BY ProductsApart
    <3> QED BY <3>1, <3>2
  <2>4. (i - 1) * d < w /\ (i < n => i * d <= w)
    BY <1>1, <2>2, <2>3
  <2> QED BY <1>0, <2>1, <2>4
<1> DEFINE F == [p \in S |-> (p[1] - 1) * d + p[2]]
<1>3. \A p \in S : p[1] \in 1 .. n /\ p[2] \in 1 .. f[p[1]] /\ p = <<p[1], p[2]>>
  OBVIOUS
<1>4. \A i \in 1 .. n : \A u \in 1 .. f[i] : <<i, u>> \in S
  OBVIOUS
<1>5. F \in [S -> 1 .. w]
  <2>1. ASSUME NEW p \in S PROVE (p[1] - 1) * d + p[2] \in 1 .. w
    <3>1. p[1] \in 1 .. n /\ p[2] \in 1 .. f[p[1]]
      BY <1>3
    <3> QED BY <3>1, <1>2
  <2> QED BY <2>1
<1>6. ASSUME NEW p \in S, NEW q \in S, F[p] = F[q] PROVE p = q
  <2>1. /\ p[1] \in 1 .. n /\ p[2] \in 1 .. d /\ p = <<p[1], p[2]>>
        /\ q[1] \in 1 .. n /\ q[2] \in 1 .. d /\ q = <<q[1], q[2]>>
    <3>1. /\ p[1] \in 1 .. n /\ p[2] \in 1 .. f[p[1]] /\ p = <<p[1], p[2]>>
          /\ q[1] \in 1 .. n /\ q[2] \in 1 .. f[q[1]] /\ q = <<q[1], q[2]>>
      BY <1>3
    <3>2. f[p[1]] \in 1 .. d /\ f[q[1]] \in 1 .. d
      BY <1>2, <3>1
    <3> QED BY <3>1, <3>2
  <2>2. (p[1] - 1) * d + p[2] = (q[1] - 1) * d + q[2]
    BY <1>6
  <2>3. ASSUME NEW i \in 1 .. n, NEW j \in 1 .. n, NEW u \in 1 .. d, NEW v \in 1 .. d,
               (i - 1) * d + u = (j - 1) * d + v, i < j
        PROVE  FALSE
    <3>1. (i - 1) * d + d <= (j - 1) * d
      BY <2>3, ProductsApart
    <3> QED BY <3>1, <2>3
  <2>4. p[1] = q[1]
    BY <2>1, <2>2, <2>3
  <2> QED BY <2>1, <2>2, <2>4
<1>7. ASSUME NEW x \in 1 .. w PROVE \E p \in S : F[p] = x
  <2> DEFINE k == (x - 1) \div d
  <2>1. k \in Nat /\ d * k <= x - 1 /\ x - 1 < d * k + d /\ d * k = k * d
    BY DivFacts
  <2> HIDE DEF k
  <2>2. k + 1 \in 1 .. n
    <3>1. n <= k => n * d <= k * d
      <4>1. n < k => n * d + d <= k * d
        BY <2>1, ProductsApart
      <4> QED BY <2>1, <4>1
    <3> QED BY <1>1, <2>1, <3>1
  <2>3. x - k * d \in 1 .. f[k + 1]
    <3>1. PICK i \in 1 .. n : i = k + 1
      BY <2>2
    <3>2. f[i] = IF i * d <= w THEN d ELSE w - (i - 1) * d
      BY <1>0
    <3>3. x - k * d \in 1 .. d /\ x - k * d <= w - k * d /\ (i - 1) * d = k * d
      BY <2>1, <3>1
    <3>4. f[i] \in {d, w - k * d}
      BY <3>2, <3>3
    <3> QED BY <2>1, <3>1, <3>3, <3>4
  <2>4. <<k + 1, x - k * d>> \in S
    BY <1>4, <2>2, <2>3
  <2>5. F[<<k + 1, x - k * d>>] = x
    BY <2>1, <2>4
  <2> QED BY <2>4, <2>5
<1> HIDE DEF F
<1>8. F \in Bijection(S, 1 .. w)
  <2>1. \A p, q \in S : F[p] = F[q] => p = q
    BY <1>6
  <2>2. \A x \in 1 .. w : \E p \in S : F[p] = x
    BY <1>7
  <2> QED BY <1>5, <2>1, <2>2, Fun_IsBij
<1>9. IsFiniteSet(1 .. w) /\ Cardinality(1 .. w) = w
  BY FS_Interval
<1>10. ExistsBijection(1 .. w, S)
  BY <1>8, Fun_ExistsBij, Fun_ExistsBijSymmetric
<1>11. IsFiniteSet(S) /\ Cardinality(S) = w
  BY <1>9, <1>10, FS_Bijection
<1> QED BY <1>2, <1>11

\* What is known of a task, and of the tasks T and the lessons L of a project.
IsTask(t) ==
  /\ DOMAIN t = {"id", "homeroom", "term", "teacher", "plan", "weekly", "duration"}
  /\ t.weekly \in Nat /\ t.duration \in Nat \ {0}

Covers(T, L) ==
  /\ \A t \in T : IsTask(t)
  /\ \A t, u \in T : t.id = u.id => t = u
  /\ \A t \in T : \A l \in LessonsOf(t) : l \in L
  /\ \A l \in L : \E t \in T : l \in LessonsOf(t)

LEMMA LessonFacts ==
  ASSUME NEW t, IsTask(t)
  PROVE  /\ \A l \in LessonsOf(t) : l.task = t.id
         /\ \A u : t.id = u.id /\ t.weekly = u.weekly /\ t.duration = u.duration =>
              LessonsOf(u) = LessonsOf(t)
<1>1. \A l \in LessonsOf(t) : l.task = t.id
  BY DEF LessonsOf
<1>2. ASSUME NEW u, t.id = u.id, t.weekly = u.weekly, t.duration = u.duration
      PROVE  LessonsOf(u) = LessonsOf(t)
  <2>1. LessonLengths(u) = LessonLengths(t)
    BY <1>2 DEF LessonLengths
  <2> QED BY <1>2, <2>1 DEF LessonsOf
<1> QED BY <1>1, <1>2

\* The lessons of a task cover its slots.
LEMMA LessonsCover ==
  ASSUME NEW t, IsTask(t), NEW rows, rows = LessonsOf(t)
  PROVE  /\ Cardinality(UNION {{l.index} \X (1 .. l.duration) : l \in rows}) = t.weekly
         /\ {l.index : l \in rows} = 1 .. Cardinality(rows)
         /\ \A l \in rows : IF l.index < Cardinality(rows)
                               THEN l.duration = t.duration
                               ELSE l.duration \in 1 .. t.duration
<1> DEFINE w == t.weekly
           d == t.duration
           n == (w + d - 1) \div d
           f == LessonLengths(t)
           row(i) == [task |-> t.id, index |-> i, duration |-> f[i]]
           G == [i \in 1 .. n |-> row(i)]
           S == UNION {{i} \X (1 .. f[i]) : i \in 1 .. n}
<1>1. w \in Nat /\ d \in Nat \ {0} /\ n \in Nat
  BY DivFacts DEF IsTask
<1>2. DOMAIN f = 1 .. n /\ \A i \in 1 .. n : f[i] = IF i * d <= w THEN d ELSE w - (i - 1) * d
  BY DEF LessonLengths
<1>3. rows = {row(i) : i \in 1 .. n}
  BY <1>2 DEF LessonsOf
<1>4. \A i : row(i).index = i /\ row(i).duration = f[i]
  OBVIOUS
<1> HIDE DEF f, n, w, d, row
<1>5. /\ \A i \in 1 .. n : f[i] \in 1 .. d /\ (i < n => f[i] = d)
      /\ Cardinality(S) = w
  <2>1. Cuts(f, n, w, d)
    BY <1>2 DEF Cuts, n
  <2> HIDE DEF S
  <2>2. S = UNION {{i} \X (1 .. f[i]) : i \in 1 .. n}
    BY DEF S
  <2>3. n \in Nat /\ w \in Nat /\ d \in Nat \ {0}
    BY <1>1
  <2> HIDE <1>1, <1>2, <1>3, <1>4
  <2>4. QED
    BY <2>1, <2>2, <2>3, PiecesCount
<1>6. Cardinality(rows) = n
  <2>1. G \in [1 .. n -> rows]
    BY <1>3
  <2>2. \A i, k \in 1 .. n : G[i] = G[k] => i = k
    <3>1. \A i \in 1 .. n : G[i].index = i
      BY <1>4
    <3> HIDE DEF G
    <3> QED BY <3>1
  <2>3. \A r \in rows : \E i \in 1 .. n : G[i] = r
    BY <1>3
  <2> HIDE DEF G
  <2>4. ExistsBijection(1 .. n, rows)
    BY <2>1, <2>2, <2>3, Fun_IsBij, Fun_ExistsBij
  <2>5. IsFiniteSet(1 .. n) /\ Cardinality(1 .. n) = n
    BY <1>1, FS_Interval
  <2> QED BY <2>4, <2>5, FS_Bijection
<1>7. \A l \in rows : \E i \in 1 .. n : l.index = i /\ l.duration = f[i]
  BY <1>3, <1>4
<1>8. \A i \in 1 .. n : \E l \in rows : l.index = i /\ l.duration = f[i]
  BY <1>3, <1>4
<1>9. UNION {{l.index} \X (1 .. l.duration) : l \in rows} = S
  BY <1>7, <1>8
<1>10. {l.index : l \in rows} = 1 .. n
  BY <1>7, <1>8
<1>11. w = t.weekly /\ d = t.duration
  BY DEF w, d
<1>12. \A l \in rows : IF l.index < n THEN l.duration = d ELSE l.duration \in 1 .. d
  BY <1>5, <1>7
<1>13. Cardinality(UNION {{l.index} \X (1 .. l.duration) : l \in rows}) = w
  BY <1>5, <1>9
<1> QED BY <1>6, <1>10, <1>11, <1>12, <1>13

LEMMA CoversMore ==
  ASSUME NEW T, NEW L, NEW N, NEW M, Covers(T, L),
         \A t \in N : IsTask(t) /\ \A u \in T : u.id # t.id,
         \A t, u \in N : t.id = u.id => t = u,
         \A t \in N : \A l \in LessonsOf(t) : l \in M,
         \A l \in M : \E t \in N : l \in LessonsOf(t)
  PROVE  Covers(T \cup N, L \cup M)
BY Zenon DEF Covers

TasksBut(T, id)   == {t \in T : t.id # id}
LessonsBut(L, id) == {l \in L : l.task # id}

LEMMA CoversLess ==
  ASSUME NEW T, NEW L, NEW id, Covers(T, L)
  PROVE  Covers(TasksBut(T, id), LessonsBut(L, id))
BY LessonFacts DEF Covers, TasksBut, LessonsBut

LEMMA CoversSame ==
  ASSUME NEW T, NEW L, NEW F, Covers(T, L), DOMAIN F = T,
         \A t \in T : /\ IsTask(F[t]) /\ F[t].id = t.id
                      /\ F[t].weekly = t.weekly /\ F[t].duration = t.duration
  PROVE  Covers({F[t] : t \in T}, L)
<1>1. \A t \in T : LessonsOf(F[t]) = LessonsOf(t)
  BY LessonFacts DEF Covers
<1> QED BY <1>1 DEF Covers

-----------------------------------------------------------------------------
USE SheetsAssumption, IdsAssumption, BoundsAssumption

-----------------------------------------------------------------------------
(* Rows and files.                                                         *)

LEMMA JobFacts ==
  /\ \A s \in Sheets : s # NoFile
  /\ \A row \in JobRows : row # NoJob
  /\ \A s, t \in Sheets, columns \in SUBSET {"term_name"} :
       [status |-> "preview", sheet |-> s, shown |-> t, columns |-> columns] \in JobRows
  /\ \A row \in JobRows :
       /\ row.sheet \in Sheets /\ row.columns \in SUBSET {"term_name"}
       /\ [row EXCEPT !.status = "confirmed"] \in JobRows
       /\ [row EXCEPT !.status = "abandoned"] \in JobRows
       /\ \A s \in Sheets, columns \in SUBSET {"term_name"} :
            [row EXCEPT !.shown = s, !.columns = columns] \in JobRows
  /\ \A s \in Sheets : Columns(s) \subseteq SUBSET {"term_name"}
<1>1. \A s \in Sheets : s # NoFile
  BY DEF NoFile, Types
<1>2. \A row \in JobRows : row # NoJob
  BY DEF JobRows, NoJob
<1>3. \A s, t \in Sheets, columns \in SUBSET {"term_name"} :
        [status |-> "preview", sheet |-> s, shown |-> t, columns |-> columns] \in JobRows
  BY DEF JobRows
<1>4. \A row \in JobRows :
        /\ row.sheet \in Sheets /\ row.columns \in SUBSET {"term_name"}
        /\ [row EXCEPT !.status = "confirmed"] \in JobRows
        /\ [row EXCEPT !.status = "abandoned"] \in JobRows
        /\ \A s \in Sheets, columns \in SUBSET {"term_name"} :
            [row EXCEPT !.shown = s, !.columns = columns] \in JobRows
  BY DEF JobRows
<1>5. \A s \in Sheets : Columns(s) \subseteq SUBSET {"term_name"}
  BY DEF Columns
<1>6. QED
  BY <1>1, <1>2, <1>3, <1>4, <1>5

LEMMA PointFacts ==
  /\ Idle.at = "idle" /\ \A point, j : [at |-> point, job |-> j].at = point
  /\ \A point, j : [at |-> point, job |-> j].job = j
BY DEF Idle

LEMMA CheckedFacts ==
  /\ \A j : Checked(j, TRUE).at = "checked" /\ Checked(j, FALSE).at = "checked"
  /\ \A j : Checked(j, TRUE).job = j /\ Checked(j, FALSE).job = j
  /\ \A j : Checked(j, TRUE).swapped
BY DEF Checked

LEMMA ReadLeads ==
  ASSUME NEW j, ReadStored(j) PROVE loop'.at = "backed up" /\ loop'.job = j
<1> DEFINE rows == RowsRead(j)
           type == stored[j].type
           swapped == loop.swapped
<1>1. loop' = [at |-> "backed up", job |-> j, swapped |-> swapped, type |-> type, rows |-> rows]
  BY DEF ReadStored
<1> QED BY <1>1

LEMMA ReplaceLeads ==
  ASSUME NEW j, ReplaceStored(j)
  PROVE  loop' = loop \/ (At("checked", j) /\ loop' = Checked(j, TRUE))
<1>1. loop' = IF At("checked", j) THEN Checked(j, TRUE) ELSE loop
  BY DEF ReplaceStored
<1> QED BY <1>1

\* The part about imports; a file whose job is not listed yet belongs to the handler
\* under way.
ImportsTyped ==
  /\ imports \in [ImportIds -> JobRows \cup {NoJob}]
  /\ stored \in [ImportIds -> Sheets \cup {NoFile}]
  /\ attachments \subseteq ImportIds

JobInv(j) ==
  /\ imports[j] # NoJob \/ j \in attachments => stored[j] # NoFile
  /\ At("stored", j) \/ At("digested", j) =>
       imports[j] = NoJob /\ j \notin attachments /\ stored[j] # NoFile
  /\ At("digested", j) => loop.sheet \in Sheets
  /\ At("listed", j) => imports[j] # NoJob
  /\ At("checked", j) => imports[j] # NoJob
  /\ At("backed up", j) => imports[j] # NoJob
  /\ At("inserted", j) => imports[j] # NoJob

ImportsInv == ImportsTyped /\ \A j \in ImportIds : JobInv(j)

\* The part about exports; a success that is not registered yet belongs to the handler
\* under way.
ExportsInv ==
  /\ exports \in [OutIds -> {"absent", "running", "succeeded", "failed"}]
  /\ produced \subseteq OutIds /\ artifacts \subseteq OutIds
  /\ crashes \in 0 .. MaxCrashes
  /\ \A e \in OutIds :
       /\ exports[e] = "succeeded" => e \in produced
       /\ e \in artifacts => exports[e] = "succeeded"
       /\ At("filled", e) => e \in produced
       /\ At("recorded", e) => exports[e] = "succeeded"
       /\ At("produced", e) => e \in produced
       /\ At("succeeded", e) => exports[e] = "succeeded"
       /\ loop.at \in ExportPoints /\ loop.job = e => e \notin artifacts
  /\ \A e \in ExportIds \ cutOff :
       /\ exports[e] = "running" => At("exporting", e) \/ At("produced", e)
       /\ exports[e] = "succeeded" => At("succeeded", e) \/ e \in artifacts

LEMMA ImportsKept == ImportsInv /\ [Next]_vars => ImportsInv'
<1> SUFFICES ASSUME ImportsInv, [Next]_vars PROVE ImportsInv'
  OBVIOUS
<1>0. ImportsTyped /\ \A j \in ImportIds : JobInv(j)
  BY DEF ImportsInv
<1>1. ASSUME UNCHANGED jobs,
             loop' = loop \/ loop'.at \notin ImportPoints
      PROVE  ImportsInv'
  <2>1. ImportsTyped'
    BY <1>0, <1>1 DEF jobs, ImportsTyped
  <2>2. ASSUME NEW j \in ImportIds PROVE JobInv(j)'
    BY <1>0, <1>1, <2>2 DEF jobs, JobInv, At, ImportPoints
  <2>3. QED
    BY <2>1, <2>2 DEF ImportsInv
\* What a handler of one job leaves alone.
<1>2. ASSUME NEW j \in ImportIds, NEW row \in JobRows \cup {NoJob},
             NEW file \in Sheets \cup {NoFile},
             imports' = imports \/ imports' = [imports EXCEPT ![j] = row],
             stored' = stored \/ stored' = [stored EXCEPT ![j] = file],
             attachments' \in {attachments, attachments \cup {j}},
             loop' = loop \/ loop' = Idle \/ loop'.job = j,
             JobInv(j)'
      PROVE  ImportsInv'
  <2>1. ImportsTyped'
    BY <1>0, <1>2 DEF ImportsTyped
  <2>2. ASSUME NEW k \in ImportIds, k # j PROVE JobInv(k)'
    <3>1. imports'[k] = imports[k] /\ stored'[k] = stored[k]
          /\ (k \in attachments' <=> k \in attachments)
      BY <1>0, <1>2, <2>2 DEF ImportsTyped
    <3>2. CASE loop' = loop
      BY <1>0, <2>2, <3>1, <3>2 DEF JobInv, At
    <3>3. CASE loop' = Idle \/ loop'.job = j
      BY <1>0, <2>2, <3>1, <3>3, PointFacts DEF JobInv, At
    <3>4. QED
      BY <1>2, <3>2, <3>3
  <2>3. QED
    BY <1>2, <2>1, <2>2 DEF ImportsInv
<1>3. ASSUME NEW j \in ImportIds, ImportStep(j) PROVE ImportsInv'
  <2> USE <1>0 DEF ImportsTyped
  <2>1. CASE StoreFile(j)
    <3>1. PICK s \in Sheets : stored' = [stored EXCEPT ![j] = s]
      BY <2>1 DEF StoreFile
    <3>2. JobInv(j)'
      BY <2>1, <3>1, JobFacts, PointFacts, ZenonT(60) DEF StoreFile, GoTo, At, JobInv
    <3>3. QED
      BY <1>2, <2>1, <3>1, <3>2, PointFacts DEF StoreFile, GoTo
  <2>0. CASE DigestStored(j)
    <3>1. /\ loop' = [at |-> "digested", job |-> j, sheet |-> stored[j]]
          /\ stored[j] \in Sheets /\ UNCHANGED jobs
      BY <2>0 DEF DigestStored, JobInv
    <3>2. loop'.at = "digested" /\ loop'.job = j /\ loop'.sheet \in Sheets
      BY <3>1
    <3>3. JobInv(j)'
      BY <2>0, <3>1, <3>2 DEF DigestStored, jobs, At, JobInv
    <3>4. QED
      BY <1>2, <3>1, <3>2, <3>3 DEF jobs
  <2>2. CASE PreviewFails(j)
    <3>1. JobInv(j)'
      BY <2>2, PointFacts DEF PreviewFails, At, JobInv
    <3>2. QED
      BY <1>2, <2>2, <3>1 DEF PreviewFails, Unlink
  <2>3. CASE PreviewListed(j)
    <3>1. stored[j] \in Sheets /\ loop.sheet \in Sheets
      BY <2>3 DEF PreviewListed, JobInv
    <3>2. PICK row \in JobRows : imports' = [imports EXCEPT ![j] = row]
      BY <2>3, <3>1, JobFacts DEF PreviewListed
    <3>3. JobInv(j)'
      BY <2>3, <3>1, <3>2, JobFacts, PointFacts DEF PreviewListed, GoTo, At, JobInv
    <3>4. QED
      BY <1>2, <2>3, <3>2, <3>3, PointFacts DEF PreviewListed, GoTo
  <2>4. CASE PreviewAttached(j)
    <3>1. JobInv(j)'
      BY <2>4, PointFacts DEF PreviewAttached, At, JobInv
    <3>2. QED
      BY <1>2, <2>4, <3>1 DEF PreviewAttached
  <2>5. ASSUME imports[j] # NoJob, NEW row \in JobRows, imports' = [imports EXCEPT ![j] = row],
               UNCHANGED <<stored, attachments>>, loop' = loop \/ loop' = Idle
        PROVE  ImportsInv'
    <3>1. JobInv(j)'
      BY <2>5, JobFacts, PointFacts DEF At, JobInv
    <3>2. QED
      BY <1>2, <2>5, <3>1
  <2>6. CASE RemapPreview(j) \/ Abandon(j)
    <3>1. imports[j] \in JobRows
      BY <2>6 DEF RemapPreview, Abandon, InPreview
    <3>2. /\ imports[j] # NoJob /\ stored[j] \in Sheets
          /\ Columns(stored[j]) \subseteq SUBSET {"term_name"}
      <4>1. imports[j] # NoJob
        BY <3>1, JobFacts
      <4>2. stored[j] \in Sheets
        BY <4>1 DEF JobInv
      <4>3. QED
        BY <4>1, <4>2, JobFacts
    <3>3. CASE RemapPreview(j)
      <4>1. PICK columns \in SUBSET {"term_name"} :
              imports' = [imports EXCEPT ![j].shown = stored[j], ![j].columns = columns]
        BY <3>2, <3>3 DEF RemapPreview
      <4>2. PICK row \in JobRows : row = [imports[j] EXCEPT !.shown = stored[j], !.columns = columns]
        BY <3>1, <3>2, JobFacts
      <4>3. imports' = [imports EXCEPT ![j] = row]
        BY <4>1, <4>2
      <4>4. QED
        BY <2>5, <3>2, <3>3, <4>3 DEF RemapPreview
    <3>4. CASE Abandon(j)
      BY <2>5, <3>1, <3>2, <3>4, JobFacts DEF Abandon
    <3>5. QED
      BY <2>6, <3>3, <3>4
  <2>7. CASE ImportConfirmed(j)
    <3>1. imports[j] \in JobRows /\ imports[j] # NoJob
      BY <2>7, JobFacts DEF ImportConfirmed, JobInv
    <3>2. QED
      BY <2>5, <2>7, <3>1, JobFacts DEF ImportConfirmed
  <2>8. CASE ReplaceStored(j)
    <3>1. PICK s \in Sheets : stored' = [stored EXCEPT ![j] = s]
      BY <2>8 DEF ReplaceStored
    <3>2. /\ loop'.at = loop.at /\ (loop' = loop \/ loop'.job = j)
          /\ At("digested", j) => loop' = loop
          /\ \A point : At(point, j)' <=> At(point, j)
      <4>1. CASE loop' = loop
        BY <4>1 DEF At
      <4>2. CASE At("checked", j) /\ loop' = Checked(j, TRUE)
        <5>1. /\ loop.at = "checked" /\ loop.job = j
              /\ loop'.at = "checked" /\ loop'.job = j
          BY <4>2, CheckedFacts DEF At
        <5>2. QED
          BY <5>1 DEF At
      <4>3. QED
        BY <2>8, <4>1, <4>2, ReplaceLeads
    <3>3. JobInv(j)'
      BY <2>8, <3>1, <3>2, JobFacts DEF ReplaceStored, InPreview, At, JobInv
    <3>4. QED
      BY <1>2, <2>8, <3>1, <3>2, <3>3 DEF ReplaceStored
  <2>9. CASE CheckStored(j) \/ ReadStored(j) \/ ConfirmRefused(j)
    <3>1. UNCHANGED jobs /\ imports[j] # NoJob
      BY <2>9 DEF CheckStored, ReadStored, ConfirmRefused, InPreview, JobInv
    <3>2. \/ loop'.at \in {"checked", "backed up"} /\ loop'.job = j
          \/ loop' = Idle
      <4>1. CASE CheckStored(j)
        BY <4>1, CheckedFacts DEF CheckStored
      <4>2. CASE ReadStored(j) \/ ConfirmRefused(j)
        BY <4>2, ReadLeads DEF ConfirmRefused
      <4>3. QED
        BY <2>9, <4>1, <4>2
    <3>3. JobInv(j)'
      BY <3>1, <3>2, PointFacts DEF jobs, At, JobInv
    <3>4. QED
      BY <1>2, <3>1, <3>2, <3>3 DEF jobs
  <2>10. CASE InsertBatch(j)
    <3>1. JobInv(j)'
      BY <2>10, PointFacts DEF InsertBatch, GoTo, jobs, At, JobInv
    <3>2. QED
      BY <1>2, <2>10, <3>1, PointFacts DEF InsertBatch, GoTo, jobs
  <2>11. QED
    BY <1>3, <2>0, <2>1, <2>2, <2>3, <2>4, <2>6, <2>7, <2>8, <2>9, <2>10 DEF ImportStep
<1>4. ASSUME NEW e, ExportStep(e) PROVE ImportsInv'
  <2>1. UNCHANGED jobs /\ loop'.at \in {"exporting", "produced", "succeeded", "idle"}
    BY <1>4, PointFacts DEF ExportStep, ExportStarts, ExportProduces, ExportSucceeds,
       ExportRegistered, ExportFails, FailureUnrecorded, GoTo
  <2>2. QED
    BY <1>1, <2>1 DEF ImportPoints
<1>5. ASSUME NEW e, TemplateStep(e) PROVE ImportsInv'
  <2>1. UNCHANGED jobs /\ loop'.at \in {"filled", "recorded", "idle"}
    BY <1>5, PointFacts
       DEF TemplateStep, TemplateFilled, TemplateRecorded, TemplateRegistered, GoTo
  <2>2. QED
    BY <1>1, <2>1 DEF ImportPoints
<1>6. CASE Edit \/ HandlerRaises \/ KilledAndReopened \/ UNCHANGED vars
  BY <1>1, <1>6, PointFacts DEF Edit, HandlerRaises, KilledAndReopened, vars, ImportPoints
<1>7. QED
  BY <1>3, <1>4, <1>5, <1>6 DEF Next

LEMMA ExportsKept == ExportsInv /\ [Next]_vars => ExportsInv'
<1> SUFFICES ASSUME ExportsInv, [Next]_vars PROVE ExportsInv'
  OBVIOUS
<1> USE DEF ExportsInv
<1>1. ASSUME UNCHANGED <<outs, crashes>>, loop' = loop \/ loop.at \notin ExportPoints,
             loop' = loop \/ loop'.at \notin ExportPoints \cup TemplatePoints
      PROVE  ExportsInv'
  BY <1>1 DEF outs, At, ExportPoints, TemplatePoints
<1>2. ASSUME NEW e \in ExportIds, ExportStep(e) PROVE ExportsInv'
  <2>0. e \in OutIds /\ e \notin TemplateIds
    BY DEF OutIds
  <2>1. CASE ExportStarts(e)
    BY <2>0, <2>1, PointFacts DEF ExportStarts, GoTo, At, Ready
  <2>2. CASE ExportProduces(e)
    BY <2>0, <2>2, PointFacts DEF ExportProduces, GoTo, At, ExportPoints
  <2>3. CASE ExportSucceeds(e)
    BY <2>0, <2>3, PointFacts DEF ExportSucceeds, GoTo, At, ExportPoints
  <2>4. CASE ExportRegistered(e)
    BY <2>0, <2>4, PointFacts DEF ExportRegistered, At, ExportPoints
  <2>5. CASE ExportFails(e)
    BY <2>0, <2>5, PointFacts DEF ExportFails, FailedExport, At, ExportPoints
  <2>6. CASE FailureUnrecorded(e)
    BY <2>0, <2>6, PointFacts DEF FailureUnrecorded, At, ExportPoints
  <2>7. QED
    BY <1>2, <2>1, <2>2, <2>3, <2>4, <2>5, <2>6 DEF ExportStep
<1>3. ASSUME NEW e \in TemplateIds, TemplateStep(e) PROVE ExportsInv'
  <2>0. e \in OutIds /\ e \notin ExportIds
    BY DEF OutIds
  <2>1. CASE TemplateFilled(e)
    BY <2>0, <2>1, PointFacts DEF TemplateFilled, GoTo, At, Ready, ExportPoints
  <2>2. CASE TemplateRecorded(e)
    BY <2>0, <2>2, PointFacts DEF TemplateRecorded, GoTo, At, ExportPoints
  <2>3. CASE TemplateRegistered(e)
    BY <2>0, <2>3, PointFacts DEF TemplateRegistered, At, ExportPoints
  <2>4. QED
    BY <1>3, <2>1, <2>2, <2>3 DEF TemplateStep
<1>4. ASSUME NEW j, ImportStep(j) PROVE ExportsInv'
  <2> DEFINE Points ==
        {"idle", "stored", "digested", "listed", "checked", "backed up", "inserted"}
  <2>1. UNCHANGED <<outs, crashes>>
    BY <1>4 DEF ImportStep, StoreFile, DigestStored, PreviewFails, PreviewListed,
       PreviewAttached, RemapPreview, Abandon, ReplaceStored, CheckStored, ReadStored,
       ConfirmRefused, InsertBatch, ImportConfirmed
  <2>2. loop' = loop \/ loop.at \in Points
    BY <1>4, PointFacts
       DEF ImportStep, StoreFile, DigestStored, PreviewFails, PreviewListed, PreviewAttached,
           RemapPreview, Abandon, ReplaceStored, CheckStored, ReadStored, ConfirmRefused,
           InsertBatch, ImportConfirmed, At, Ready
  <2>3. loop' = loop \/ loop'.at \in Points
    <3>1. CASE StoreFile(j) \/ PreviewListed(j) \/ InsertBatch(j)
      <4>1. PICK point \in {"stored", "listed", "inserted"} : GoTo(point, j)
        BY <3>1 DEF StoreFile, PreviewListed, InsertBatch
      <4>2. QED
        BY <4>1, PointFacts DEF GoTo
    <3>2. CASE DigestStored(j) \/ CheckStored(j) \/ ReadStored(j) \/ ReplaceStored(j)
      <4>1. CASE DigestStored(j)
        BY <4>1 DEF DigestStored
      <4>2. CASE ReadStored(j)
        BY <4>2, ReadLeads
      <4>3. CASE CheckStored(j)
        BY <4>3, CheckedFacts DEF CheckStored
      <4>4. CASE ReplaceStored(j)
        <5>1. loop' = loop \/ loop' = Checked(j, TRUE)
          BY <4>4, ReplaceLeads
        <5>2. CASE loop' = Checked(j, TRUE)
          <6>1. loop'.at = "checked"
            BY <5>2, CheckedFacts
          <6>2. QED
            BY <6>1
        <5>3. QED
          BY <5>1, <5>2
      <4>5. QED
        BY <3>2, <4>1, <4>2, <4>3, <4>4
    <3>3. CASE PreviewFails(j) \/ PreviewAttached(j) \/ ConfirmRefused(j) \/ ImportConfirmed(j)
      BY <3>3, PointFacts DEF PreviewFails, PreviewAttached, ConfirmRefused, ImportConfirmed
    <3>4. CASE RemapPreview(j) \/ Abandon(j)
      BY <3>4 DEF RemapPreview, Abandon
    <3>5. QED
      BY <1>4, <3>1, <3>2, <3>3, <3>4 DEF ImportStep
  <2>4. QED
    BY <1>1, <2>1, <2>2, <2>3 DEF ExportPoints, TemplatePoints
<1>5. CASE Edit \/ UNCHANGED vars
  BY <1>1, <1>5 DEF Edit, vars
<1>6. CASE HandlerRaises
  <2>1. loop.at \notin ExportPoints
    BY <1>6 DEF HandlerRaises, ImportPoints, TemplatePoints, ExportPoints
  <2>2. QED
    BY <1>1, <1>6, <2>1, PointFacts DEF HandlerRaises, ExportPoints, TemplatePoints
<1>7. CASE KilledAndReopened
  BY <1>7, PointFacts DEF KilledAndReopened, outs, At, ExportPoints
<1>8. QED
  BY <1>2, <1>3, <1>4, <1>5, <1>6, <1>7 DEF Next

\* For any sheets, transfers and faults and any number of kills: no row of the
\* database speaks of a missing file, and only successes are registered.
THEOREM RowsHaveFilesAlways == Spec => []RowsHaveFiles
<1>1. Init => ImportsInv /\ ExportsInv
  <2> SUFFICES ASSUME Init PROVE ImportsInv /\ ExportsInv
    OBVIOUS
  <2>1. ImportsInv
    BY PointFacts DEF Init, ImportsInv, ImportsTyped, JobInv, At
  <2>2. ExportsInv
    BY PointFacts DEF Init, ExportsInv, At, ExportPoints, OutIds
  <2>3. QED
    BY <2>1, <2>2
<1>2. ImportsInv /\ ExportsInv /\ [Next]_vars => (ImportsInv /\ ExportsInv)'
  BY ImportsKept, ExportsKept
<1>3. ImportsInv /\ ExportsInv => RowsHaveFiles
  BY DEF ImportsInv, JobInv, ExportsInv, RowsHaveFiles
<1>4. QED
  BY <1>1, <1>2, <1>3, PTL DEF Spec

-----------------------------------------------------------------------------
(* What an import inserts.                                                 *)

\* After the digest the copy is the digested sheet, unless it was written over. The
\* records in memory between the pre-import backup and the transaction are a sheet,
\* read with some columns and still acceptable: those of the job, unless the copy
\* was written over.
InsertInv ==
  /\ loop.at = "checked" =>
       /\ loop.job \in ImportIds /\ imports[loop.job] \in JobRows
       /\ loop.swapped \/ stored[loop.job] = imports[loop.job].sheet
  /\ loop.at = "backed up" =>
       LET job == imports[loop.job]
       IN  /\ \E sheet \in Sheets, columns \in SUBSET {"term_name"} :
                loop.type = sheet.type /\ loop.rows = Read(sheet, columns)
           /\ Accepted(loop.type, loop.rows)
           /\ \/ loop.swapped
              \/ loop.type = job.sheet.type /\ loop.rows = Read(job.sheet, job.columns)

\* The tables that a sheet is read against do not change meanwhile.
LEMMA AcceptedKept ==
  ASSUME UNCHANGED data
  PROVE  \A type, rows : Accepted(type, rows) => Accepted(type, rows)'
<1>1. \A row : TermOf(row)' = TermOf(row)
  BY DEF data, TermOf
<1>2. \A name : Called(name)' = Called(name)
  BY DEF data, Called
<1>3. \A row : TeacherOf(row)' = TeacherOf(row)
  BY <1>2 DEF TeacherOf
<1>4. \A row : PlansFor(row)' = PlansFor(row)
  BY <1>1 DEF data, PlansFor
<1>5. \A type, row : Key(type, row)' = Key(type, row)
  BY <1>1, <1>3 DEF Key
<1>6. \A type, row : Resolvable(type, row)' = Resolvable(type, row)
  BY <1>2, <1>4 DEF Resolvable
<1>7. \A type : KeysInTables(type)' = KeysInTables(type)
  BY DEF data, KeysInTables
<1>8. \A type, rows, i : TakenBefore(type, rows, i)' = TakenBefore(type, rows, i)
  BY <1>5, <1>6, <1>7 DEF TakenBefore
<1>9. QED
  BY <1>6, <1>8 DEF Accepted

LEMMA InsertKept == ImportsInv /\ InsertInv /\ [Next]_vars => InsertInv'
<1> SUFFICES ASSUME ImportsInv, InsertInv, [Next]_vars PROVE InsertInv'
  OBVIOUS
<1>1. ASSUME loop'.at \notin {"checked", "backed up"} PROVE InsertInv'
  BY <1>1 DEF InsertInv
<1>2. ASSUME UNCHANGED <<data, imports, loop>>,
             loop.at = "checked" => stored'[loop.job] = stored[loop.job]
      PROVE  InsertInv'
  BY <1>2, AcceptedKept DEF InsertInv, Read
<1>3. ASSUME NEW j \in ImportIds, ImportStep(j) PROVE InsertInv'
  <2>1. CASE StoreFile(j) \/ PreviewListed(j) \/ InsertBatch(j)
    <3>1. PICK point \in {"stored", "listed", "inserted"} : GoTo(point, j)
      BY <2>1 DEF StoreFile, PreviewListed, InsertBatch
    <3>2. QED
      BY <1>1, <3>1, PointFacts DEF GoTo
  <2>2. CASE PreviewFails(j) \/ PreviewAttached(j) \/ ConfirmRefused(j) \/ ImportConfirmed(j)
    BY <1>1, <2>2, PointFacts
       DEF PreviewFails, PreviewAttached, ConfirmRefused, ImportConfirmed
  <2>3. CASE RemapPreview(j) \/ Abandon(j)
    BY <1>1, <2>3, PointFacts DEF RemapPreview, Abandon, Ready
  <2>4. CASE DigestStored(j)
    BY <1>1, <2>4 DEF DigestStored
  <2>5. CASE ReplaceStored(j)
    <3>1. CASE At("checked", j)
      <4>1. loop' = Checked(j, TRUE) /\ imports' = imports
        BY <2>5, <3>1 DEF ReplaceStored
      <4>2. loop'.at = "checked" /\ loop'.job = loop.job /\ loop'.swapped
        BY <3>1, <4>1, CheckedFacts DEF At
      <4>3. QED
        BY <3>1, <4>1, <4>2 DEF InsertInv, At
    <3>2. CASE ~At("checked", j)
      <4>1. UNCHANGED <<data, imports, loop>>
        BY <2>5, <3>2 DEF ReplaceStored
      <4>2. loop.at = "checked" => stored'[loop.job] = stored[loop.job]
        BY <2>5, <3>2 DEF ReplaceStored, At, InsertInv, ImportsInv, ImportsTyped
      <4>3. QED
        BY <1>2, <4>1, <4>2
    <3>3. QED
      BY <3>1, <3>2
  <2>6. CASE CheckStored(j)
    <3>1. /\ loop' = Checked(j, FALSE)
          /\ stored[j] = imports[j].sheet /\ UNCHANGED jobs /\ imports[j] \in JobRows
      BY <2>6 DEF CheckStored, AsPreviewed, InPreview, ImportsInv, ImportsTyped
    <3>2. loop'.at = "checked" /\ loop'.job = j
      BY <3>1, CheckedFacts
    <3>3. QED
      BY <3>1, <3>2 DEF jobs, InsertInv
  <2>7. CASE ReadStored(j)
    <3>1. /\ loop' = [at |-> "backed up", job |-> j, swapped |-> loop.swapped,
                      type |-> stored[j].type,
                      rows |-> Read(stored[j], imports[j].columns)]
          /\ Accepted(stored[j].type, Read(stored[j], imports[j].columns))
          /\ UNCHANGED <<data, jobs>> /\ loop.at = "checked" /\ loop.job = j
      BY <2>7 DEF ReadStored, Importable, RowsRead, At
    <3>2. /\ loop'.at = "backed up" /\ loop'.job = j /\ loop'.swapped = loop.swapped
          /\ loop'.type = stored[j].type
          /\ loop'.rows = Read(stored[j], imports[j].columns)
      BY <3>1
    <3>3. imports[j] \in JobRows /\ (loop.swapped \/ stored[j] = imports[j].sheet)
      BY <3>1 DEF InsertInv
    <3>4. stored[j] \in Sheets /\ imports[j].columns \in SUBSET {"term_name"}
      BY <3>3, JobFacts DEF ImportsInv, ImportsTyped, JobInv
    <3>5. Accepted(loop.type, loop.rows)'
      BY <3>1, <3>2, AcceptedKept
    <3>6. imports' = imports /\ \A sheet, columns : Read(sheet, columns)' = Read(sheet, columns)
      BY <3>1 DEF jobs, Read
    <3>7. QED
      BY <3>2, <3>3, <3>4, <3>5, <3>6 DEF InsertInv
  <2>8. QED
    BY <1>3, <2>1, <2>2, <2>3, <2>4, <2>5, <2>6, <2>7 DEF ImportStep
<1>4. ASSUME NEW e, ExportStep(e) PROVE InsertInv'
  <2>1. loop'.at \in {"exporting", "produced", "succeeded", "idle"}
    BY <1>4, PointFacts DEF ExportStep, ExportStarts, ExportProduces, ExportSucceeds,
       ExportRegistered, ExportFails, FailureUnrecorded, GoTo
  <2>2. QED
    BY <1>1, <2>1
<1>5. ASSUME NEW e, TemplateStep(e) PROVE InsertInv'
  <2>1. loop'.at \in {"filled", "recorded", "idle"}
    BY <1>5, PointFacts
       DEF TemplateStep, TemplateFilled, TemplateRecorded, TemplateRegistered, GoTo
  <2>2. QED
    BY <1>1, <2>1
<1>6. CASE Edit \/ HandlerRaises \/ KilledAndReopened
  BY <1>1, <1>6, PointFacts DEF Edit, HandlerRaises, KilledAndReopened, Ready
<1>7. CASE UNCHANGED vars
  BY <1>2, <1>7 DEF vars, jobs
<1>8. QED
  BY <1>3, <1>4, <1>5, <1>6, <1>7 DEF Next

LEMMA ReadRows ==
  ASSUME NEW sheet \in Sheets, NEW columns
  PROVE  DOMAIN Read(sheet, columns) = 1 .. Len(sheet.rows)
BY DEF Read

LEMMA KeyFacts ==
  /\ \A row : Key("teacher", row) = <<row.name>>
  /\ \A row : Key("course_plan", row) = <<TermOf(row), row.homeroom>>
  /\ \A row : Key("teaching_task", row) = <<TermOf(row), row.homeroom, TeacherOf(row)>>
  /\ KeysInTables("teacher") = {<<t.name>> : t \in teachers}
  /\ KeysInTables("course_plan") = {<<p.term, p.homeroom>> : p \in plans}
  /\ KeysInTables("teaching_task") = {<<t.term, t.homeroom, t.teacher>> : t \in tasks}
BY DEF Key, KeysInTables

\* Acceptance: no key is in the tables or twice in the sheet.
LEMMA AcceptedKeys ==
  ASSUME NEW type, NEW rows, Accepted(type, rows), NEW n \in Nat, DOMAIN rows = 1 .. n
  PROVE  /\ \A i \in DOMAIN rows : Key(type, rows[i]) \notin KeysInTables(type)
         /\ \A i, k \in DOMAIN rows : Key(type, rows[i]) = Key(type, rows[k]) => i = k
<1>1. \A i \in DOMAIN rows : Key(type, rows[i]) \notin KeysInTables(type)
  BY DEF Accepted, TakenBefore
<1>2. \A i, k \in DOMAIN rows : i < k => Key(type, rows[i]) # Key(type, rows[k])
  BY DEF Accepted, TakenBefore
<1>3. QED
  BY <1>1, <1>2

\* The transaction is a step of InsertBatch.
LEMMA InsertingIs == [Next]_vars /\ Inserting => \E j \in ImportIds : InsertBatch(j)
<1> SUFFICES ASSUME [Next]_vars, Inserting PROVE \E j \in ImportIds : InsertBatch(j)
  OBVIOUS
<1> USE DEF Inserting
<1>1. ASSUME NEW j \in ImportIds, ImportStep(j) PROVE InsertBatch(j)
  BY <1>1, PointFacts
     DEF ImportStep, StoreFile, DigestStored, PreviewFails, PreviewListed, PreviewAttached,
         RemapPreview, Abandon, ReplaceStored, CheckStored, ReadStored, ConfirmRefused,
         ImportConfirmed, Checked, At, Ready
<1>2. ASSUME NEW e, ExportStep(e) PROVE FALSE
  BY <1>2, PointFacts DEF ExportStep, ExportStarts, ExportProduces, ExportSucceeds,
     ExportRegistered, ExportFails, FailureUnrecorded, At, Ready, ExportPoints
<1>3. ASSUME NEW e, TemplateStep(e) PROVE FALSE
  BY <1>3, PointFacts DEF TemplateStep, TemplateFilled, TemplateRecorded, TemplateRegistered,
     At, Ready
<1>4. ~(Edit \/ HandlerRaises \/ KilledAndReopened \/ UNCHANGED vars)
  BY PointFacts DEF Edit, HandlerRaises, KilledAndReopened, vars, Ready
<1>5. QED
  BY <1>1, <1>2, <1>3, <1>4 DEF Next

\* For any sheets, data and edits, and any number of kills: an import never adds a
\* second record of a key.
THEOREM ImportAddsNoDuplicateAlways == Spec => ImportAddsNoDuplicate
<1> DEFINE NoDuplicate ==
       /\ \A n \in teachers' \ teachers, o \in teachers' : n.name = o.name => n = o
       /\ \A n \in plans' \ plans, o \in plans' :
            n.homeroom = o.homeroom /\ n.term = o.term => n = o
       /\ \A n \in tasks' \ tasks, o \in tasks' :
            n.homeroom = o.homeroom /\ n.term = o.term /\ n.teacher = o.teacher => n = o
<1>1. InsertInv /\ [Next]_vars => (Inserting => NoDuplicate)
  <2> SUFFICES ASSUME InsertInv, [Next]_vars, Inserting PROVE NoDuplicate
    OBVIOUS
  <2>1. PICK j \in ImportIds : InsertBatch(j)
    BY InsertingIs
  <2> DEFINE rows == loop.rows
  <2>2. Accepted(loop.type, rows) /\ \E sheet \in Sheets : \E columns : rows = Read(sheet, columns)
    BY JobFacts DEF InsertInv, Inserting
  <2>3. \E n \in Nat : DOMAIN rows = 1 .. n
    <3>1. PICK sheet \in Sheets : \E columns : rows = Read(sheet, columns)
      BY <2>2
    <3>2. DOMAIN rows = 1 .. Len(sheet.rows) /\ Len(sheet.rows) \in Nat
      BY <3>1, ReadRows
    <3>3. QED
      BY <3>2
  <2>4. /\ \A i \in DOMAIN rows : Key(loop.type, rows[i]) \notin KeysInTables(loop.type)
        /\ \A i, k \in DOMAIN rows : Key(loop.type, rows[i]) = Key(loop.type, rows[k]) => i = k
    BY <2>2, <2>3, AcceptedKeys
  <2> HIDE DEF rows
  <2>5. CASE InsertTeachers
    <3>1. /\ loop.type = "teacher"
          /\ teachers' = teachers \cup {[id |-> Id(i), name |-> rows[i].name] : i \in DOMAIN rows}
      BY <2>5 DEF InsertTeachers, rows
    <3>2. ASSUME NEW n \in teachers' \ teachers, NEW o \in teachers', n.name = o.name
          PROVE  n = o
      <4>1. PICK i \in DOMAIN rows : n = [id |-> Id(i), name |-> rows[i].name]
        BY <3>1, <3>2
      <4>2. <<n.name>> = Key(loop.type, rows[i])
        BY <3>1, <4>1, KeyFacts
      <4>3. o \notin teachers
        <5>1. <<o.name>> = <<n.name>>
          BY <3>2
        <5>2. o \in teachers => <<o.name>> \in KeysInTables(loop.type)
          BY <3>1, KeyFacts
        <5>3. <<n.name>> \notin KeysInTables(loop.type)
          BY <2>4, <4>2
        <5>4. QED
          BY <5>1, <5>2, <5>3
      <4>4. PICK k \in DOMAIN rows : o = [id |-> Id(k), name |-> rows[k].name]
        BY <3>1, <3>2, <4>3
      <4>5. <<o.name>> = Key(loop.type, rows[k])
        BY <3>1, <4>4, KeyFacts
      <4>6. QED
        BY <2>4, <3>2, <4>1, <4>2, <4>4, <4>5
    <3>3. QED
      BY <2>5, <3>2 DEF InsertTeachers
  <2>6. CASE InsertPlans
    <3>1. /\ loop.type = "course_plan"
          /\ plans' = plans \cup
               {[id |-> Id(i), homeroom |-> rows[i].homeroom, term |-> TermOf(rows[i])] :
                  i \in DOMAIN rows}
      BY <2>6 DEF InsertPlans, rows
    <3>2. ASSUME NEW n \in plans' \ plans, NEW o \in plans',
                 n.homeroom = o.homeroom, n.term = o.term
          PROVE  n = o
      <4>1. PICK i \in DOMAIN rows : n =
              [id |-> Id(i), homeroom |-> rows[i].homeroom, term |-> TermOf(rows[i])]
        BY <3>1, <3>2
      <4>2. <<n.term, n.homeroom>> = Key(loop.type, rows[i])
        BY <3>1, <4>1, KeyFacts
      <4>3. o \notin plans
        <5>1. <<o.term, o.homeroom>> = <<n.term, n.homeroom>>
          BY <3>2
        <5>2. o \in plans => <<o.term, o.homeroom>> \in KeysInTables(loop.type)
          BY <3>1, KeyFacts
        <5>3. <<n.term, n.homeroom>> \notin KeysInTables(loop.type)
          BY <2>4, <4>2
        <5>4. QED
          BY <5>1, <5>2, <5>3
      <4>4. PICK k \in DOMAIN rows : o =
              [id |-> Id(k), homeroom |-> rows[k].homeroom, term |-> TermOf(rows[k])]
        BY <3>1, <3>2, <4>3
      <4>5. <<o.term, o.homeroom>> = Key(loop.type, rows[k])
        BY <3>1, <4>4, KeyFacts
      <4>6. QED
        BY <2>4, <3>2, <4>1, <4>2, <4>4, <4>5
    <3>3. QED
      BY <2>6, <3>2 DEF InsertPlans
  <2>7. CASE InsertTasks
    <3>1. loop.type = "teaching_task" /\ tasks' = tasks \cup {TaskFrom(i) : i \in DOMAIN rows}
      BY <2>7 DEF InsertTasks, rows
    <3>2. ASSUME NEW n \in tasks' \ tasks, NEW o \in tasks',
                 n.homeroom = o.homeroom, n.term = o.term, n.teacher = o.teacher
          PROVE  n = o
      <4>1. PICK i \in DOMAIN rows : n = TaskFrom(i)
        BY <3>1, <3>2
      <4>2. <<n.term, n.homeroom, n.teacher>> = Key(loop.type, rows[i])
        BY <3>1, <4>1, KeyFacts DEF TaskFrom, rows
      <4>3. o \notin tasks
        <5>1. <<o.term, o.homeroom, o.teacher>> = <<n.term, n.homeroom, n.teacher>>
          BY <3>2
        <5>2. o \in tasks => <<o.term, o.homeroom, o.teacher>> \in KeysInTables(loop.type)
          BY <3>1, KeyFacts
        <5>3. <<n.term, n.homeroom, n.teacher>> \notin KeysInTables(loop.type)
          BY <2>4, <4>2
        <5>4. QED
          BY <5>1, <5>2, <5>3
      <4>4. PICK k \in DOMAIN rows : o = TaskFrom(k)
        BY <3>1, <3>2, <4>3
      <4>5. <<o.term, o.homeroom, o.teacher>> = Key(loop.type, rows[k])
        BY <3>1, <4>4, KeyFacts DEF TaskFrom, rows
      <4>6. QED
        BY <2>4, <3>2, <4>1, <4>2, <4>4, <4>5
    <3>3. QED
      BY <2>7, <3>2 DEF InsertTasks
  <2>8. QED
    BY <2>1, <2>5, <2>6, <2>7 DEF InsertBatch
<1>2. Init => ImportsInv /\ InsertInv
  <2>1. Init => InsertInv
    BY PointFacts DEF Init, InsertInv
  <2>2. Init => ImportsInv
    BY PointFacts, ZenonT(60) DEF Init, ImportsInv, ImportsTyped, JobInv, At
  <2>3. QED
    BY <2>1, <2>2
<1>3. ImportsInv /\ InsertInv /\ [Next]_vars => (ImportsInv /\ InsertInv)'
  BY ImportsKept, InsertKept
<1>4. InsertInv /\ [Next]_vars => [Inserting => NoDuplicate]_vars
  BY <1>1
<1>5. QED
  BY <1>2, <1>3, <1>4, PTL DEF Spec, ImportAddsNoDuplicate

-----------------------------------------------------------------------------
(* Ids are new, so that what an import adds can be told from what was there. *)

OldId(x, r) == "id" \in DOMAIN x /\ x.id[1] \in 0 .. r

IdsInv ==
  /\ revision \in Nat
  /\ IsFiniteSet(teachers)
  /\ \A t \in teachers : OldId(t, revision)
  /\ \A p \in plans : OldId(p, revision)
  /\ \A k \in tasks : OldId(k, revision)
  /\ \A t, u \in teachers : t.id = u.id => t = u

LEMMA IdFacts ==
  ASSUME revision \in Nat
  PROVE  /\ \A x : OldId(x, revision) => OldId(x, revision + 1)
         /\ \A x, i : OldId(x, revision) => x.id # Id(i)
         /\ \A x, i : "id" \in DOMAIN x /\ x.id = Id(i) => OldId(x, revision + 1)
         /\ \A i, k : Id(i) = Id(k) => i = k
         /\ \A i : Id(i)[2] = i
BY DEF OldId, Id

LEMMA EditedRecord ==
  ASSUME NEW x, "id" \in DOMAIN x, NEW v, NEW w
  PROVE  /\ "id" \in DOMAIN [x EXCEPT !.name = v] /\ [x EXCEPT !.name = v].id = x.id
         /\ "id" \in DOMAIN [x EXCEPT !.teacher = v] /\ [x EXCEPT !.teacher = v].id = x.id
         /\ "id" \in DOMAIN [x EXCEPT !.plan = v] /\ [x EXCEPT !.plan = v].id = x.id
         /\ "id" \in DOMAIN [x EXCEPT !.weekly = v, !.duration = w]
         /\ [x EXCEPT !.weekly = v, !.duration = w].id = x.id
OBVIOUS

LEMMA IdsKept == InsertInv /\ IdsInv /\ [Next]_vars => IdsInv'
<1> SUFFICES ASSUME InsertInv, IdsInv, [Next]_vars PROVE IdsInv'
  OBVIOUS
<1>1. ASSUME UNCHANGED data PROVE IdsInv'
  BY <1>1 DEF data, IdsInv
<1>2. /\ revision \in Nat
      /\ \A x : OldId(x, revision) => OldId(x, revision + 1)
      /\ \A x, i : OldId(x, revision) => x.id # Id(i)
      /\ \A x, i : "id" \in DOMAIN x /\ x.id = Id(i) => OldId(x, revision + 1)
      /\ \A i, k : Id(i) = Id(k) => i = k
  BY IdFacts DEF IdsInv
\* What is left to show of a step that commits.
<1>3. ASSUME Commit, IsFiniteSet(teachers'),
             \A t \in teachers' : OldId(t, revision + 1),
             \A t, u \in teachers' : t.id = u.id => t = u,
             \A p \in plans' : OldId(p, revision + 1),
             \A k \in tasks' : OldId(k, revision + 1)
      PROVE  IdsInv'
  BY <1>2, <1>3 DEF IdsInv, Commit
<1>4. /\ \A t \in teachers : OldId(t, revision + 1)
      /\ \A p \in plans : OldId(p, revision + 1)
      /\ \A k \in tasks : OldId(k, revision + 1)
  BY <1>2 DEF IdsInv
<1>5. ASSUME NEW j \in ImportIds, InsertBatch(j) PROVE IdsInv'
  <2> DEFINE rows == loop.rows
  <2>1. IsFiniteSet(DOMAIN rows)
    <3>1. PICK sheet \in Sheets : \E columns : rows = Read(sheet, columns)
      BY <1>5, JobFacts DEF InsertBatch, InsertInv, At
    <3>2. DOMAIN rows = 1 .. Len(sheet.rows) /\ Len(sheet.rows) \in Nat
      BY <3>1, ReadRows
    <3>3. QED
      BY <3>2, FS_Interval
  <2> HIDE DEF rows
  <2>2. CASE InsertTeachers
    <3> DEFINE new == {[id |-> Id(i), name |-> rows[i].name] : i \in DOMAIN rows}
    <3>1. teachers' = teachers \cup new /\ UNCHANGED <<plans, tasks>>
      BY <2>2 DEF InsertTeachers, rows
    <3>2. IsFiniteSet(new)
      <4> DEFINE f == [i \in DOMAIN rows |-> [id |-> Id(i), name |-> rows[i].name]]
      <4>1. f \in Surjection(DOMAIN rows, new)
        BY DEF Surjection
      <4>2. QED
        BY <2>1, <4>1, FS_Surjection
    <3>3. IsFiniteSet(teachers')
      BY <3>1, <3>2, FS_Union DEF IdsInv
    <3>4. \A t \in new : \E i \in DOMAIN rows :
            /\ t = [id |-> Id(i), name |-> rows[i].name]
            /\ t.id = Id(i) /\ "id" \in DOMAIN t
      OBVIOUS
    <3>5. \A t \in teachers' : OldId(t, revision + 1)
      BY <1>2, <1>4, <3>1, <3>4
    <3>6. \A t, u \in teachers' : t.id = u.id => t = u
      BY <1>2, <3>1, <3>4 DEF IdsInv
    <3>7. QED
      BY <1>3, <1>4, <1>5, <3>1, <3>3, <3>5, <3>6 DEF InsertBatch
  <2>3. CASE InsertPlans
    <3>1. \A p \in plans' \ plans : \E i \in DOMAIN rows : "id" \in DOMAIN p /\ p.id = Id(i)
      BY <2>3 DEF InsertPlans, rows
    <3>2. \A p \in plans' : OldId(p, revision + 1)
      BY <1>2, <1>4, <3>1
    <3>3. UNCHANGED <<teachers, tasks>>
      BY <2>3 DEF InsertPlans
    <3>4. QED
      BY <1>3, <1>4, <1>5, <3>2, <3>3 DEF InsertBatch, IdsInv
  <2>4. CASE InsertTasks
    <3>1. \A k \in tasks' \ tasks : \E i \in DOMAIN rows : "id" \in DOMAIN k /\ k.id = Id(i)
      BY <2>4 DEF InsertTasks, TaskFrom, rows
    <3>2. \A k \in tasks' : OldId(k, revision + 1)
      BY <1>2, <1>4, <3>1
    <3>3. UNCHANGED <<teachers, plans>>
      BY <2>4 DEF InsertTasks
    <3>4. QED
      BY <1>3, <1>4, <1>5, <3>2, <3>3 DEF InsertBatch, IdsInv
  <2>5. QED
    BY <1>5, <2>2, <2>3, <2>4 DEF InsertBatch
<1>6. CASE Edit
  <2>0. Commit
    BY <1>6 DEF Edit
  <2>1. CASE SaveTeacher
    <3>1. UNCHANGED <<plans, tasks>>
      BY <2>1 DEF SaveTeacher
    <3>2. ASSUME NEW n, teachers' = teachers \cup {[id |-> Id(1), name |-> n]}
          PROVE  IdsInv'
      <4>1. [id |-> Id(1), name |-> n].id = Id(1) /\ "id" \in DOMAIN [id |-> Id(1), name |-> n]
        OBVIOUS
      <4>2. IsFiniteSet(teachers')
        BY <3>2, FS_AddElement DEF IdsInv
      <4>3. \A t \in teachers' : OldId(t, revision + 1)
        BY <1>2, <1>4, <3>2, <4>1
      <4>4. \A t, u \in teachers' : t.id = u.id => t = u
        BY <1>2, <3>2, <4>1 DEF IdsInv
      <4>5. QED
        BY <1>3, <1>4, <2>0, <3>1, <4>2, <4>3, <4>4
    <3>3. ASSUME NEW n, NEW t \in teachers,
                 teachers' = (teachers \ {t}) \cup {[t EXCEPT !.name = n]}
          PROVE  IdsInv'
      <4>1. [t EXCEPT !.name = n].id = t.id /\ "id" \in DOMAIN [t EXCEPT !.name = n]
        BY EditedRecord DEF IdsInv, OldId
      <4>2. IsFiniteSet(teachers')
        BY <3>3, FS_AddElement, FS_RemoveElement DEF IdsInv
      <4>3. \A u \in teachers' : OldId(u, revision + 1)
        BY <1>4, <3>3, <4>1 DEF OldId
      <4>4. \A u, v \in teachers' : u.id = v.id => u = v
        BY <3>3, <4>1 DEF IdsInv
      <4>5. QED
        BY <1>3, <1>4, <2>0, <3>1, <4>2, <4>3, <4>4
    <3>4. QED
      BY <2>1, <3>2, <3>3 DEF SaveTeacher
  <2>2. CASE SaveHomeroom
    BY <1>3, <1>4, <2>0, <2>2 DEF SaveHomeroom, IdsInv
  <2>3. CASE SavePlan
    <3>1. \A p \in plans' \ plans : "id" \in DOMAIN p /\ p.id = Id(1)
      BY <2>3 DEF SavePlan
    <3>2. \A p \in plans' : OldId(p, revision + 1)
      BY <1>2, <1>4, <3>1
    <3>3. QED
      BY <1>3, <1>4, <2>0, <2>3, <3>2 DEF SavePlan, IdsInv
  <2>4. CASE SaveTask
    <3>1. \A k \in tasks' \ tasks :
            "id" \in DOMAIN k /\ (k.id = Id(1) \/ \E t \in tasks : k.id = t.id)
      <4> DEFINE Saved(row) ==
            {[id |-> Id(1), homeroom |-> row.homeroom, term |-> row.term, teacher |-> t.id,
              plan |-> None, weekly |-> row.weekly, duration |-> row.duration] : t \in teachers}
              \cup {[t EXCEPT !.weekly = row.weekly, !.duration = row.duration] : t \in tasks}
      <4>0. PICK s \in Sheets :
              \E i \in DOMAIN s.rows : \E task \in Saved(s.rows[i]) :
                tasks' = {t \in tasks : t.id # task.id} \cup {task}
        BY <2>4 DEF SaveTask
      <4>10. PICK i \in DOMAIN s.rows :
               \E task \in Saved(s.rows[i]) :
                 tasks' = {t \in tasks : t.id # task.id} \cup {task}
        BY <4>0
      <4>1. PICK task \in Saved(s.rows[i]) :
              tasks' = {t \in tasks : t.id # task.id} \cup {task}
        BY <4>10
      <4>2. "id" \in DOMAIN task /\ (task.id = Id(1) \/ \E t \in tasks : task.id = t.id)
        <5>0. task \in Saved(s.rows[i])
          OBVIOUS
        <5> HIDE DEF Saved
        <5>1. ASSUME NEW t \in teachers, NEW row,
                     task = [id |-> Id(1), homeroom |-> row.homeroom, term |-> row.term,
                             teacher |-> t.id, plan |-> None,
                             weekly |-> row.weekly, duration |-> row.duration]
              PROVE  "id" \in DOMAIN task /\ task.id = Id(1)
          BY <5>1
        <5>2. ASSUME NEW t \in tasks,
                     task = [t EXCEPT !.weekly = s.rows[i].weekly,
                                      !.duration = s.rows[i].duration]
              PROVE  "id" \in DOMAIN task /\ task.id = t.id
          <6>1. "id" \in DOMAIN t
            BY DEF IdsInv, OldId
          <6>2. QED
            BY <5>2, <6>1, EditedRecord
        <5>3. QED
          BY <5>0, <5>1, <5>2 DEF Saved
      <4>3. QED
        BY <4>1, <4>2
    <3>2. \A k \in tasks' : OldId(k, revision + 1)
      BY <1>2, <1>4, <3>1 DEF OldId
    <3>3. QED
      BY <1>3, <1>4, <2>0, <2>4, <3>2 DEF SaveTask, IdsInv
  <2>5. CASE DeleteTeacher
    <3>1. PICK t \in teachers :
            /\ teachers' = teachers \ {t}
            /\ tasks' = {[k EXCEPT !.teacher = IF @ = t.id THEN None ELSE @] : k \in tasks}
      BY <2>5 DEF DeleteTeacher
    <3>2. \A k \in tasks' : "id" \in DOMAIN k /\ \E o \in tasks : k.id = o.id
      BY <3>1, EditedRecord DEF IdsInv, OldId
    <3>3. \A k \in tasks' : OldId(k, revision + 1)
      BY <1>4, <3>2 DEF OldId
    <3>4. IsFiniteSet(teachers')
      BY <3>1, FS_RemoveElement DEF IdsInv
    <3>5. QED
      BY <1>3, <1>4, <2>0, <2>5, <3>1, <3>3, <3>4 DEF DeleteTeacher, IdsInv
  <2>6. CASE DeletePlan
    <3>1. PICK p \in plans :
            /\ plans' = plans \ {p}
            /\ tasks' = {[k EXCEPT !.plan = IF @ = p.id THEN None ELSE @] : k \in tasks}
      BY <2>6 DEF DeletePlan
    <3>2. \A k \in tasks' : "id" \in DOMAIN k /\ \E o \in tasks : k.id = o.id
      BY <3>1, EditedRecord DEF IdsInv, OldId
    <3>3. \A k \in tasks' : OldId(k, revision + 1)
      BY <1>4, <3>2 DEF OldId
    <3>4. QED
      BY <1>3, <1>4, <2>0, <2>6, <3>1, <3>3 DEF DeletePlan, IdsInv
  <2>7. CASE DeleteTask
    BY <1>3, <1>4, <2>0, <2>7 DEF DeleteTask, IdsInv
  <2>8. QED
    BY <1>6, <2>1, <2>2, <2>3, <2>4, <2>5, <2>6, <2>7 DEF Edit
<1>7. ASSUME NEW j \in ImportIds, ImportStep(j), ~InsertBatch(j) PROVE UNCHANGED data
  BY <1>7 DEF ImportStep, StoreFile, DigestStored, PreviewFails, PreviewListed, PreviewAttached,
     RemapPreview, Abandon, ReplaceStored, CheckStored, ReadStored, ConfirmRefused,
     ImportConfirmed
<1>8. ASSUME NEW e, ExportStep(e) \/ TemplateStep(e) PROVE UNCHANGED data
  BY <1>8 DEF ExportStep, ExportStarts, ExportProduces, ExportSucceeds, ExportRegistered,
     ExportFails, FailureUnrecorded, TemplateStep, TemplateFilled, TemplateRecorded, TemplateRegistered
<1>9. CASE HandlerRaises \/ KilledAndReopened \/ UNCHANGED vars
  BY <1>1, <1>9 DEF HandlerRaises, KilledAndReopened, vars
<1>10. QED
  BY <1>1, <1>5, <1>6, <1>7, <1>8, <1>9 DEF Next

LEMMA OneTeacher ==
  ASSUME IdsInv, NEW row, Cardinality(Called(row.teacher)) = 1
  PROVE  {u \in teachers : u.name = row.teacher} = {u \in teachers : u.id = TeacherOf(row)}
<1>1. IsFiniteSet(Called(row.teacher))
  <2>1. Called(row.teacher) \subseteq teachers
    BY DEF Called
  <2>2. QED
    BY <2>1, FS_Subset DEF IdsInv
<1>2. PICK u : Called(row.teacher) = {u}
  BY <1>1, FS_Singleton
<1>3. TeacherOf(row) = u.id
  BY <1>2 DEF TeacherOf
<1>4. u \in teachers
  BY <1>2 DEF Called
<1>5. {v \in teachers : v.id = u.id} = {u}
  BY <1>4 DEF IdsInv
<1>6. QED
  BY <1>2, <1>3, <1>5 DEF Called

LEMMA InitFacts == Init => ImportsInv /\ InsertInv /\ IdsInv
<1> SUFFICES ASSUME Init PROVE ImportsInv /\ InsertInv /\ IdsInv
  OBVIOUS
<1>1. InsertInv /\ ImportsInv
  BY PointFacts DEF Init, InsertInv, ImportsInv, ImportsTyped, JobInv, At
<1> DEFINE new == {[id |-> <<0, n>>, name |-> n] : n \in Staff}
           f == [n \in Staff |-> [id |-> <<0, n>>, name |-> n]]
<1>2. f \in Surjection(Staff, new)
  BY DEF Surjection
<1>3. IsFiniteSet(new)
  BY <1>2, FS_Surjection, StaffAssumption
<1>4. \A t \in new : OldId(t, 0)
  BY DEF OldId
<1>5. \A t, u \in new : t.id = u.id => t = u
  OBVIOUS
<1>6. IdsInv
  BY <1>3, <1>4, <1>5 DEF Init, IdsInv
<1>7. QED
  BY <1>1, <1>6

\* For any sheets, data and edits, any number of kills, and copies that are written
\* over at any moment: an import adds the rows of the sheet that was shown and no
\* others, if that was the digested sheet and nobody wrote the copy between the
\* digest of the confirmation and its read.
THEOREM ImportsWhatWasShownAlways == Spec => ImportsWhatWasShown
<1> DEFINE Job == imports[loop.job]
           Premise == Inserting /\ Job.shown = Job.sheet /\ ~loop.swapped
<1>1. InsertInv /\ IdsInv /\ [Next]_vars => (Premise => Adds(Job.shown, Job.columns))
  <2> SUFFICES ASSUME InsertInv, IdsInv, [Next]_vars, Premise
               PROVE  Adds(Job.shown, Job.columns)
    OBVIOUS
  <2>1. PICK j \in ImportIds : InsertBatch(j)
    BY InsertingIs
  <2> DEFINE rows == loop.rows
  <2>2. /\ rows = Read(Job.shown, Job.columns)
        /\ loop.type = Job.shown.type
        /\ Accepted(loop.type, rows)
    BY DEF InsertInv, Inserting
  <2>3. /\ \A x, i : OldId(x, revision) => x.id # Id(i)
        /\ \A i : Id(i)[2] = i
    BY IdFacts DEF IdsInv
  <2> HIDE DEF Job
  <2> HIDE DEF rows
  <2>4. CASE InsertTeachers
    <3> DEFINE new == {[id |-> Id(i), name |-> rows[i].name] : i \in DOMAIN rows}
    <3>1. teachers' \ teachers = new
      BY <2>3, <2>4 DEF InsertTeachers, IdsInv, rows
    <3>2. {<<t.name, t.id[2]>> : t \in new} = {<<rows[i].name, i>> : i \in DOMAIN rows}
      <4> DEFINE Row(i) == [id |-> Id(i), name |-> rows[i].name]
      <4>1. \A i : Row(i).name = rows[i].name /\ Row(i).id[2] = i
        BY <2>3
      <4>2. new = {Row(i) : i \in DOMAIN rows}
        OBVIOUS
      <4> HIDE DEF new, Row
      <4>3. QED
        BY <4>1, <4>2
    <3>3. QED
      BY <2>2, <2>4, <3>1, <3>2, ZenonT(60) DEF InsertTeachers, Adds
  <2>5. CASE InsertPlans
    <3> DEFINE new == {[id |-> Id(i), homeroom |-> rows[i].homeroom, term |-> TermOf(rows[i])] :
                         i \in DOMAIN rows}
    <3>1. plans' \ plans = new
      BY <2>3, <2>5 DEF InsertPlans, IdsInv, rows
    <3>2. {<<p.homeroom, p.term, p.id[2]>> : p \in new}
            = {<<rows[i].homeroom, TermOf(rows[i]), i>> : i \in DOMAIN rows}
      <4> DEFINE Row(i) ==
            [id |-> Id(i), homeroom |-> rows[i].homeroom, term |-> TermOf(rows[i])]
      <4>1. \A i : /\ Row(i).homeroom = rows[i].homeroom /\ Row(i).term = TermOf(rows[i])
                   /\ Row(i).id[2] = i
        BY <2>3
      <4>2. new = {Row(i) : i \in DOMAIN rows}
        OBVIOUS
      <4> HIDE DEF new, Row
      <4>3. QED
        BY <4>1, <4>2
    <3>3. QED
      BY <2>2, <2>5, <3>1, <3>2, ZenonT(60) DEF InsertPlans, Adds
  <2>6. CASE InsertTasks
    <3> DEFINE new == {TaskFrom(i) : i \in DOMAIN rows}
    <3>1. /\ \A i : TaskFrom(i).id = Id(i) /\ TaskFrom(i).homeroom = rows[i].homeroom
          /\ \A i : TaskFrom(i).term = TermOf(rows[i]) /\ TaskFrom(i).weekly = rows[i].weekly
          /\ \A i : TaskFrom(i).teacher = TeacherOf(rows[i])
      BY DEF TaskFrom, rows
    <3>2. tasks' \ tasks = new
      BY <2>3, <2>6, <3>1 DEF InsertTasks, IdsInv, rows
    <3>3. {<<t.homeroom, t.term, t.weekly, t.id[2]>> : t \in new}
            = {<<rows[i].homeroom, TermOf(rows[i]), rows[i].weekly, i>> : i \in DOMAIN rows}
      BY <2>3, <3>1
    <3>4. ASSUME NEW t \in new
          PROVE  {u \in teachers : u.name = rows[t.id[2]].teacher}
                   = {u \in teachers : u.id = t.teacher}
      <4>1. PICK i \in DOMAIN rows : t = TaskFrom(i)
        OBVIOUS
      <4>2. t.id[2] = i /\ t.teacher = TeacherOf(rows[i])
        BY <2>3, <3>1, <4>1
      <4>3. Cardinality(Called(rows[i].teacher)) = 1
        BY <2>2, <2>6 DEF InsertTasks, Accepted, Resolvable
      <4>4. QED
        BY <4>2, <4>3, OneTeacher
    <3>5. /\ teachers' \ teachers = {} /\ plans' \ plans = {}
          /\ Job.shown.type = "teaching_task"
      BY <2>2, <2>6 DEF InsertTasks
    <3>6. \A type \in {"teacher", "course_plan"} : type # "teaching_task"
      OBVIOUS
    <3> HIDE DEF new
    <3>7. QED
      BY <2>2, <3>2, <3>3, <3>4, <3>5, <3>6, ZenonT(60) DEF Adds
  <2>7. QED
    BY <2>1, <2>4, <2>5, <2>6 DEF InsertBatch
<1>2. Init => ImportsInv /\ InsertInv /\ IdsInv
  BY InitFacts
<1>3. ImportsInv /\ InsertInv /\ IdsInv /\ [Next]_vars => (ImportsInv /\ InsertInv /\ IdsInv)'
  BY ImportsKept, InsertKept, IdsKept
<1>4. InsertInv /\ IdsInv /\ [Next]_vars => [Premise => Adds(Job.shown, Job.columns)]_vars
  BY <1>1
<1>5. QED
  BY <1>2, <1>3, <1>4, PTL DEF Spec, ImportsWhatWasShown


-----------------------------------------------------------------------------
(* The lessons of the tasks of the project.                                *)

LEMMA TaskRows ==
  ASSUME NEW sheet \in Sheets, sheet.type = "teaching_task"
  PROVE  /\ \A i \in DOMAIN sheet.rows :
              sheet.rows[i].weekly \in Nat /\ sheet.rows[i].duration \in Nat \ {0}
         /\ \A columns : \A i \in DOMAIN Read(sheet, columns) :
              /\ Read(sheet, columns)[i].weekly \in Nat
              /\ Read(sheet, columns)[i].duration \in Nat \ {0}
<1> DEFINE Rows == RowsOfType("teaching_task")
<1>1. \A row \in Rows : /\ row.weekly \in Nat /\ row.duration \in Nat \ {0}
                       /\ [row EXCEPT !.term = None].weekly = row.weekly
                       /\ [row EXCEPT !.term = None].duration = row.duration
  BY DEF RowsOfType
<1>2. sheet.rows \in Seq(Rows)
  OBVIOUS
<1> HIDE DEF Rows
<1>3. \A i \in DOMAIN sheet.rows : sheet.rows[i] \in Rows
  BY <1>2
<1>4. \A columns : \A i \in DOMAIN Read(sheet, columns) :
        /\ i \in DOMAIN sheet.rows
        /\ Read(sheet, columns)[i] \in {sheet.rows[i], [sheet.rows[i] EXCEPT !.term = None]}
  BY DEF Read
<1>5. \A i \in DOMAIN sheet.rows :
        sheet.rows[i].weekly \in Nat /\ sheet.rows[i].duration \in Nat \ {0}
  BY <1>1, <1>3
<1>6. ASSUME NEW columns, NEW i \in DOMAIN Read(sheet, columns)
      PROVE  /\ Read(sheet, columns)[i].weekly \in Nat
             /\ Read(sheet, columns)[i].duration \in Nat \ {0}
  <2> DEFINE row == sheet.rows[i]
  <2>1. row \in Rows
    BY <1>3, <1>4
  <2> HIDE DEF row
  <2>2. \/ Read(sheet, columns)[i] = row
        \/ Read(sheet, columns)[i] = [row EXCEPT !.term = None]
    BY <1>4 DEF row
  <2> QED BY <1>1, <2>1, <2>2
<1> QED BY <1>5, <1>6

LessonsInv == Covers(tasks, lessons)

LEMMA LessonsKept == InsertInv /\ IdsInv /\ LessonsInv /\ [Next]_vars => LessonsInv'
<1> SUFFICES ASSUME InsertInv, IdsInv, LessonsInv, [Next]_vars PROVE LessonsInv'
  OBVIOUS
<1>0. Covers(tasks, lessons)
  BY DEF LessonsInv
<1>1. ASSUME UNCHANGED <<tasks, lessons>> PROVE LessonsInv'
  BY <1>0, <1>1 DEF LessonsInv
<1>2. /\ \A k \in tasks : IsTask(k)
      /\ \A k \in tasks : \A i : k.id # Id(i)
      /\ \A i, k : Id(i) = Id(k) => i = k
  BY <1>0, IdFacts DEF Covers, IdsInv
<1>3. ASSUME NEW j \in ImportIds, InsertBatch(j), InsertTasks PROVE LessonsInv'
  <2> DEFINE N == {TaskFrom(i) : i \in DOMAIN loop.rows}
             M == UNION {LessonsOf(TaskFrom(i)) : i \in DOMAIN loop.rows}
  <2>1. PICK sheet \in Sheets : \E columns :
          loop.rows = Read(sheet, columns) /\ sheet.type = "teaching_task"
    BY <1>3, JobFacts DEF InsertBatch, InsertInv, InsertTasks, At
  <2>2. \A i \in DOMAIN loop.rows :
          loop.rows[i].weekly \in Nat /\ loop.rows[i].duration \in Nat \ {0}
    BY <2>1, TaskRows
  <2>3. \A i \in DOMAIN loop.rows : IsTask(TaskFrom(i)) /\ TaskFrom(i).id = Id(i)
    BY <2>2 DEF IsTask, TaskFrom
  <2>4. \A t \in N : \E i \in DOMAIN loop.rows : t = TaskFrom(i)
    OBVIOUS
  <2>5. \A t \in N : IsTask(t) /\ \A u \in tasks : u.id # t.id
    BY <1>2, <2>3, <2>4
  <2>6. \A t, u \in N : t.id = u.id => t = u
    BY <1>2, <2>3, <2>4
  <2>7. /\ \A t \in N : \A l \in LessonsOf(t) : l \in M
        /\ \A l \in M : \E t \in N : l \in LessonsOf(t)
    OBVIOUS
  <2> HIDE DEF N, M
  <2>8. Covers(tasks \cup N, lessons \cup M)
    BY <1>0, <2>5, <2>6, <2>7, CoversMore
  <2> QED BY <1>3, <2>8 DEF InsertTasks, N, M, LessonsInv
<1>4. ASSUME NEW task, IsTask(task),
             tasks' = {t \in tasks : t.id # task.id} \cup {task},
             lessons' = RegeneratedLessons(task)
      PROVE  LessonsInv'
  <2> DEFINE T == TasksBut(tasks, task.id)
             L == LessonsBut(lessons, task.id)
  <2>1. Covers(T, L)
    BY <1>0, CoversLess
  <2>2. lessons' = L \cup LessonsOf(task)
    BY <1>4 DEF RegeneratedLessons, LessonRowsOf, LessonsBut
  <2>3. \A t \in {task} : IsTask(t) /\ \A u \in T : u.id # t.id
    BY <1>4 DEF TasksBut
  <2> HIDE DEF T, L
  <2>4. Covers(T \cup {task}, L \cup LessonsOf(task))
    BY <2>1, <2>3, CoversMore
  <2> QED BY <1>4, <2>2, <2>4 DEF T, TasksBut, LessonsInv
<1>5. CASE SaveTask
  <2> DEFINE New(row) ==
               {[id |-> Id(1), homeroom |-> row.homeroom, term |-> row.term, teacher |-> t.id,
                 plan |-> None, weekly |-> row.weekly, duration |-> row.duration] :
                  t \in teachers}
             Saved(row) ==
               {[t EXCEPT !.weekly = row.weekly, !.duration = row.duration] : t \in tasks}
             To(task) == /\ tasks' = {t \in tasks : t.id # task.id} \cup {task}
                         /\ lessons' = RegeneratedLessons(task)
  <2>1. PICK s \in Sheets :
          /\ s.type = "teaching_task"
          /\ \E i \in DOMAIN s.rows : \E task \in New(s.rows[i]) \cup Saved(s.rows[i]) : To(task)
    BY <1>5 DEF SaveTask
  <2>2. PICK i \in DOMAIN s.rows : \E task \in New(s.rows[i]) \cup Saved(s.rows[i]) : To(task)
    BY <2>1
  <2> DEFINE row == s.rows[i]
  <2>3. row.weekly \in Nat /\ row.duration \in Nat \ {0}
    BY <2>1, TaskRows
  <2>4. PICK task \in New(row) \cup Saved(row) : To(task)
    BY <2>2
  <2> HIDE DEF To, row
  <2>5. CASE task \in New(row)
    <3> HIDE DEF Saved
    <3>1. IsTask(task)
      BY <2>3, <2>5 DEF IsTask
    <3> QED BY <1>4, <2>4, <3>1 DEF To
  <2>6. CASE task \in Saved(row)
    <3> HIDE DEF New
    <3>0. PICK t \in tasks :
            task = [t EXCEPT !.weekly = row.weekly, !.duration = row.duration]
      BY <2>6
    <3>1. IsTask(task)
      <4> DEFINE v == row.weekly
                 u == row.duration
      <4>1. task = [t EXCEPT !.weekly = v, !.duration = u] /\ v \in Nat /\ u \in Nat \ {0}
        BY <2>3, <3>0
      <4> HIDE DEF v, u
      <4>2. /\ DOMAIN t = {"id", "homeroom", "term", "teacher", "plan", "weekly", "duration"}
            /\ t.weekly \in Nat /\ t.duration \in Nat \ {0}
        BY <1>2, <3>0 DEF IsTask
      <4>3. DOMAIN task = DOMAIN t
        BY <4>1
      <4>4. task.weekly = v /\ task.duration = u
        BY <4>1, <4>2
      <4> QED BY <4>1, <4>2, <4>3, <4>4 DEF IsTask
    <3> QED BY <1>4, <2>4, <3>1 DEF To
  <2> QED BY <2>4, <2>5, <2>6
<1>6. CASE DeleteTeacher
  <2>1. PICK t \in teachers :
          tasks' = {[k EXCEPT !.teacher = IF @ = t.id THEN None ELSE @] : k \in tasks}
    BY <1>6 DEF DeleteTeacher
  <2> DEFINE F == [k \in tasks |-> [k EXCEPT !.teacher = IF @ = t.id THEN None ELSE @]]
  <2>2. \A k \in tasks : /\ IsTask(F[k]) /\ F[k].id = k.id
                         /\ F[k].weekly = k.weekly /\ F[k].duration = k.duration
    BY <1>2 DEF IsTask
  <2>3. tasks' = {F[k] : k \in tasks} /\ DOMAIN F = tasks
    BY <2>1
  <2> HIDE DEF F
  <2> QED BY <1>0, <1>6, <2>2, <2>3, CoversSame DEF DeleteTeacher, LessonsInv
<1>7. CASE DeletePlan
  <2>1. PICK p \in plans :
          tasks' = {[k EXCEPT !.plan = IF @ = p.id THEN None ELSE @] : k \in tasks}
    BY <1>7 DEF DeletePlan
  <2> DEFINE F == [k \in tasks |-> [k EXCEPT !.plan = IF @ = p.id THEN None ELSE @]]
  <2>2. \A k \in tasks : /\ IsTask(F[k]) /\ F[k].id = k.id
                         /\ F[k].weekly = k.weekly /\ F[k].duration = k.duration
    BY <1>2 DEF IsTask
  <2>3. tasks' = {F[k] : k \in tasks} /\ DOMAIN F = tasks
    BY <2>1
  <2> HIDE DEF F
  <2> QED BY <1>0, <1>7, <2>2, <2>3, CoversSame DEF DeletePlan, LessonsInv
<1>8. CASE DeleteTask
  <2>1. PICK t \in tasks : tasks' = tasks \ {t} /\ lessons' = lessons \ LessonRowsOf(t.id)
    BY <1>8 DEF DeleteTask
  <2>2. tasks' = TasksBut(tasks, t.id)
    BY <1>0, <2>1 DEF Covers, TasksBut
  <2>3. lessons' = LessonsBut(lessons, t.id)
    BY <2>1 DEF LessonRowsOf, LessonsBut
  <2> QED BY <1>0, <2>2, <2>3, CoversLess DEF LessonsInv
<1>9. ASSUME NEW j \in ImportIds, ImportStep(j), ~(InsertBatch(j) /\ InsertTasks)
      PROVE  UNCHANGED <<tasks, lessons>>
  BY <1>9 DEF ImportStep, StoreFile, DigestStored, PreviewFails, PreviewListed, PreviewAttached,
     RemapPreview, Abandon, ReplaceStored, CheckStored, ReadStored, ConfirmRefused,
     ImportConfirmed, InsertBatch,
     InsertTeachers, InsertPlans, data
<1>10. ASSUME NEW e, ExportStep(e) \/ TemplateStep(e) PROVE UNCHANGED <<tasks, lessons>>
  BY <1>10 DEF ExportStep, ExportStarts, ExportProduces, ExportSucceeds, ExportRegistered,
     ExportFails, FailureUnrecorded, TemplateStep, TemplateFilled, TemplateRecorded, TemplateRegistered, data
<1>11. CASE HandlerRaises \/ KilledAndReopened \/ UNCHANGED vars
  BY <1>1, <1>11 DEF HandlerRaises, KilledAndReopened, vars, data
<1>12. CASE SaveTeacher \/ SaveHomeroom \/ SavePlan
  BY <1>1, <1>12 DEF SaveTeacher, SaveHomeroom, SavePlan
<1>13. CASE Edit
  BY <1>5, <1>6, <1>7, <1>8, <1>12, <1>13 DEF Edit
<1> QED BY <1>1, <1>3, <1>9, <1>10, <1>11, <1>13 DEF Next

\* For any sheets, numbers of slots and durations, edits and kills: the lessons of a
\* task are its weekly slots in pieces of its duration, and none is of no task.
THEOREM LessonsAlwaysCoverTask == Spec => []LessonsCoverTask
<1>1. Init => ImportsInv /\ InsertInv /\ IdsInv /\ LessonsInv
  BY InitFacts DEF Init, LessonsInv, Covers
<1>2. ImportsInv /\ InsertInv /\ IdsInv /\ LessonsInv /\ [Next]_vars
        => (ImportsInv /\ InsertInv /\ IdsInv /\ LessonsInv)'
  BY ImportsKept, InsertKept, IdsKept, LessonsKept
<1>3. LessonsInv => LessonsCoverTask
  <2> SUFFICES ASSUME Covers(tasks, lessons) PROVE LessonsCoverTask
    BY DEF LessonsInv
  <2>1. ASSUME NEW t \in tasks
        PROVE  IsTask(t) /\ LessonRowsOf(t.id) = LessonsOf(t)
    <3>1. \A u \in tasks : IsTask(u) /\ (u.id = t.id => u = t)
      BY DEF Covers
    <3>2. \A l \in lessons : \E u \in tasks : l \in LessonsOf(u) /\ l.task = u.id
      BY <3>1, LessonFacts DEF Covers
    <3>3. \A l \in LessonsOf(t) : l \in lessons /\ l.task = t.id
      BY <3>1, LessonFacts DEF Covers
    <3> QED BY <3>1, <3>2, <3>3 DEF LessonRowsOf
  <2>2. \A l \in lessons : \E t \in tasks : t.id = l.task
    BY LessonFacts DEF Covers
  <2>3. ASSUME NEW t \in tasks, NEW rows, rows = LessonRowsOf(t.id)
        PROVE  /\ Cardinality(UNION {{l.index} \X (1 .. l.duration) : l \in rows}) = t.weekly
               /\ {l.index : l \in rows} = 1 .. Cardinality(rows)
               /\ \A l \in rows : IF l.index < Cardinality(rows)
                                     THEN l.duration = t.duration
                                     ELSE l.duration \in 1 .. t.duration
    <3>1. IsTask(t) /\ rows = LessonsOf(t)
      BY <2>1, <2>3
    <3> QED BY <3>1, LessonsCover
  <2> QED BY <2>2, <2>3, Zenon DEF LessonsCoverTask
<1>4. QED
  BY <1>1, <1>2, <1>3, PTL DEF Spec
=============================================================================
