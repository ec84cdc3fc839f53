----------------------------- MODULE Candidates -----------------------------
(***************************************************************************)
(* The candidates of a project: the timetables found by rounds             *)
(* (scheduling/service.py) and those made from another candidate by moving *)
(* one lesson (scheduling/timetable.py), while the data are edited and     *)
(* rows that the candidates refer to are deleted.                          *)
(*                                                                         *)
(* The data of a project are a problem with, besides what LessonRules      *)
(* says, its rooms and the teacher of each lesson. Rows are numbers that   *)
(* are never used again (uuid7). A round and a candidate know the revision *)
(* of the snapshot they were made from.                                    *)
(***************************************************************************)
EXTENDS LessonRules

CONSTANTS
  Problems,
  MaxRevisions,   \* bound: revisions of the data
  MaxCandidates,  \* bound: candidates
  MaxSessions     \* bound: optimization sessions

VARIABLES
  history,     \* the data at each revision; the last are the current ones
  gone,        \* the rows that have been deleted
  candidates,  \* in the order of creation
  sessions,    \* number of optimization_sessions
  round        \* the round in progress

vars == <<history, gone, candidates, sessions, round>>

\* NULL in a column, and no parent, no session asked for. NoRoom is the same:
\* an action without a room leaves the column NULL.
Null == 0

RowsOf(p) == p.lessons \cup p.rooms \cup {p.teacher[l] : l \in p.lessons}

TimeOf(a) == [days |-> a.days, weeks |-> a.weeks, start |-> a.start, length |-> a.length]

\* A lesson either needs a room in all its options or in none (_actions), and an
\* option is known by its time and its room; times are on one day.
OptionsAreDistinct(p) ==
  \A a, b \in p.options :
    a.lesson = b.lesson =>
      /\ a.room = NoRoom <=> b.room = NoRoom
      /\ TimeOf(a) = TimeOf(b) /\ a.room = b.room => a = b

ASSUME CandidatesAssumption ==
  /\ MaxRevisions \in Nat /\ MaxCandidates \in Nat /\ MaxSessions \in Nat
  /\ \A p \in Problems :
       /\ ProblemOK(p) /\ OptionsAreDistinct(p)
       /\ RowsOf(p) \subseteq Nat \ {Null}
       /\ \A a \in p.options : a.room # NoRoom => a.room \in p.rooms

Revision == Len(history)
Current  == history[Revision]

NoRound == [parent |-> Null, session |-> Null, snapshot |-> Null]

Origins ==
  [parent : 0..Len(candidates), session : 0..sessions, snapshot : 0..Revision]

\* The problem that a candidate or a round was made from.
ProblemOf(c) == history[c.snapshot]

Actions == UNION {p.options : p \in Problems}

Entries == [lesson : Nat, teacher : Nat, room : Nat, time : {TimeOf(a) : a \in Actions}]

CandidateRows ==
  [parent : Nat, session : Nat, snapshot : Nat, solution : SUBSET Actions,
   entries : SUBSET Entries]

\* Types, and that a round or a candidate refers to what exists: its parent, its
\* session, a revision, and options of the data at that revision.
TypeOK ==
  /\ history \in Seq(Problems) /\ Revision > 0
  /\ gone \in SUBSET (Nat \ {Null})
  /\ sessions \in Nat
  /\ round \in Origins /\ (round # NoRound => round.snapshot # Null)
  /\ candidates \in Seq(CandidateRows)
  /\ \A i \in DOMAIN candidates :
       LET c == candidates[i]
       IN  /\ c.parent \in 0..Len(candidates) /\ c.session \in 0..sessions
           /\ c.snapshot \in 1..Revision /\ c.solution \subseteq ProblemOf(c).options

Init ==
  /\ history \in {<<p>> : p \in Problems}
  /\ gone = {} /\ candidates = <<>> /\ sessions = 0 /\ round = NoRound

-----------------------------------------------------------------------------
(* Rows of timetable_entries.                                              *)

\* Mutant: the teacher is the one the lesson has now.
EntryOf_Now(p, a) ==
  [lesson  |-> a.lesson,
   teacher |-> IF a.lesson \in Current.lessons THEN Current.teacher[a.lesson] ELSE Null,
   room    |-> a.room, time |-> TimeOf(a)]

EntryOf(p, a) ==
  [lesson |-> a.lesson, teacher |-> p.teacher[a.lesson], room |-> a.room,
   time |-> TimeOf(a)]

\* ON DELETE SET NULL
Without(lost, e) ==
  [e EXCEPT !.lesson = IF @ \in lost THEN Null ELSE @,
            !.teacher = IF @ \in lost THEN Null ELSE @,
            !.room = IF @ \in lost THEN Null ELSE @]

\* The rows that the entries of a solution refer to; with foreign_keys on, an
\* insert fails if one of them is gone.
References(p, s) ==
  UNION {{a.lesson, p.teacher[a.lesson], a.room} : a \in s}

Persist(origin, s) ==
  LET p == ProblemOf(origin)
  IN  /\ Len(candidates) < MaxCandidates
      /\ References(p, s) \cap gone = {}
      /\ candidates' = Append(candidates,
           [parent |-> origin.parent, session |-> origin.session,
            snapshot |-> origin.snapshot, solution |-> s,
            entries |-> {EntryOf(p, a) : a \in s}])

-----------------------------------------------------------------------------
(* Edits.                                                                  *)

\* save_entity, save_task, delete_entity, bulk_insert_entities: a new revision;
\* also while a round is running.
Edit ==
  /\ Revision < MaxRevisions
  /\ \E p \in Problems :
       LET lost == RowsOf(Current) \ RowsOf(p)
       IN  /\ RowsOf(p) \cap gone = {}
           /\ history' = Append(history, p)
           /\ gone' = gone \cup lost
           /\ candidates' = [i \in 1..Len(candidates) |->
                [candidates[i] EXCEPT !.entries = {Without(lost, e) : e \in @}]]
  /\ UNCHANGED <<sessions, round>>

-----------------------------------------------------------------------------
(* Rounds.                                                                 *)

\* Mutant: a parent of an older revision is accepted.
ParentFits_Any(parent) == parent \in DOMAIN candidates

\* _load_parent
ParentFits(parent) ==
  parent \in DOMAIN candidates /\ candidates[parent].snapshot = Revision

\* The session of a round: the parent's, which must be the one asked for if any,
\* else the one asked for, else a new one.
SessionsFor(parent, asked) ==
  IF parent # Null
  THEN {s \in {candidates[parent].session} : asked \in {Null, s}}
  ELSE {IF asked # Null THEN asked ELSE sessions + 1}

StartRound ==
  /\ round = NoRound
  /\ \E parent \in 0..Len(candidates), asked \in 0..sessions :
       /\ parent # Null => ParentFits(parent)
       /\ \E session \in SessionsFor(parent, asked) :
            /\ session <= MaxSessions
            /\ round' = [parent |-> parent, session |-> session, snapshot |-> Revision]
            /\ sessions' = IF session > sessions THEN session ELSE sessions
  /\ UNCHANGED <<history, gone, candidates>>

OriginOf(r) == r

\* A round that succeeds has a result that was validated (SolverRun shows that it
\* is compatible and complete).
CompleteRound ==
  /\ round # NoRound
  /\ \E s \in SUBSET ProblemOf(round).options :
       Validated(ProblemOf(round), s) /\ Persist(OriginOf(round), s)
  /\ round' = NoRound
  /\ UNCHANGED <<history, gone, sessions>>

\* Infeasible, cancelled, failed (also because a row is gone) or interrupted.
RoundEnds ==
  /\ round # NoRound /\ round' = NoRound
  /\ UNCHANGED <<history, gone, candidates, sessions>>

-----------------------------------------------------------------------------
(* Moves.                                                                  *)

Matches(e, a) == a.lesson = e.lesson /\ TimeOf(a) = e.time /\ a.room = e.room

\* The actions of a problem that entries stand for.
ActionsOf(p, entries) == {a \in p.options : \E e \in entries : Matches(e, a)}

OtherEntries(c, a) == {e \in c.entries : e.lesson # a.lesson}

\* Mutant: only the room is checked.
InTheWay_RoomOnly(p, a, s) == {b \in s : RoomClash(a, b)}

InTheWay(p, a, s) == {b \in s : Conflict(p, a, b)}

\* Mutant: the limits are checked without the move.
OverLimit_Before(p, s, a) == Exceeded(p, s)

OverLimit(p, s, a) == Exceeded(p, s \cup {a})

\* validate_move, for an action that is among the options of its lesson: the
\* lesson has an entry, each other entry stands for an option, none of those is
\* in the way, and no required limit is exceeded.
MoveAllowed(c, a) ==
  LET p      == ProblemOf(c)
      others == ActionsOf(p, OtherEntries(c, a))
  IN  /\ \E e \in c.entries : e.lesson = a.lesson
      /\ \A e \in OtherEntries(c, a) : \E b \in others : Matches(e, b)
      /\ InTheWay(p, a, others) = {}
      /\ OverLimit(p, others, a) = {}

\* fork_with_move; also while a round is running.
ForkWithMove ==
  /\ \E i \in DOMAIN candidates :
       LET c == candidates[i]
       IN  \E a \in ProblemOf(c).options :
             /\ MoveAllowed(c, a)
             /\ Persist([parent |-> i, session |-> c.session, snapshot |-> c.snapshot],
                        ActionsOf(ProblemOf(c), OtherEntries(c, a)) \cup {a})
  /\ UNCHANGED <<history, gone, sessions, round>>

Next == Edit \/ StartRound \/ CompleteRound \/ RoundEnds \/ ForkWithMove

Spec == Init /\ [][Next]_vars

-----------------------------------------------------------------------------
(* Properties.                                                             *)

\* Every candidate is a timetable of its snapshot: complete, without conflicts and
\* within the required limits (limits across bell schedules of different numbers
\* apart). This holds however long the chain of moves it comes from, although a
\* move compares only the lesson it moves, and in one order only
\* (timetable.py:141-154).
CandidatesAreTimetables ==
  \A i \in DOMAIN candidates :
    LET p == ProblemOf(candidates[i])
        s == candidates[i].solution
    IN  Validated(p, s) /\ (NumberedAlike(p) => IsTimetable(p, s))

\* A move is refused only if the timetable with the lesson in its new place would
\* be none, as long as nothing that the candidate refers to was deleted
\* (timetable.py:102-167).
MoveIsExact ==
  \A i \in DOMAIN candidates :
    LET c == candidates[i]
        p == ProblemOf(c)
    IN  References(p, c.solution) \cap gone = {} /\ NumberedAlike(p) =>
          \A a \in p.options :
            LET moved == (c.solution \ OptionsOf(p, a.lesson)) \cup {a}
            IN  MoveAllowed(c, a) <=> IsTimetable(p, moved)

\* Whatever has a parent belongs to the session and the revision of its parent,
\* and a candidate is younger than its parent. So a round that starts from a
\* candidate starts from a timetable of its own snapshot, as SolverRun assumes
\* (service.py:299-303, :636, timetable.py:209).
FromParent(c) ==
  c.parent # Null =>
    /\ c.session = candidates[c.parent].session
    /\ c.snapshot = candidates[c.parent].snapshot

LineageIsConsistent ==
  /\ FromParent(round)
  /\ \A i \in DOMAIN candidates : FromParent(candidates[i]) /\ candidates[i].parent < i

Kept(column, row) == column = row \/ (column = Null /\ row \in gone)

Shows(c, e, a) ==
  /\ Kept(e.lesson, a.lesson) /\ Kept(e.room, a.room)
  /\ Kept(e.teacher, ProblemOf(c).teacher[a.lesson])
  /\ e.time = TimeOf(a)

ShowsSolution(c) ==
  /\ \A a \in c.solution : \E e \in c.entries : Shows(c, e, a)
  /\ \A e \in c.entries : \E a \in c.solution : Shows(c, e, a)

\* The entries of a candidate show its solution and the teachers of its snapshot,
\* apart from what has been deleted since (service.py:1151-1171).
EntriesShowSolution == \A i \in DOMAIN candidates : ShowsSolution(candidates[i])
=============================================================================
