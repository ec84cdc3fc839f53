------------------------- MODULE Candidates_proofs -------------------------
(***************************************************************************)
(* For any data, any number of edits, deletions, rounds and moves: every   *)
(* candidate is a timetable of its snapshot, its entries show what was     *)
(* decided, a move is refused only for a reason, and a round never starts  *)
(* from a candidate that does not fit its snapshot.                        *)
(***************************************************************************)
EXTENDS Candidates, LessonRules_proofs

\* The part of CandidatesAreTimetables that is inductive; the rest follows from it.
CandidatesAreValidated ==
  \A i \in DOMAIN candidates : Validated(ProblemOf(candidates[i]), candidates[i].solution)

IInv == TypeOK /\ CandidatesAreValidated /\ LineageIsConsistent /\ EntriesShowSolution

-----------------------------------------------------------------------------
(* Problems.                                                               *)

LEMMA ProblemFacts ==
  ASSUME NEW p \in Problems
  PROVE  /\ ProblemOK(p) /\ OptionsAreDistinct(p)
         /\ RowsOf(p) \subseteq Nat \ {Null}
         /\ \A a \in p.options :
              /\ a \in Actions
              /\ a.lesson \in p.lessons /\ a.lesson \in Nat \ {Null}
              /\ p.teacher[a.lesson] \in Nat \ {Null}
              /\ a.room \in Nat /\ (a.room # NoRoom => a.room \in RowsOf(p))
<1>1. /\ ProblemOK(p) /\ OptionsAreDistinct(p)
      /\ RowsOf(p) \subseteq Nat \ {Null}
      /\ \A a \in p.options : a.room # NoRoom => a.room \in p.rooms
  BY CandidatesAssumption
<1>2. \A a \in p.options : a.lesson \in p.lessons /\ a.room \in Nat
  BY <1>1 DEF ProblemOK
<1> QED BY <1>1, <1>2 DEF RowsOf, Actions

LEMMA CandidateFacts ==
  ASSUME TypeOK, NEW i \in DOMAIN candidates
  PROVE  /\ candidates[i] \in CandidateRows
         /\ ProblemOf(candidates[i]) \in Problems
         /\ i \in 1..Len(candidates) /\ Len(candidates) \in Nat
         /\ candidates[i].snapshot \in 1..Revision /\ Revision \in Nat
BY DEF TypeOK, ProblemOf, Revision

-----------------------------------------------------------------------------
(* A move.                                                                 *)

\* An entry and the option it matches stand for one action of the solution.
LEMMA MatchIsUnique ==
  ASSUME NEW p \in Problems, NEW x \in p.options, NEW b \in p.options, NEW e,
         Kept(e.lesson, x.lesson), Kept(e.room, x.room), e.time = TimeOf(x),
         Matches(e, b)
  PROVE  b = x
<1>1. b.lesson = e.lesson /\ TimeOf(b) = TimeOf(x) /\ b.room = e.room
  BY DEF Matches
<1>2. b.lesson # Null
  BY ProblemFacts
<1>3. b.lesson = x.lesson
  BY <1>1, <1>2 DEF Kept
<1>4. OptionsAreDistinct(p)
  BY ProblemFacts
<1>5. b.room = NoRoom <=> x.room = NoRoom
  BY <1>3, <1>4 DEF OptionsAreDistinct
<1>6. b.room = x.room
  BY <1>1, <1>5 DEF Kept, Null, NoRoom
<1> QED BY <1>1, <1>3, <1>4, <1>6 DEF OptionsAreDistinct

\* A move never takes an action for a decision of the candidate that is none.
LEMMA OthersAreDecided ==
  ASSUME NEW c, ProblemOf(c) \in Problems, Validated(ProblemOf(c), c.solution),
         ShowsSolution(c), NEW a \in ProblemOf(c).options
  PROVE  ActionsOf(ProblemOf(c), OtherEntries(c, a))
           \subseteq {b \in c.solution : b.lesson # a.lesson}
<1> DEFINE p == ProblemOf(c)
<1>1. ASSUME NEW b \in ActionsOf(p, OtherEntries(c, a))
      PROVE  b \in c.solution /\ b.lesson # a.lesson
  <2>1. b \in p.options
    BY <1>1 DEF ActionsOf
  <2>2. PICK e \in OtherEntries(c, a) : Matches(e, b)
    BY <1>1 DEF ActionsOf
  <2>3. e \in c.entries /\ e.lesson # a.lesson
    BY DEF OtherEntries
  <2>4. PICK x \in c.solution : Shows(c, e, x)
    BY <2>3 DEF ShowsSolution
  <2>5. b = x
    BY <2>1, <2>2, <2>4, MatchIsUnique DEF Validated, Shows
  <2> QED BY <2>2, <2>3, <2>4, <2>5 DEF Matches
<1> QED BY <1>1

\* What a move finds for the entries of the other lessons is what the candidate
\* decided about them (timetable.py:113-139).
LEMMA OthersAreKept ==
  ASSUME NEW c, ProblemOf(c) \in Problems, Validated(ProblemOf(c), c.solution),
         ShowsSolution(c), NEW a \in ProblemOf(c).options, MoveAllowed(c, a)
  PROVE  ActionsOf(ProblemOf(c), OtherEntries(c, a))
           = {b \in c.solution : b.lesson # a.lesson}
<1> DEFINE p == ProblemOf(c)
<1>1. ASSUME NEW b \in ActionsOf(p, OtherEntries(c, a))
      PROVE  b \in c.solution /\ b.lesson # a.lesson
  BY <1>1, OthersAreDecided
<1>2. ASSUME NEW x \in c.solution, x.lesson # a.lesson
      PROVE  x \in ActionsOf(p, OtherEntries(c, a))
  <2>1. PICK e \in c.entries : Shows(c, e, x)
    BY DEF ShowsSolution
  <2>2. a.lesson # Null
    BY ProblemFacts
  <2>3. e \in OtherEntries(c, a)
    BY <1>2, <2>1, <2>2 DEF OtherEntries, Shows, Kept
  <2>4. PICK b \in ActionsOf(p, OtherEntries(c, a)) : Matches(e, b)
    BY <2>3 DEF MoveAllowed
  <2>5. b = x
    BY <2>1, <2>4, MatchIsUnique DEF Validated, Shows, ActionsOf
  <2> QED BY <2>4, <2>5
<1> QED BY <1>1, <1>2

\* A move that is allowed makes a timetable again.
LEMMA MoveIsSound ==
  ASSUME NEW c, ProblemOf(c) \in Problems, Validated(ProblemOf(c), c.solution),
         ShowsSolution(c), NEW a \in ProblemOf(c).options, MoveAllowed(c, a)
  PROVE  Validated(ProblemOf(c), ActionsOf(ProblemOf(c), OtherEntries(c, a)) \cup {a})
<1> DEFINE p    == ProblemOf(c)
           kept == {b \in c.solution : b.lesson # a.lesson}
<1>1. ActionsOf(p, OtherEntries(c, a)) = kept
  BY OthersAreKept
<1>2. \A b \in kept : b.lesson # a.lesson /\ ~Conflict(p, a, b)
  BY <1>1 DEF MoveAllowed, InTheWay
<1>3. kept \in SUBSET p.options /\ Compatible(p, kept)
  BY SmallerIsCompatible DEF Validated
<1>4. Compatible(p, kept \cup {a})
  <2> HIDE DEF kept
  <2> QED BY <1>2, <1>3, JoinIsCompatible, ProblemFacts
<1>5. a.lesson \in p.lessons
  BY ProblemFacts
<1>6. Placed(kept \cup {a}) = p.lessons
  BY <1>5 DEF Validated, Placed
<1>7. Exceeded(p, kept \cup {a}) = {}
  BY <1>1 DEF MoveAllowed, OverLimit
<1> QED BY <1>1, <1>3, <1>4, <1>6, <1>7 DEF Validated

\* If nothing that the candidate refers to is gone, an entry matches the action it
\* shows.
LEMMA EntriesMatch ==
  ASSUME NEW c, ProblemOf(c) \in Problems, Validated(ProblemOf(c), c.solution),
         References(ProblemOf(c), c.solution) \cap gone = {},
         NEW x \in c.solution, NEW e, Shows(c, e, x)
  PROVE  Matches(e, x) /\ x \in ProblemOf(c).options
<1>1. x.lesson \notin gone /\ x.room \notin gone
  BY DEF References
<1>2. x \in ProblemOf(c).options
  BY DEF Validated
<1> QED BY <1>1, <1>2 DEF Matches, Shows, Kept

\* A move that would make a timetable is allowed.
LEMMA MoveIsComplete ==
  ASSUME NEW c, ProblemOf(c) \in Problems, Validated(ProblemOf(c), c.solution),
         References(ProblemOf(c), c.solution) \cap gone = {},
         ShowsSolution(c), NEW a \in ProblemOf(c).options,
         Validated(ProblemOf(c), {b \in c.solution : b.lesson # a.lesson} \cup {a})
  PROVE  MoveAllowed(c, a)
<1> DEFINE p      == ProblemOf(c)
           kept   == {b \in c.solution : b.lesson # a.lesson}
           others == ActionsOf(p, OtherEntries(c, a))
<1>1. \E e \in c.entries : e.lesson = a.lesson
  <2>1. a.lesson \in p.lessons
    BY ProblemFacts
  <2>2. PICK x \in c.solution : x.lesson = a.lesson
    BY <2>1 DEF Validated, Placed
  <2>3. PICK e \in c.entries : Shows(c, e, x)
    BY DEF ShowsSolution
  <2>4. Matches(e, x)
    BY <2>3, EntriesMatch
  <2> QED BY <2>2, <2>4 DEF Matches
<1>2. \A e \in OtherEntries(c, a) : \E b \in others : Matches(e, b)
  <2> TAKE e \in OtherEntries(c, a)
  <2>1. PICK x \in c.solution : Shows(c, e, x)
    BY DEF ShowsSolution, OtherEntries
  <2>2. Matches(e, x) /\ x \in p.options
    BY <2>1, EntriesMatch
  <2> QED BY <2>2 DEF ActionsOf
<1>3. others \subseteq kept
  BY OthersAreDecided
<1>4. ASSUME NEW x \in kept
      PROVE  x \in others
  <2>1. PICK e \in c.entries : Shows(c, e, x)
    BY DEF ShowsSolution
  <2>2. Matches(e, x) /\ x \in p.options
    BY <2>1, EntriesMatch
  <2>3. e \in OtherEntries(c, a)
    BY <2>2 DEF OtherEntries, Matches
  <2> QED BY <2>2, <2>3 DEF ActionsOf
<1>5. others = kept
  BY <1>3, <1>4
<1>6. InTheWay(p, a, kept) = {}
  <2>1. \A b \in kept : ~ Conflict(p, a, b)
    BY DEF Validated, Compatible
  <2> QED BY <2>1 DEF InTheWay
<1>7. OverLimit(p, kept, a) = {}
  BY DEF Validated, OverLimit
<1> QED BY <1>1, <1>2, <1>5, <1>6, <1>7 DEF MoveAllowed

-----------------------------------------------------------------------------
(* The invariant.                                                          *)

LEMMA InitHolds == Init => IInv
<1> SUFFICES ASSUME Init PROVE IInv
  OBVIOUS
<1>1. PICK p \in Problems : history = <<p>>
  BY DEF Init
<1>2. TypeOK
  BY <1>1 DEF Init, TypeOK, Revision, Origins, NoRound, Null
<1>3. CandidatesAreValidated /\ EntriesShowSolution
  BY DEF Init, CandidatesAreValidated, EntriesShowSolution
<1>4. LineageIsConsistent
  BY DEF Init, LineageIsConsistent, FromParent, NoRound
<1> QED BY <1>2, <1>3, <1>4 DEF IInv

\* A new candidate.
LEMMA PersistKeeps ==
  ASSUME IInv, NEW origin \in Origins, origin.snapshot # Null, NEW s,
         Validated(ProblemOf(origin), s), FromParent(origin), Persist(origin, s),
         UNCHANGED <<history, gone, sessions>>, round' \in {round, NoRound}
  PROVE  IInv'
<1> DEFINE n   == Len(candidates)
           p   == ProblemOf(origin)
           new == [parent |-> origin.parent, session |-> origin.session,
                   snapshot |-> origin.snapshot, solution |-> s,
                   entries |-> {EntryOf(p, a) : a \in s}]
<1>1. n \in Nat /\ candidates \in Seq(CandidateRows) /\ DOMAIN candidates = 1..n
  BY DEF IInv, TypeOK
<1>2. /\ origin.parent \in 0..n /\ origin.session \in 0..sessions
      /\ origin.snapshot \in 1..Revision /\ Revision \in Nat /\ sessions \in Nat
      /\ history \in Seq(Problems)
  BY <1>1 DEF IInv, TypeOK, Origins, Revision, Null
<1>3. p \in Problems
  BY <1>2 DEF ProblemOf, Revision
<1>4. \A a \in s : EntryOf(p, a) \in Entries
  BY <1>3, ProblemFacts DEF Validated, EntryOf, Entries
<1>5. new \in CandidateRows
  BY <1>2, <1>3, <1>4, ProblemFacts DEF CandidateRows, Validated
<1>6. candidates' = Append(candidates, new)
  BY DEF Persist
<1>7. /\ candidates' \in Seq(CandidateRows) /\ Len(candidates') = n + 1
      /\ DOMAIN candidates' = 1..(n + 1)
      /\ \A i \in 1..n : candidates'[i] = candidates[i]
      /\ candidates'[n + 1] = new
  <2> HIDE DEF new
  <2> QED BY <1>1, <1>5, <1>6
<1>8. Revision' = Revision /\ \A c : ProblemOf(c)' = ProblemOf(c)
  BY DEF Revision, ProblemOf
<1>9. \A c, e, a : Shows(c, e, a)' = Shows(c, e, a)
  BY <1>8 DEF Shows, Kept
<1>10. TypeOK'
  <2>1. round' \in Origins'
    <3>1. CASE round' = NoRound
      BY <1>1, <1>2, <1>7, <1>8, <3>1 DEF Origins, NoRound, Null, Revision
    <3>2. CASE round' = round
      BY <1>1, <1>2, <1>7, <1>8, <3>2 DEF IInv, TypeOK, Origins, Revision
    <3> QED BY <3>1, <3>2
  <2>2. \A i \in DOMAIN candidates' :
          /\ candidates'[i].parent \in 0..(n + 1)
          /\ candidates'[i].session \in 0..sessions
          /\ candidates'[i].snapshot \in 1..Revision
          /\ candidates'[i].solution \subseteq ProblemOf(candidates'[i]).options
    <3>1. \A i \in 1..n :
            /\ candidates'[i].parent \in 0..(n + 1)
            /\ candidates'[i].session \in 0..sessions
            /\ candidates'[i].snapshot \in 1..Revision
            /\ candidates'[i].solution \subseteq ProblemOf(candidates'[i]).options
      BY <1>1, <1>7 DEF IInv, TypeOK
    <3>2. /\ new.parent \in 0..(n + 1) /\ new.session \in 0..sessions
          /\ new.snapshot \in 1..Revision
          /\ new.solution \subseteq ProblemOf(new).options
      BY <1>1, <1>2 DEF Validated, ProblemOf
    <3> HIDE DEF new
    <3> QED BY <1>1, <1>7, <3>1, <3>2
  <2>3. round' # NoRound => round'.snapshot # Null
    BY DEF IInv, TypeOK
  <2> QED BY <1>7, <1>8, <2>1, <2>2, <2>3 DEF IInv, TypeOK, ProblemOf
<1>11. CandidatesAreValidated'
  <2>1. Validated(ProblemOf(new), new.solution)
    BY DEF ProblemOf
  <2>2. \A i \in 1..n : Validated(ProblemOf(candidates[i]), candidates[i].solution)
    BY <1>1 DEF IInv, CandidatesAreValidated
  <2> HIDE DEF new
  <2> QED BY <1>1, <1>7, <1>8, <2>1, <2>2 DEF CandidatesAreValidated, ProblemOf
<1>12. LineageIsConsistent'
  <2>1. \A i \in 0..n : i # Null => candidates'[i] = candidates[i]
    BY <1>1, <1>7 DEF Null
  <2>2. \A c : c.parent \in 0..n => (FromParent(c) <=>
           (c.parent # Null =>
              /\ c.session = candidates'[c.parent].session
              /\ c.snapshot = candidates'[c.parent].snapshot))
    BY <2>1 DEF FromParent
  <2>3. FromParent(round)'
    <3>1. CASE round' = NoRound
      BY <3>1 DEF FromParent, NoRound
    <3>2. CASE round' = round
      <4>1. round.parent \in 0..n /\ FromParent(round)
        BY DEF IInv, TypeOK, Origins, LineageIsConsistent
      <4> QED BY <2>2, <3>2, <4>1 DEF FromParent
    <3> QED BY <3>1, <3>2
  <2>4. ASSUME NEW i \in 1..n
        PROVE  FromParent(candidates[i])' /\ candidates'[i].parent < i
    <3>1. FromParent(candidates[i]) /\ candidates[i].parent < i
      BY <1>1 DEF IInv, LineageIsConsistent
    <3>2. candidates[i].parent \in 0..n
      BY <1>1 DEF IInv, TypeOK
    <3> QED BY <1>7, <2>2, <3>1, <3>2 DEF FromParent
  <2>5. ASSUME NEW i, i = n + 1
        PROVE  FromParent(candidates[i])' /\ candidates'[i].parent < i
    <3>1. new.parent \in 0..n /\ FromParent(new)
      BY <1>2 DEF FromParent
    <3> HIDE DEF new
    <3>2. candidates'[n + 1] = new /\ new.parent < n + 1
      BY <1>1, <1>7, <3>1
    <3>3. new.parent # Null =>
            /\ new.session = candidates'[new.parent].session
            /\ new.snapshot = candidates'[new.parent].snapshot
      BY <2>2, <3>1
    <3> QED BY <2>5, <3>2, <3>3 DEF FromParent
  <2>6. \A i \in DOMAIN candidates' : i \in 1..n \/ i = n + 1
    BY <1>1, <1>7
  <2>7. \A i \in DOMAIN candidates' :
          FromParent(candidates[i])' /\ candidates'[i].parent < i
    BY <2>4, <2>5, <2>6
  <2> QED BY <2>3, <2>7 DEF LineageIsConsistent
<1>13. EntriesShowSolution'
  <2>1. \A a \in s : Shows(new, EntryOf(p, a), a)
    BY DEF Shows, Kept, EntryOf, ProblemOf
  <2>2. ShowsSolution(new)
    BY <2>1 DEF ShowsSolution
  <2>3. \A i \in 1..n : ShowsSolution(candidates[i])
    BY <1>1 DEF IInv, EntriesShowSolution
  <2> HIDE DEF new
  <2>4. \A i \in DOMAIN candidates' : ShowsSolution(candidates'[i])
    BY <1>1, <1>7, <2>2, <2>3
  <2>5. \A c : ShowsSolution(c)' = ShowsSolution(c)
    BY <1>9 DEF ShowsSolution
  <2> QED BY <2>4, <2>5 DEF EntriesShowSolution, ShowsSolution, Shows, Kept, ProblemOf
<1> QED BY <1>10, <1>11, <1>12, <1>13 DEF IInv

\* An edit, and the deletion of rows with it.
LEMMA EditKeeps ==
  ASSUME IInv, Edit
  PROVE  IInv'
<1> DEFINE n == Len(candidates)
<1>a. PICK p \in Problems :
        /\ history' = Append(history, p)
        /\ gone' = gone \cup (RowsOf(Current) \ RowsOf(p))
        /\ candidates' = [i \in 1..n |->
             [candidates[i] EXCEPT
                !.entries = {Without(RowsOf(Current) \ RowsOf(p), e) : e \in @}]]
  BY DEF Edit
<1>b. PICK lost : lost = RowsOf(Current) \ RowsOf(p)
  OBVIOUS
<1>1. /\ gone' = gone \cup lost
      /\ candidates' = [i \in 1..n |->
           [candidates[i] EXCEPT !.entries = {Without(lost, e) : e \in @}]]
  BY <1>a, <1>b
<1>2. /\ n \in Nat /\ candidates \in Seq(CandidateRows) /\ DOMAIN candidates = 1..n
      /\ \A i \in 1..n : candidates[i] \in CandidateRows
      /\ history \in Seq(Problems) /\ Revision \in Nat \ {0} /\ gone \subseteq Nat \ {Null}
      /\ round' = round /\ sessions' = sessions
  BY DEF IInv, TypeOK, Revision, Edit
<1>3. /\ history' \in Seq(Problems) /\ Revision' = Revision + 1
      /\ \A i \in 1..Revision : history'[i] = history[i]
  BY <1>a, <1>2 DEF Revision
<1>4. lost \subseteq Nat \ {Null}
  BY <1>b, <1>2, ProblemFacts DEF Current, Revision
<1>5. /\ DOMAIN candidates' = 1..n
      /\ \A i \in 1..n :
           candidates'[i] =
             [candidates[i] EXCEPT !.entries = {Without(lost, e) : e \in @}]
  BY <1>1
<1>6. \A e \in Entries : Without(lost, e) \in Entries
  BY DEF Entries, Without, Null
<1>7. ASSUME NEW i \in 1..n
      PROVE  /\ candidates'[i] \in CandidateRows
             /\ candidates'[i].parent = candidates[i].parent
             /\ candidates'[i].session = candidates[i].session
             /\ candidates'[i].snapshot = candidates[i].snapshot
             /\ candidates'[i].solution = candidates[i].solution
             /\ candidates'[i].entries = {Without(lost, e) : e \in candidates[i].entries}
  <2>1. candidates[i] \in CandidateRows
    BY <1>2
  <2>2. {Without(lost, e) : e \in candidates[i].entries} \subseteq Entries
    BY <1>6, <2>1 DEF CandidateRows
  <2> QED BY <1>5, <2>1, <2>2 DEF CandidateRows
<1>8. candidates' \in Seq(CandidateRows) /\ Len(candidates') = n
  <2>1. candidates' \in [1..n -> CandidateRows]
    BY <1>1, <1>7
  <2> QED BY <1>2, <2>1
<1>9. ASSUME NEW i \in 1..n
      PROVE  /\ candidates[i].parent \in 0..n /\ candidates[i].session \in 0..sessions
             /\ candidates[i].snapshot \in 1..Revision
             /\ candidates[i].solution \subseteq ProblemOf(candidates[i]).options
  BY <1>2 DEF IInv, TypeOK
<1>10. \A i \in 1..n : ProblemOf(candidates[i])' = ProblemOf(candidates[i])
  BY <1>3, <1>7, <1>9 DEF ProblemOf
<1>11. TypeOK'
  <2>1. gone' \subseteq Nat \ {Null}
    BY <1>1, <1>2, <1>4
  <2>2. round' \in Origins' /\ (round' # NoRound => round'.snapshot # Null)
    BY <1>2, <1>3, <1>8 DEF IInv, TypeOK, Origins
  <2>3. \A i \in DOMAIN candidates' :
          /\ candidates'[i].parent \in 0..n /\ candidates'[i].session \in 0..sessions
          /\ candidates'[i].snapshot \in 1..(Revision + 1)
          /\ candidates'[i].solution \subseteq history'[candidates'[i].snapshot].options
    BY <1>2, <1>3, <1>5, <1>7, <1>9 DEF ProblemOf
  <2>4. Revision' > 0 /\ sessions' \in Nat
    BY <1>2, <1>3 DEF IInv, TypeOK
  <2> QED BY <1>2, <1>3, <1>8, <2>1, <2>2, <2>3, <2>4 DEF TypeOK, ProblemOf
<1>12. CandidatesAreValidated'
  BY <1>2, <1>5, <1>7, <1>10 DEF IInv, CandidatesAreValidated, ProblemOf
<1>13. LineageIsConsistent'
  <2>1. ASSUME NEW c, c.parent \in 0..n, FromParent(c)
        PROVE  c.parent # Null =>
                 /\ c.session = candidates'[c.parent].session
                 /\ c.snapshot = candidates'[c.parent].snapshot
    BY <1>2, <1>7, <2>1 DEF FromParent, Null
  <2>2. FromParent(round)'
    <3>1. round.parent \in 0..n /\ FromParent(round)
      BY DEF IInv, TypeOK, Origins, LineageIsConsistent
    <3> QED BY <1>2, <2>1, <3>1 DEF FromParent
  <2>3. ASSUME NEW i \in 1..n
        PROVE  FromParent(candidates[i])' /\ candidates'[i].parent < i
    <3>1. FromParent(candidates[i]) /\ candidates[i].parent < i
      BY <1>2 DEF IInv, LineageIsConsistent
    <3> QED BY <1>7, <1>9, <2>1, <3>1 DEF FromParent
  <2> QED BY <1>5, <2>2, <2>3 DEF LineageIsConsistent
<1>14. EntriesShowSolution'
  <2>1. ASSUME NEW i \in 1..n, NEW e \in candidates[i].entries,
               NEW a \in candidates[i].solution, Shows(candidates[i], e, a)
        PROVE  Shows(candidates[i], Without(lost, e), a)'
    <3>1. e \in Entries
      BY <1>2 DEF CandidateRows
    <3>2. Without(lost, e).time = e.time
      BY <3>1 DEF Without, Entries
    <3>3. \A row : /\ Kept(e.lesson, row) => Kept(Without(lost, e).lesson, row)'
                   /\ Kept(e.room, row) => Kept(Without(lost, e).room, row)'
                   /\ Kept(e.teacher, row) => Kept(Without(lost, e).teacher, row)'
      BY <1>1, <3>1 DEF Without, Entries, Kept
    <3>4. ProblemOf(candidates[i])' = ProblemOf(candidates[i])
      BY <1>10
    <3> QED BY <2>1, <3>2, <3>3, <3>4 DEF Shows
  <2>2. ASSUME NEW i \in 1..n
        PROVE  ShowsSolution(candidates[i])'
    <3>1. ShowsSolution(candidates[i])
      BY <1>2 DEF IInv, EntriesShowSolution
    <3>2. \A a \in candidates[i].solution : \E e \in candidates[i].entries :
            Shows(candidates[i], Without(lost, e), a)'
      BY <2>1, <3>1 DEF ShowsSolution
    <3>3. \A e \in candidates[i].entries : \E a \in candidates[i].solution :
            Shows(candidates[i], Without(lost, e), a)'
      BY <2>1, <3>1 DEF ShowsSolution
    <3> QED BY <1>7, <3>2, <3>3 DEF ShowsSolution
  <2> QED BY <1>5, <2>2 DEF EntriesShowSolution
<1> QED BY <1>11, <1>12, <1>13, <1>14 DEF IInv

\* A round begins; a parent must fit the current revision.
LEMMA StartRoundKeeps ==
  ASSUME IInv, StartRound
  PROVE  IInv'
<1> DEFINE n == Len(candidates)
<1>1. PICK parent \in 0..n, asked \in 0..sessions :
        /\ parent # Null => ParentFits(parent)
        /\ \E session \in SessionsFor(parent, asked) :
             /\ round' = [parent |-> parent, session |-> session, snapshot |-> Revision]
             /\ sessions' = IF session > sessions THEN session ELSE sessions
  BY DEF StartRound
<1>2. PICK session \in SessionsFor(parent, asked) :
        /\ round' = [parent |-> parent, session |-> session, snapshot |-> Revision]
        /\ sessions' = IF session > sessions THEN session ELSE sessions
  BY <1>1
<1>3. /\ n \in Nat /\ DOMAIN candidates = 1..n /\ Revision \in Nat \ {0}
      /\ sessions \in Nat /\ UNCHANGED <<history, gone, candidates>>
  BY DEF IInv, TypeOK, Revision, StartRound
<1>4. parent # Null =>
        /\ parent \in 1..n /\ session = candidates[parent].session
        /\ candidates[parent].snapshot = Revision
  BY <1>1, <1>2, <1>3 DEF ParentFits, SessionsFor
<1>5. session \in Nat
  <2>1. CASE parent = Null
    BY <1>1, <1>2, <1>3, <2>1 DEF SessionsFor
  <2>2. CASE parent # Null
    BY <1>3, <1>4, <2>2 DEF IInv, TypeOK
  <2> QED BY <2>1, <2>2
<1>6. sessions' \in Nat /\ session \in 0..sessions' /\ sessions <= sessions'
  BY <1>2, <1>3, <1>5
<1>7. TypeOK'
  <2>1. round' \in Origins' /\ (round' # NoRound => round'.snapshot # Null)
    BY <1>1, <1>2, <1>3, <1>6 DEF Origins, Revision, Null
  <2>2. \A i \in DOMAIN candidates : candidates[i].session \in 0..sessions'
    BY <1>3, <1>6 DEF IInv, TypeOK
  <2> QED BY <1>3, <1>6, <2>1, <2>2 DEF IInv, TypeOK, Revision, ProblemOf
<1>8. CandidatesAreValidated' /\ EntriesShowSolution'
  BY <1>3 DEF IInv, CandidatesAreValidated, EntriesShowSolution, ShowsSolution, Shows,
              Kept, ProblemOf
<1>9. LineageIsConsistent'
  BY <1>2, <1>3, <1>4 DEF IInv, LineageIsConsistent, FromParent
<1> QED BY <1>7, <1>8, <1>9 DEF IInv

LEMMA NextKeeps ==
  ASSUME IInv, [Next]_vars
  PROVE  IInv'
<1>1. CASE Edit
  BY <1>1, EditKeeps
<1>2. CASE StartRound
  BY <1>2, StartRoundKeeps
<1>3. CASE CompleteRound
  <2>1. PICK s \in SUBSET ProblemOf(round).options :
          Validated(ProblemOf(round), s) /\ Persist(OriginOf(round), s)
    BY <1>3 DEF CompleteRound
  <2>2. OriginOf(round) = round
    BY DEF OriginOf
  <2>3. Validated(ProblemOf(round), s)
    BY <2>1
  <2>4. round \in Origins /\ round.snapshot # Null /\ FromParent(round)
    BY <1>3 DEF IInv, TypeOK, LineageIsConsistent, CompleteRound
  <2>5. UNCHANGED <<history, gone, sessions>> /\ round' = NoRound
    BY <1>3 DEF CompleteRound
  <2> QED BY <2>1, <2>2, <2>3, <2>4, <2>5, PersistKeeps
<1>4. CASE RoundEnds
  <2>1. UNCHANGED <<history, gone, candidates, sessions>> /\ round' = NoRound
    BY <1>4 DEF RoundEnds
  <2>2. TypeOK'
    BY <2>1 DEF IInv, TypeOK, Origins, Revision, ProblemOf, NoRound, Null
  <2>3. CandidatesAreValidated' /\ EntriesShowSolution'
    BY <2>1 DEF IInv, CandidatesAreValidated, EntriesShowSolution, ShowsSolution, Shows,
                Kept, ProblemOf
  <2>4. LineageIsConsistent'
    BY <2>1 DEF IInv, LineageIsConsistent, FromParent, NoRound
  <2> QED BY <2>2, <2>3, <2>4 DEF IInv
<1>5. CASE ForkWithMove
  <2>1. PICK i \in DOMAIN candidates : \E a \in ProblemOf(candidates[i]).options :
          /\ MoveAllowed(candidates[i], a)
          /\ Persist([parent |-> i, session |-> candidates[i].session,
                      snapshot |-> candidates[i].snapshot],
                     ActionsOf(ProblemOf(candidates[i]),
                               OtherEntries(candidates[i], a)) \cup {a})
    BY <1>5 DEF ForkWithMove
  <2>2. PICK c : c = candidates[i]
    OBVIOUS
  <2>3. PICK a \in ProblemOf(c).options :
          /\ MoveAllowed(c, a)
          /\ Persist([parent |-> i, session |-> c.session, snapshot |-> c.snapshot],
                     ActionsOf(ProblemOf(c), OtherEntries(c, a)) \cup {a})
    BY <2>1, <2>2
  <2>4. PICK origin :
          origin = [parent |-> i, session |-> c.session, snapshot |-> c.snapshot]
    OBVIOUS
  <2>5. ProblemOf(c) \in Problems /\ i \in 1..Len(candidates) /\ Len(candidates) \in Nat
    BY <2>2, CandidateFacts DEF IInv
  <2>6. Validated(ProblemOf(c), c.solution) /\ ShowsSolution(c)
    BY <2>2 DEF IInv, CandidatesAreValidated, EntriesShowSolution
  <2>7. c.session \in 0..sessions /\ c.snapshot \in 1..Revision /\ Revision \in Nat
    BY <2>2 DEF IInv, TypeOK, Revision
  <2>8. origin \in Origins /\ origin.snapshot # Null /\ FromParent(origin)
    BY <2>2, <2>4, <2>5, <2>7 DEF Origins, Null, FromParent
  <2>9. Validated(ProblemOf(c), ActionsOf(ProblemOf(c), OtherEntries(c, a)) \cup {a})
    BY <2>3, <2>5, <2>6, MoveIsSound DEF IInv
  <2>10. ProblemOf(origin) = ProblemOf(c)
    BY <2>4 DEF ProblemOf
  <2>11. UNCHANGED <<history, gone, sessions, round>>
    BY <1>5 DEF ForkWithMove
  <2> QED BY <2>3, <2>4, <2>8, <2>9, <2>10, <2>11, PersistKeeps
<1>6. CASE UNCHANGED vars
  BY <1>6 DEF vars, IInv, TypeOK, CandidatesAreValidated, LineageIsConsistent, FromParent,
              EntriesShowSolution, ShowsSolution, Shows, Kept, ProblemOf, Revision, Origins
<1> QED BY <1>1, <1>2, <1>3, <1>4, <1>5, <1>6 DEF Next

LEMMA Invariance == Spec => []IInv
BY InitHolds, NextKeeps, PTL DEF Spec

-----------------------------------------------------------------------------
(* The theorems.                                                           *)

\* A round and a candidate always refer to an existing parent, session and revision,
\* and a candidate only to options of its own snapshot (schema.py:240-300).
THEOREM TypeCorrect == Spec => []TypeOK
BY Invariance, PTL DEF IInv

\* However long the chain of edits, rounds and moves: every candidate places each
\* lesson of its snapshot once, no two in conflict, and within the required limits,
\* although a move compares only the lesson it moves, in one order, with rows that
\* deletions may have emptied (timetable.py:102-167).
THEOREM CandidatesStayTimetables == Spec => []CandidatesAreTimetables
<1>1. ASSUME IInv
      PROVE  CandidatesAreTimetables
  <2> SUFFICES ASSUME NEW i \in DOMAIN candidates
               PROVE  LET p == ProblemOf(candidates[i])
                          s == candidates[i].solution
                      IN  Validated(p, s) /\ (NumberedAlike(p) => IsTimetable(p, s))
    BY DEF CandidatesAreTimetables
  <2> DEFINE p == ProblemOf(candidates[i])
             s == candidates[i].solution
  <2>1. Validated(p, s)
    BY <1>1 DEF IInv, CandidatesAreValidated
  <2>2. ProblemOK(p)
    BY <1>1, CandidateFacts, ProblemFacts DEF IInv
  <2> QED BY <2>1, <2>2, ValidatedIsTimetable
<1> QED BY <1>1, Invariance, PTL

\* No move is refused that would make a timetable, and none is allowed that would
\* not, as long as nothing that the candidate refers to was deleted
\* (timetable.py:102-167).
THEOREM MovesStayExact == Spec => []MoveIsExact
<1>1. ASSUME IInv, NEW i \in DOMAIN candidates,
             References(ProblemOf(candidates[i]), candidates[i].solution) \cap gone = {},
             NumberedAlike(ProblemOf(candidates[i])),
             NEW a \in ProblemOf(candidates[i]).options
      PROVE  MoveAllowed(candidates[i], a) <=>
               IsTimetable(ProblemOf(candidates[i]),
                 (candidates[i].solution \ OptionsOf(ProblemOf(candidates[i]), a.lesson))
                    \cup {a})
  <2> DEFINE c    == candidates[i]
             p    == ProblemOf(c)
             kept == {b \in c.solution : b.lesson # a.lesson}
  <2>1. p \in Problems /\ ProblemOK(p)
    BY <1>1, CandidateFacts, ProblemFacts DEF IInv
  <2>2. Validated(p, c.solution) /\ ShowsSolution(c)
    BY <1>1 DEF IInv, CandidatesAreValidated, EntriesShowSolution
  <2>3. c.solution \ OptionsOf(p, a.lesson) = kept
    BY <2>2 DEF Validated, OptionsOf
  <2>4. Validated(p, kept \cup {a}) <=> IsTimetable(p, kept \cup {a})
    BY <1>1, <2>1, ValidatedIsTimetable
  <2>5. MoveAllowed(c, a) => Validated(p, kept \cup {a})
    BY <2>1, <2>2, OthersAreKept, MoveIsSound
  <2>6. Validated(p, kept \cup {a}) => MoveAllowed(c, a)
    BY <1>1, <2>1, <2>2, MoveIsComplete
  <2> QED BY <2>3, <2>4, <2>5, <2>6
<1>2. IInv => MoveIsExact
  BY <1>1 DEF MoveIsExact
<1> QED BY <1>2, Invariance, PTL

\* What has a parent has its session and its revision (service.py:299-303, :636).
THEOREM LineageStaysConsistent == Spec => []LineageIsConsistent
BY Invariance, PTL DEF IInv

\* The rows of a candidate show its solution, apart from what was deleted since
\* (service.py:1151-1171).
THEOREM EntriesKeepShowingSolution == Spec => []EntriesShowSolution
BY Invariance, PTL DEF IInv

\* A round in progress with a parent starts from a compatible placement of all
\* lessons of its own snapshot, as the warm start of the engines assumes
\* (service.py:299-303).
THEOREM WarmStartFits ==
  Spec => [](round.parent # Null =>
               Validated(ProblemOf(round), candidates[round.parent].solution))
<1>1. ASSUME IInv, round.parent # Null
      PROVE  Validated(ProblemOf(round), candidates[round.parent].solution)
  <2>1. round.parent \in DOMAIN candidates
    BY <1>1 DEF IInv, TypeOK, Origins, Null
  <2>2. ProblemOf(round) = ProblemOf(candidates[round.parent])
    BY <1>1 DEF IInv, LineageIsConsistent, FromParent, ProblemOf
  <2> QED BY <1>1, <2>1, <2>2 DEF IInv, CandidatesAreValidated
<1> QED BY <1>1, Invariance, PTL
=============================================================================
