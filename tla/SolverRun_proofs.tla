--------------------------- MODULE SolverRun_proofs ---------------------------
(***************************************************************************)
(* For any set of problems, of any size. The greedy engine loses no lesson *)
(* and never makes a schedule with a conflict: it compares an action with  *)
(* those that are placed in one direction only, so the proof rests on the  *)
(* symmetry of every kind of rule. The compiled model excludes exactly the *)
(* pairs of actions that conflict, so the solver's results are compatible; *)
(* with the validator, what a round accepts is a timetable. And every      *)
(* timetable satisfies the model, whose objective orders the complete ones *)
(* as their scores do: so a proved maximum and a proved optimum are right. *)
(***************************************************************************)
EXTENDS SolverRun, LessonRules_proofs

-----------------------------------------------------------------------------
(* The greedy engine.                                                      *)

\* An action of a lesson that is not placed, and that nothing is in the way of,
\* can join the plan (cgcs.py:454-471).
LEMMA FeasibleActionJoins ==
  ASSUME problem \in Problems,
         NEW plan \in SUBSET problem.options, Compatible(problem, plan),
         NEW a \in problem.options, a.lesson \notin Placed(plan),
         Blockers(plan, a) = {}
  PROVE  Compatible(problem, plan \cup {a})
<1>1. ProblemOK(problem)
  BY ProblemsAssumption
<1>2. \A b \in plan : b.lesson # a.lesson /\ ~Conflict(problem, a, b)
  BY DEF Blockers, Placed
<1> QED BY <1>1, <1>2, JoinIsCompatible

GreedyInv == GreedyTypeOK /\ Accounted /\ ScheduleIsCompatible

LEMMA GreedyInitHolds == GreedyInit => GreedyInv
BY DEF GreedyInit, GreedyInv, GreedyTypeOK, Accounted, ScheduleIsCompatible,
       Compatible, Placed

\* A lesson that joins the schedule.
LEMMA JoinKeeps ==
  ASSUME GreedyInv, NEW lesson \in NextLessons,
         NEW a \in Cheapest(schedule, Feasible(schedule, lesson)),
         schedule' = schedule \cup {a}, todo' = todo \ {lesson},
         problem' = problem, phase' = phase, failed' = failed,
         repaired' \in BOOLEAN
  PROVE  GreedyInv'
<1>1. a \in problem.options /\ a.lesson = lesson /\ Blockers(schedule, a) = {}
  BY DEF Cheapest, Feasible, OptionsOf
<1>2. lesson \in todo
  BY DEF NextLessons
<1>3. lesson \notin Placed(schedule)
  BY <1>2 DEF GreedyInv, Accounted
<1>4. Placed(schedule') = Placed(schedule) \cup {lesson}
  BY <1>1 DEF Placed
<1>5. GreedyTypeOK'
  BY <1>1 DEF GreedyInv, GreedyTypeOK
<1>6. Accounted'
  BY <1>2, <1>4 DEF GreedyInv, Accounted
<1>7. Compatible(problem, schedule \cup {a})
  BY <1>1, <1>3, FeasibleActionJoins
       DEF GreedyInv, GreedyTypeOK, ScheduleIsCompatible
<1> QED BY <1>5, <1>6, <1>7 DEF GreedyInv, ScheduleIsCompatible

\* A lesson that fails.
LEMMA FailKeeps ==
  ASSUME GreedyInv, NEW lesson \in NextLessons, LessonFails(lesson)
  PROVE  GreedyInv'
<1>1. lesson \in todo
  BY DEF NextLessons
<1>2. GreedyTypeOK'
  BY <1>1 DEF GreedyInv, GreedyTypeOK, LessonFails
<1>3. Accounted'
  BY <1>1 DEF GreedyInv, Accounted, LessonFails
<1>4. ScheduleIsCompatible'
  BY DEF GreedyInv, ScheduleIsCompatible, LessonFails
<1> QED BY <1>2, <1>3, <1>4 DEF GreedyInv

\* A lesson that joins the schedule while another one is moved.
LEMMA MoveKeeps ==
  ASSUME GreedyInv, NEW lesson \in NextLessons, NEW m \in Moves(lesson),
         schedule' = Relocated(m), todo' = todo \ {lesson},
         problem' = problem, phase' = phase, failed' = failed,
         repaired' \in BOOLEAN
  PROVE  GreedyInv'
<1> DEFINE rest == schedule \ {m.out}
           freed == rest \cup {m.in}
<1>1. /\ m.in \in problem.options /\ m.in.lesson = lesson
      /\ m.out \in schedule /\ IsMove(m)
  BY DEF Moves, OptionsOf
<1>2. /\ m.again \in problem.options /\ m.again.lesson = m.out.lesson
      /\ Blockers(freed, m.again) = {}
  BY <1>1 DEF IsMove, Cheapest, Feasible, OptionsOf
<1>3. schedule \subseteq problem.options /\ problem \in Problems
  BY DEF GreedyInv, GreedyTypeOK
<1>4. lesson \in todo /\ lesson \notin Placed(schedule)
  BY DEF NextLessons, GreedyInv, Accounted
<1>5. Compatible(problem, schedule)
  BY DEF GreedyInv, ScheduleIsCompatible
<1>6. Blockers(rest, m.in) = {}
  BY <1>1 DEF IsMove, Blockers
<1>7. Compatible(problem, rest)
  BY <1>5, SmallerIsCompatible
<1>8. m.in.lesson \notin Placed(rest)
  BY <1>1, <1>4 DEF Placed
<1>9. Compatible(problem, freed)
  BY <1>1, <1>3, <1>6, <1>7, <1>8, FeasibleActionJoins
<1>10. m.out.lesson \notin Placed(rest)
  BY <1>1, <1>5 DEF Placed, Compatible
<1>11. m.out.lesson \in Placed(schedule) /\ m.out.lesson # lesson
  BY <1>1, <1>4 DEF Placed
<1>12. m.again.lesson \notin Placed(freed)
  BY <1>1, <1>2, <1>10, <1>11 DEF Placed
<1>13. Compatible(problem, freed \cup {m.again})
  BY <1>1, <1>2, <1>3, <1>9, <1>12, FeasibleActionJoins
<1>14. schedule' = freed \cup {m.again}
  BY DEF Relocated
<1>15. Placed(schedule') = Placed(schedule) \cup {lesson}
  BY <1>1, <1>2, <1>14 DEF Placed
<1>16. GreedyTypeOK'
  BY <1>1, <1>2, <1>3, <1>14 DEF GreedyInv, GreedyTypeOK
<1>17. Accounted'
  BY <1>4, <1>15 DEF GreedyInv, Accounted
<1> QED BY <1>13, <1>14, <1>16, <1>17 DEF GreedyInv, ScheduleIsCompatible

LEMMA GreedyKeeps ==
  ASSUME GreedyInv, [GreedyNext]_greedy
  PROVE  GreedyInv'
<1>1. CASE PlaceLesson
  BY <1>1, JoinKeeps DEF PlaceLesson, GreedyInv, GreedyTypeOK
<1>2. CASE PlacingFails
  BY <1>2, FailKeeps DEF PlacingFails
<1>3. CASE RepairDirectly
  BY <1>3, JoinKeeps DEF RepairDirectly
<1>4. CASE RepairByRelocating
  BY <1>4, MoveKeeps DEF RepairByRelocating
<1>5. CASE RepairFails
  BY <1>5, FailKeeps DEF RepairFails
<1>6. CASE NextPass
  <2>1. GreedyTypeOK'
    BY <1>6 DEF NextPass, GreedyInv, GreedyTypeOK
  <2>2. Accounted'
    BY <1>6 DEF NextPass, GreedyInv, Accounted
  <2>3. ScheduleIsCompatible'
    BY <1>6 DEF NextPass, GreedyInv, ScheduleIsCompatible
  <2> QED BY <2>1, <2>2, <2>3 DEF GreedyInv
<1>7. CASE UNCHANGED greedy
  BY <1>7 DEF greedy, GreedyInv, GreedyTypeOK, Accounted, ScheduleIsCompatible
<1> QED BY <1>1, <1>2, <1>3, <1>4, <1>5, <1>6, <1>7 DEF GreedyNext

-----------------------------------------------------------------------------
(* The compiled rules.                                                     *)

LEMMA CardinalityOfTwo ==
  ASSUME NEW x, NEW y
  PROVE  /\ IsFiniteSet({x, y})
         /\ Cardinality({x, y}) = IF x = y THEN 1 ELSE 2
<1>1. IsFiniteSet({x}) /\ Cardinality({x}) = 1
  BY FS_Singleton
<1>2. /\ IsFiniteSet({x} \cup {y})
      /\ Cardinality({x} \cup {y}) = IF y \in {x} THEN 1 ELSE 2
  BY <1>1, FS_AddElement
<1>3. {x} \cup {y} = {x, y}
  OBVIOUS
<1> QED BY <1>2, <1>3

LEMMA OptionFacts ==
  ASSUME problem \in Problems
  PROVE  /\ ProblemOK(problem) /\ IsFiniteSet(problem.options)
         /\ \A a \in problem.options :
              /\ a.lesson \in problem.lessons /\ a.lesson \in Nat /\ a.index \in Nat
              /\ a.start \in Nat /\ a.length \in Nat \ {0}
              /\ a.days # {} /\ a.weeks # {}
<1>1. ProblemOK(problem)
  BY ProblemsAssumption
<1>2. problem.lessons = 1..Cardinality(problem.lessons)
  BY OrderAssumption
<1>3. Cardinality(problem.lessons) \in Nat
  BY <1>1, FS_CardinalityType DEF ProblemOK
<1>4. \A a \in problem.options : a.lesson \in Nat /\ a.index \in Nat
  BY <1>1, <1>2, <1>3, OrderAssumption DEF ProblemOK
<1> QED BY <1>1, <1>4 DEF ProblemOK

\* A bucket has a first member (cp_sat.py:609-611).
LEMMA FirstIsMember ==
  ASSUME problem \in Problems, NEW b \in SUBSET problem.options, b # {}
  PROVE  First(b) \in b
<1> DEFINE lessons == {a.lesson : a \in b}
<1>1. lessons \in SUBSET Nat /\ lessons # {}
  BY OptionFacts
<1>2. PICK l \in lessons : \A k \in lessons : l <= k
  <2> HIDE DEF lessons
  <2> QED BY <1>1, LeastNat
<1> DEFINE indices == {a.index : a \in {x \in b : x.lesson = l}}
<1>3. indices \in SUBSET Nat /\ indices # {}
  BY OptionFacts
<1>4. PICK i \in indices : \A k \in indices : i <= k
  <2> HIDE DEF indices
  <2> QED BY <1>3, LeastNat
<1>5. PICK a \in b : a.lesson = l /\ a.index = i
  OBVIOUS
<1>6. ASSUME NEW c \in b
      PROVE  a.lesson < c.lesson \/ (a.lesson = c.lesson /\ a.index <= c.index)
  <2>1. a.lesson \in Nat /\ c.lesson \in Nat /\ a.lesson <= c.lesson
    BY <1>2, <1>5, OptionFacts
  <2>2. c.lesson = l => c.index \in indices
    OBVIOUS
  <2>3. c.lesson = l => a.index <= c.index
    BY <1>4, <1>5, <2>2
  <2> QED BY <1>5, <2>1, <2>3
<1> QED BY <1>5, <1>6 DEF First

\* What a rule compares of two actions is in their signatures, and actions of one
\* signature always violate it (cp_sat.py:622-639).
LEMMA SignatureDecides ==
  ASSUME problem \in Problems, NEW rule, rule.kind \in BucketKinds,
         NEW a \in problem.options, NEW b \in problem.options,
         NEW c \in problem.options, NEW d \in problem.options,
         Signature(rule.kind, a) = Signature(rule.kind, c),
         Signature(rule.kind, b) = Signature(rule.kind, d)
  PROVE  Violates(rule, a, b) <=> Violates(rule, c, d)
<1>1. CASE rule.kind = "NotOverlap"
  <2>1. a.weeks = c.weeks /\ a.days = c.days /\ a.start = c.start /\ a.length = c.length
    BY <1>1 DEF Signature
  <2>2. b.weeks = d.weeks /\ b.days = d.days /\ b.start = d.start /\ b.length = d.length
    BY <1>1 DEF Signature
  <2> QED BY <1>1, <2>1, <2>2 DEF Violates, Overlaps, SharesWeek, SharesDay, End
<1>2. CASE rule.kind = "DifferentDays"
  <2>1. a.weeks = c.weeks /\ a.days = c.days /\ b.weeks = d.weeks /\ b.days = d.days
    BY <1>2 DEF Signature
  <2> QED BY <1>2, <2>1 DEF Violates, SharesWeek, SharesDay
<1>3. CASE rule.kind = "DifferentWeeks"
  <2>1. a.weeks = c.weeks /\ b.weeks = d.weeks
    BY <1>3 DEF Signature
  <2> QED BY <1>3, <2>1 DEF Violates, SharesWeek
<1>4. CASE rule.kind = "DifferentTime"
  <2>1. a.weeks = c.weeks /\ a.days = c.days /\ a.start = c.start
    BY <1>4 DEF Signature
  <2>2. b.weeks = d.weeks /\ b.days = d.days /\ b.start = d.start
    BY <1>4 DEF Signature
  <2> QED BY <1>4, <2>1, <2>2 DEF Violates, SharesWeek, SharesDay
<1> QED BY <1>1, <1>2, <1>3, <1>4 DEF BucketKinds

LEMMA OneSignatureViolates ==
  ASSUME problem \in Problems, NEW rule, rule.kind \in BucketKinds,
         NEW a \in problem.options, NEW b \in problem.options,
         Signature(rule.kind, a) = Signature(rule.kind, b)
  PROVE  Violates(rule, a, b)
<1>1. Violates(rule, a, a)
  <2>1. /\ a.weeks # {} /\ a.days # {} /\ a.start \in Nat /\ a.length \in Nat \ {0}
    BY OptionFacts
  <2>2. SharesWeek(a, a) /\ SharesDay(a, a) /\ Overlaps(a, a)
    BY <2>1 DEF SharesWeek, SharesDay, Overlaps, End
  <2> QED BY <2>2 DEF Violates, BucketKinds
<1> QED BY <1>1, SignatureDecides

LEMMA BucketRuleIsSymmetric ==
  ASSUME NEW rule, rule.kind \in BucketKinds, NEW a, NEW b, Violates(rule, a, b)
  PROVE  Violates(rule, b, a)
<1>1. /\ SharesWeek(a, b) <=> SharesWeek(b, a)
      /\ SharesDay(a, b) <=> SharesDay(b, a)
  BY DEF SharesWeek, SharesDay
<1>2. Overlaps(a, b) <=> Overlaps(b, a)
  BY <1>1 DEF Overlaps
<1> QED BY <1>1, <1>2 DEF Violates, BucketKinds

\* The groups and pairs made of some actions, where a rule compares them by their
\* buckets.
BucketsExclude(rule, actions, l, r) ==
  \/ {l, r} \in DifferentLessons(BucketPairs(rule, actions))
  \/ \E g \in Groups(rule.kind, actions) : {l, r} \in DifferentLessons(Pairs(g))

\* Comparing the first members of two buckets is enough: two actions of different
\* lessons are in one group, or in two buckets that exclude each other, exactly if
\* they violate the rule (cp_sat.py:586-619).
LEMMA BucketsAreExact ==
  ASSUME problem \in Problems, NEW rule, rule.kind \in BucketKinds,
         NEW actions \in SUBSET problem.options,
         NEW l \in problem.options, NEW r \in problem.options, l.lesson # r.lesson
  PROVE  BucketsExclude(rule, actions, l, r)
           <=> l \in actions /\ r \in actions /\ Violates(rule, l, r)
<1> DEFINE kind == rule.kind
           B(a) == {b \in actions : Signature(kind, b) = Signature(kind, a)}
<1>1. Placed({l, r}) = {l.lesson, r.lesson}
  BY DEF Placed
<1>2. Cardinality(Placed({l, r})) = 2 /\ Cardinality({l, r}) = 2
  <2>1. Cardinality({l.lesson, r.lesson}) = 2
    BY CardinalityOfTwo
  <2>2. l # r
    OBVIOUS
  <2>3. Cardinality({l, r}) = 2
    BY <2>2, CardinalityOfTwo
  <2> QED BY <1>1, <2>1, <2>3
<1>3. ASSUME NEW a \in actions
      PROVE  /\ a \in B(a) /\ B(a) \in Buckets(kind, actions)
             /\ First(B(a)) \in actions
             /\ Signature(kind, First(B(a))) = Signature(kind, a)
  <2>1. a \in B(a) /\ B(a) \in SUBSET problem.options
    OBVIOUS
  <2>2. First(B(a)) \in B(a)
    BY <2>1, FirstIsMember
  <2>3. B(a) \in Buckets(kind, actions)
    BY DEF Buckets
  <2> QED BY <2>1, <2>2, <2>3
<1>4. \A b \in Buckets(kind, actions) : \E a \in actions : b = B(a)
  BY DEF Buckets
<1>5. ASSUME NEW a \in actions, NEW c \in B(a), NEW b \in actions, NEW d \in B(b)
      PROVE  Violates(rule, First(B(a)), First(B(b))) <=> Violates(rule, c, d)
  <2>1. /\ First(B(a)) \in problem.options /\ First(B(b)) \in problem.options
        /\ c \in problem.options /\ d \in problem.options
    BY <1>3
  <2>2. /\ Signature(kind, First(B(a))) = Signature(kind, c)
        /\ Signature(kind, First(B(b))) = Signature(kind, d)
    BY <1>3
  <2> HIDE DEF B
  <2> QED BY <2>1, <2>2, SignatureDecides
<1>6. ASSUME {l, r} \in DifferentLessons(BucketPairs(rule, actions))
      PROVE  l \in actions /\ r \in actions /\ Violates(rule, l, r)
  <2>1. {l, r} \in BucketPairs(rule, actions)
    BY <1>6 DEF DifferentLessons
  <2>2. PICK left \in Buckets(kind, actions), right \in Buckets(kind, actions) :
          /\ Violates(rule, First(left), First(right))
          /\ \E c \in left, d \in right : {l, r} = {c, d}
    BY <2>1 DEF BucketPairs
  <2>3. PICK a \in actions, b \in actions : left = B(a) /\ right = B(b)
    BY <1>4
  <2>4. PICK c \in B(a), d \in B(b) : {l, r} = {c, d}
    BY <2>2, <2>3
  <2>5. Violates(rule, c, d)
    BY <1>5, <2>2, <2>3
  <2>6. (l = c /\ r = d) \/ (l = d /\ r = c)
    BY <2>4
  <2> QED BY <2>5, <2>6, BucketRuleIsSymmetric
<1>7. ASSUME NEW g \in Groups(kind, actions), {l, r} \in DifferentLessons(Pairs(g))
      PROVE  l \in actions /\ r \in actions /\ Violates(rule, l, r)
  <2>1. {l, r} \subseteq g /\ g \in Buckets(kind, actions)
    BY <1>7 DEF DifferentLessons, Pairs, Groups
  <2>2. PICK a \in actions : g = B(a)
    BY <1>4, <2>1
  <2>3. /\ l \in actions /\ r \in actions
        /\ Signature(kind, l) = Signature(kind, r)
    BY <2>1, <2>2
  <2> QED BY <2>3, OneSignatureViolates
<1>8. ASSUME l \in actions, r \in actions, Violates(rule, l, r)
      PROVE  BucketsExclude(rule, actions, l, r)
  <2>1. CASE Signature(kind, l) = Signature(kind, r)
    <3>1. {l, r} \subseteq B(l) /\ B(l) \in Buckets(kind, actions)
      BY <1>3, <1>8, <2>1
    <3>2. Placed({l, r}) \subseteq Placed(B(l))
      BY <3>1 DEF Placed
    <3>3. IsFiniteSet(Placed(B(l)))
      <4>1. ProblemOK(problem) /\ Placed(B(l)) \subseteq problem.lessons
        BY OptionFacts DEF Placed
      <4> QED BY <4>1, FS_Subset DEF ProblemOK
    <3>4. Cardinality(Placed(B(l))) >= 2
      <4> DEFINE two == Placed({l, r})
                 all == Placed(B(l))
      <4>1. Cardinality(two) <= Cardinality(all) /\ Cardinality(all) \in Nat
        <5> HIDE DEF two, all, B
        <5> QED BY <3>2, <3>3, FS_Subset, FS_CardinalityType DEF two, all
      <4> QED BY <1>2, <4>1
    <3>5. B(l) \in Groups(kind, actions)
      BY <3>1, <3>4 DEF Groups
    <3>6. {l, r} \in DifferentLessons(Pairs(B(l)))
      BY <1>2, <3>1 DEF DifferentLessons, Pairs
    <3> HIDE DEF B
    <3> QED BY <3>5, <3>6 DEF BucketsExclude
  <2>2. CASE Signature(kind, l) # Signature(kind, r)
    <3>1. B(l) # B(r)
      BY <1>3, <1>8, <2>2
    <3>2. Violates(rule, First(B(l)), First(B(r)))
      BY <1>3, <1>5, <1>8
    <3>3. l \in B(l) /\ r \in B(r) /\ {B(l), B(r)} \subseteq Buckets(kind, actions)
      BY <1>3, <1>8
    <3>4. {l, r} \in BucketPairs(rule, actions)
      <4> HIDE DEF B
      <4> QED BY <3>1, <3>2, <3>3 DEF BucketPairs
    <3>5. {l, r} \in DifferentLessons(BucketPairs(rule, actions))
      BY <1>2, <3>4 DEF DifferentLessons
    <3> QED BY <3>5 DEF BucketsExclude
  <2> QED BY <2>1, <2>2
<1> QED BY <1>6, <1>7, <1>8 DEF BucketsExclude

\* The compiled model excludes two actions of different lessons exactly if they
\* conflict (cp_sat.py:376-462, :586-619).
LEMMA RulesAreExact ==
  ASSUME problem \in Problems,
         NEW l \in problem.options, NEW r \in problem.options, l.lesson # r.lesson
  PROVE  {l, r} \in Excluded <=> Conflict(problem, l, r)
<1> DEFINE Others == {x \in problem.rules \ BucketRules : x.required}
           ByRoom == \E room \in Rooms : BucketsExclude(RoomRule, RoomActions(room), l, r)
           ByBuckets == \E rule \in BucketRules :
                          BucketsExclude(rule, RuleActions(rule), l, r)
           ByPairs == \E rule \in Others : {l, r} \in PairsOf(rule)
<1>1. {l, r} \in Excluded <=> ByRoom \/ ByBuckets \/ ByPairs
  <2>1. RoomRule.kind = "NotOverlap"
    BY DEF RoomRule
  <2>2. {l, r} \in HardPairs
          <=> \/ \E room \in Rooms :
                   {l, r} \in DifferentLessons(BucketPairs(RoomRule, RoomActions(room)))
              \/ \E rule \in BucketRules :
                   {l, r} \in DifferentLessons(BucketPairs(rule, RuleActions(rule)))
              \/ ByPairs
    BY DEF HardPairs
  <2>3. {l, r} \in UNION {DifferentLessons(Pairs(g)) : g \in HardGroups}
          <=> \/ \E room \in Rooms : \E g \in Groups(RoomRule.kind, RoomActions(room)) :
                   {l, r} \in DifferentLessons(Pairs(g))
              \/ \E rule \in BucketRules : \E g \in Groups(rule.kind, RuleActions(rule)) :
                   {l, r} \in DifferentLessons(Pairs(g))
    BY <2>1 DEF HardGroups
  <2> QED BY <2>2, <2>3 DEF Excluded, BucketsExclude
<1>2. ProblemOK(problem)
  BY OptionFacts
<1>3. ByRoom <=> RoomClash(l, r)
  <2>1. RoomRule.kind \in BucketKinds
    BY DEF RoomRule, BucketKinds
  <2>2. Violates(RoomRule, l, r) <=> Overlaps(l, r)
    BY DEF RoomRule, Violates
  <2>3. \A room : BucketsExclude(RoomRule, RoomActions(room), l, r)
                    <=> l.room = room /\ r.room = room /\ Overlaps(l, r)
    <3>1. \A room : RoomActions(room) \in SUBSET problem.options
      BY DEF RoomActions
    <3>2. \A room : BucketsExclude(RoomRule, RoomActions(room), l, r)
            <=> l \in RoomActions(room) /\ r \in RoomActions(room)
                /\ Violates(RoomRule, l, r)
      BY <2>1, <3>1, BucketsAreExact
    <3> QED BY <2>2, <3>2 DEF RoomActions
  <2>4. \A room : room \in Rooms
                    <=> room # NoRoom /\ \E a \in problem.options : a.room = room
    BY DEF Rooms
  <2> HIDE DEF ByRoom
  <2> QED BY <2>3, <2>4 DEF RoomClash, ByRoom
<1>4. ASSUME NEW rule \in BucketRules
      PROVE  BucketsExclude(rule, RuleActions(rule), l, r)
               <=> {l.lesson, r.lesson} \subseteq LessonsOf(rule) /\ Violates(rule, l, r)
  <2>1. rule.kind \in BucketKinds /\ RuleActions(rule) \in SUBSET problem.options
    BY DEF BucketRules, RuleActions
  <2>2. BucketsExclude(rule, RuleActions(rule), l, r)
          <=> l \in RuleActions(rule) /\ r \in RuleActions(rule) /\ Violates(rule, l, r)
    BY <2>1, BucketsAreExact
  <2> QED BY <2>2 DEF RuleActions
<1>5. ASSUME NEW rule \in Others
      PROVE  {l, r} \in PairsOf(rule)
               <=> {l.lesson, r.lesson} \subseteq LessonsOf(rule) /\ Violates(rule, l, r)
  <2>1. ASSUME {l.lesson, r.lesson} \subseteq LessonsOf(rule), Violates(rule, l, r)
        PROVE  {l, r} \in PairsOf(rule)
    BY <2>1 DEF PairsOf, RuleActions
  <2>2. ASSUME {l, r} \in PairsOf(rule)
        PROVE  {l.lesson, r.lesson} \subseteq LessonsOf(rule) /\ Violates(rule, l, r)
    <3>1. PICK a \in RuleActions(rule), b \in RuleActions(rule) :
            {l, r} = {a, b} /\ Violates(rule, a, b)
      BY <2>2 DEF PairsOf
    <3>2. /\ a \in problem.options /\ a.lesson \in LessonsOf(rule)
          /\ b \in problem.options /\ b.lesson \in LessonsOf(rule)
      BY DEF RuleActions
    <3>3. Violates(rule, b, a)
      BY <1>2, <3>1, <3>2, ViolatesIsSymmetric
    <3>4. (l = a /\ r = b) \/ (l = b /\ r = a)
      BY <3>1
    <3> QED BY <3>1, <3>2, <3>3, <3>4
  <2> QED BY <2>1, <2>2
<1>6. ByBuckets \/ ByPairs <=> Broken(problem, l, r, TRUE) # {}
  <2>1. \A x : x \in BucketRules \cup Others <=> x \in problem.rules /\ x.required = TRUE
    BY <1>2 DEF BucketRules, ProblemOK
  <2> HIDE DEF Others
  <2>2. ByBuckets \/ ByPairs
          <=> \E rule \in BucketRules \cup Others :
                {l.lesson, r.lesson} \subseteq LessonsOf(rule) /\ Violates(rule, l, r)
    BY <1>4, <1>5
  <2> HIDE DEF ByBuckets, ByPairs
  <2> QED BY <2>1, <2>2 DEF Broken
<1> HIDE DEF ByRoom, ByBuckets, ByPairs
<1> QED BY <1>1, <1>3, <1>6 DEF Conflict

\* The solver's results are compatible: the assignments that satisfy the compiled
\* rules choose at most one action of a lesson, and no two that exclude each other.
LEMMA ChosenIsCompatible ==
  ASSUME problem \in Problems, NEW s \in Selections,
         \A g \in HardGroups : Cardinality(s \cap g) <= 1,
         \A p \in HardPairs : ~ p \subseteq s
  PROVE  Compatible(problem, s)
<1>1. s \subseteq problem.options /\ IsFiniteSet(s)
  BY OptionFacts, FS_Subset DEF Selections
<1> SUFFICES ASSUME NEW l \in s, NEW r \in s, l # r
             PROVE  l.lesson # r.lesson /\ ~Conflict(problem, l, r)
  BY DEF Compatible
<1>2. l.lesson # r.lesson
  BY DEF Selections
<1>3. ASSUME {l, r} \in HardPairs
      PROVE  FALSE
  BY <1>3
<1>4. ASSUME NEW g \in HardGroups, {l, r} \in DifferentLessons(Pairs(g))
      PROVE  FALSE
  <2>1. {l, r} \subseteq s \cap g /\ Cardinality({l, r}) = 2
    BY <1>4 DEF DifferentLessons, Pairs
  <2>2. IsFiniteSet(s \cap g) /\ Cardinality(s \cap g) \in Nat
    BY <1>1, FS_Subset, FS_CardinalityType
  <2>3. Cardinality({l, r}) <= Cardinality(s \cap g)
    BY <2>1, <2>2, FS_Subset
  <2> QED BY <2>1, <2>2, <2>3
<1>5. {l, r} \notin Excluded
  BY <1>3, <1>4 DEF Excluded
<1> QED BY <1>1, <1>2, <1>5, RulesAreExact

LEMMA SolutionFacts ==
  ASSUME problem \in Problems, NEW s \in Solutions
  PROVE  /\ s \subseteq problem.options /\ s \in Selections
         /\ Compatible(problem, s)
         /\ \A limit \in problem.limits : limit.required => Within(limit, s)
<1>1. /\ s \in Selections
      /\ \A g \in HardGroups : Cardinality(s \cap g) <= 1
      /\ \A p \in HardPairs : ~ p \subseteq s
      /\ \A limit \in {x \in problem.limits : x.required} : Within(limit, s)
  BY DEF Solutions
<1>2. Compatible(problem, s)
  BY <1>1, ChosenIsCompatible
<1> QED BY <1>1, <1>2 DEF Selections

-----------------------------------------------------------------------------
(* The run.                                                                *)

\* The verdict is that of the validation, and a round waits for it.
RunInv ==
  /\ TypeOK /\ ScheduleIsCompatible
  /\ stage # "starting" => phase = "done"
  /\ outcome # "solving" => stage = "settled"
  /\ outcome = "succeeded" => Validated(problem, schedule)

\* A step that takes a result of the solver, or keeps the schedule there is.
LEMMA ResultKeeps ==
  ASSUME RunInv, stage \in {"starting", "feasible"}, phase = "done",
         schedule' \in Solutions \/ schedule' = schedule,
         UNCHANGED <<problem, phase, todo, failed, repaired, outcome>>,
         stage' \in {"feasible", "solved"},
         {feasibility', quality', reported'} \subseteq Statuses
  PROVE  RunInv'
<1>1. problem \in Problems /\ outcome = "solving"
  BY DEF RunInv, TypeOK, GreedyTypeOK
<1>2. schedule' \subseteq problem.options /\ Compatible(problem, schedule')
  BY <1>1, SolutionFacts DEF RunInv, TypeOK, GreedyTypeOK, ScheduleIsCompatible
<1>3. GreedyTypeOK'
  BY <1>2 DEF RunInv, TypeOK, GreedyTypeOK
<1>4. TypeOK'
  BY <1>1, <1>3 DEF RunInv, TypeOK
<1>5. ScheduleIsCompatible'
  BY <1>2 DEF ScheduleIsCompatible
<1> QED BY <1>1, <1>4, <1>5 DEF RunInv

LEMMA RunInitHolds == Init => RunInv
<1> SUFFICES ASSUME Init PROVE RunInv
  OBVIOUS
<1>1. CASE GreedyInit
  <2>1. GreedyInv
    BY <1>1, GreedyInitHolds
  <2> QED BY <2>1 DEF Init, RunInv, TypeOK, Statuses, GreedyInv
<1>2. CASE /\ problem \in Problems /\ schedule \in Parents(problem)
           /\ phase = "done" /\ todo = {} /\ failed = {} /\ repaired = FALSE
  <2>1. /\ schedule \subseteq problem.options /\ Compatible(problem, schedule)
        /\ Placed(schedule) = problem.lessons
    BY <1>2 DEF Parents, Validated
  <2>2. GreedyTypeOK /\ Accounted
    BY <1>2, <2>1 DEF GreedyTypeOK, Accounted
  <2> QED BY <1>2, <2>1, <2>2 DEF Init, RunInv, TypeOK, Statuses, ScheduleIsCompatible
<1> QED BY <1>1, <1>2 DEF Init

LEMMA RunKeeps ==
  ASSUME RunInv, [Next]_vars
  PROVE  RunInv'
<1>1. problem \in Problems /\ {feasibility, quality, reported} \subseteq Statuses
  BY DEF RunInv, TypeOK, GreedyTypeOK
<1>2. {"OPTIMAL", "FEASIBLE", "UNKNOWN"} \subseteq Statuses
  BY DEF Statuses
<1>3. CASE Greedy
  <2>1. phase # "done"
    BY <1>3 DEF Greedy, GreedyNext, PlaceLesson, PlacingFails, RepairDirectly,
                RepairByRelocating, RepairFails, NextPass
  <2>2. stage = "starting" /\ outcome = "solving"
    BY <2>1 DEF RunInv, TypeOK
  <2>3. GreedyInv
    BY <2>2 DEF RunInv, TypeOK, GreedyInv
  <2>4. GreedyInv'
    BY <1>3, <2>3, GreedyKeeps DEF Greedy
  <2> QED BY <1>3, <2>2, <2>4 DEF Greedy, solver, RunInv, TypeOK, GreedyInv
<1>4. CASE ReturnStart
  BY <1>1, <1>2, <1>4, ResultKeeps DEF ReturnStart, Started, greedy
<1>5. CASE SolveOptimal
  <2>1. schedule' \in Solutions
    BY <1>5 DEF SolveOptimal, Solve, Largest
  <2> QED BY <1>1, <1>2, <1>5, <2>1, ResultKeeps DEF SolveOptimal, Solve, Started
<1>6. CASE SolveFeasible
  BY <1>1, <1>2, <1>6, ResultKeeps DEF SolveFeasible, Solve, Started
<1>7. CASE SolveNothing
  BY <1>1, <1>2, <1>7, ResultKeeps DEF SolveNothing, Solve, Started
<1>8. stage = "feasible" => phase = "done"
  BY DEF RunInv
<1>9. CASE ImproveOptimal
  <2>1. schedule' \in Solutions
    BY <1>9 DEF ImproveOptimal, Improve, Best, SameCount
  <2> QED BY <1>1, <1>2, <1>8, <1>9, <2>1, ResultKeeps
      DEF ImproveOptimal, Improve, StatusAfter
<1>10. CASE ImproveFeasible
  <2>1. schedule' \in Solutions
    BY <1>10 DEF ImproveFeasible, Improve, SameCount
  <2> QED BY <1>1, <1>2, <1>8, <1>10, <2>1, ResultKeeps
      DEF ImproveFeasible, Improve, StatusAfter
<1>11. CASE ImproveNothing
  BY <1>1, <1>2, <1>8, <1>11, ResultKeeps DEF ImproveNothing, Improve, StatusAfter
<1>12. CASE NoTimeLeft
  BY <1>1, <1>8, <1>12, ResultKeeps DEF NoTimeLeft, greedy
<1>13. CASE CompleteRound
  <2>1. UNCHANGED greedy
    BY <1>13 DEF CompleteRound
  <2>2. GreedyTypeOK' /\ ScheduleIsCompatible'
    BY <2>1 DEF greedy, RunInv, TypeOK, GreedyTypeOK, ScheduleIsCompatible
  <2>3. outcome' = "succeeded" => Validated(problem, schedule)
    BY <1>13 DEF CompleteRound, Complete, HardIssues, RunInv, TypeOK, GreedyTypeOK,
                 ScheduleIsCompatible, Validated
  <2>4. /\ stage' = "settled" /\ outcome' \in {"succeeded", "infeasible"}
        /\ {feasibility', quality', reported'} \subseteq Statuses /\ phase' = "done"
    BY <1>1, <1>13, <2>1 DEF CompleteRound, greedy, RunInv
  <2> QED BY <2>1, <2>2, <2>3, <2>4 DEF greedy, RunInv, TypeOK
<1>14. CASE UNCHANGED vars
  BY <1>14 DEF vars, greedy, solver, RunInv, TypeOK, GreedyTypeOK, Accounted,
               ScheduleIsCompatible
<1> QED BY <1>3, <1>4, <1>5, <1>6, <1>7, <1>9, <1>10, <1>11, <1>12, <1>13, <1>14
        DEF Next

\* Types, and that the greedy engine loses no lesson (cgcs.py:109-190).
THEOREM TypeCorrect == Spec => []TypeOK
<1>1. RunInv => TypeOK
  BY DEF RunInv
<1> QED BY <1>1, RunInitHolds, RunKeeps, PTL DEF Spec

\* No two lessons of the schedule ever conflict, however it came about: placed one
\* by one, moved for the sake of others, taken from a parent or found by the solver
\* (cgcs.py:100-258, cp_sat.py:150-234).
THEOREM ScheduleStaysCompatible == Spec => []ScheduleIsCompatible
<1>1. RunInv => ScheduleIsCompatible
  BY DEF RunInv
<1> QED BY <1>1, RunInitHolds, RunKeeps, PTL DEF Spec

\* The compiled model excludes exactly the pairs that conflict, for every problem
\* (cp_sat.py:586-619).
THEOREM CompiledRulesStayExact == Spec => []CompiledRulesAreExact
<1>1. RunInv => CompiledRulesAreExact
  BY RulesAreExact DEF RunInv, TypeOK, GreedyTypeOK, CompiledRulesAreExact
<1> QED BY <1>1, RunInitHolds, RunKeeps, PTL DEF Spec

\* A round that succeeds has a complete timetable that respects every rule and
\* every required limit (service.py:413-424).
THEOREM AcceptedStaysTimetable == Spec => []AcceptedIsTimetable
<1>1. ASSUME RunInv, outcome = "succeeded", NumberedAlike(problem)
      PROVE  schedule \in Timetables
  <2>1. ProblemOK(problem) /\ Validated(problem, schedule)
    BY <1>1, OptionFacts DEF RunInv, TypeOK, GreedyTypeOK
  <2>2. IsTimetable(problem, schedule)
    BY <1>1, <2>1, ValidatedIsTimetable
  <2> QED BY <2>2 DEF Timetables, TimetablesOf, IsTimetable
<1>2. RunInv => AcceptedIsTimetable
  BY <1>1 DEF RunInv, AcceptedIsTimetable
<1> QED BY <1>2, RunInitHolds, RunKeeps, PTL DEF Spec

-----------------------------------------------------------------------------
(* The lessons the greedy engine gives up on.                              *)

LEMMA PriceIsNat ==
  ASSUME problem \in Problems, NEW plan \in SUBSET problem.options,
         NEW a \in problem.options
  PROVE  Price(plan, a) \in Nat
<1>1. ProblemOK(problem) /\ a.cost \in Nat
  BY ProblemsAssumption DEF ProblemOK
<1>2. \A b \in plan : BrokenCost(problem, a, b) \in Nat
  BY <1>1, BrokenCostIsNat
<1> DEFINE g == [b \in plan |-> BrokenCost(problem, a, b)]
<1>3. IsFiniteSet(plan)
  BY <1>1, FS_Subset DEF ProblemOK
<1>4. Total(g) \in Nat
  BY <1>2, <1>3, TotalIsNat
<1> QED BY <1>1, <1>4 DEF Price

LEMMA CheapestExists ==
  ASSUME problem \in Problems, NEW plan \in SUBSET problem.options,
         NEW actions \in SUBSET problem.options, actions # {}
  PROVE  Cheapest(plan, actions) # {}
<1> DEFINE prices == {Price(plan, a) : a \in actions}
<1>1. prices \in SUBSET Nat /\ prices # {}
  BY PriceIsNat
<1>2. PICK x \in prices : \A y \in prices : x <= y
  <2> HIDE DEF prices
  <2> QED BY <1>1, LeastNat
<1> QED BY <1>2 DEF Cheapest

\* A lesson that has no feasible action and no move does not fit into the schedule,
\* not even if another lesson goes elsewhere.
LEMMA HopelessHasNoPlace ==
  ASSUME problem \in Problems, schedule \subseteq problem.options,
         ScheduleIsCompatible, NEW l, l \notin Placed(schedule),
         Feasible(schedule, l) = {}, Moves(l) = {},
         NEW s \in SUBSET problem.options,
         Placed(s) = Placed(schedule) \cup {l},
         Cardinality(schedule \ s) <= 1, Compatible(problem, s)
  PROVE  FALSE
<1>1. ProblemOK(problem) /\ Compatible(problem, schedule)
  BY ProblemsAssumption DEF ScheduleIsCompatible
<1>2. PICK a \in s : a.lesson = l
  BY DEF Placed
<1>3. a \in problem.options /\ a \notin schedule /\ a \in OptionsOf(problem, l)
  BY <1>2 DEF Placed, OptionsOf
<1>4. \A b \in s : b # a => ~Conflict(problem, a, b)
  BY <1>2 DEF Compatible
<1>5. Blockers(schedule, a) # {}
  BY <1>3 DEF Feasible
<1>6. PICK o \in schedule : Conflict(problem, a, o) /\ o \in Blockers(schedule, a)
  BY <1>5 DEF Blockers
<1>7. o \notin s
  BY <1>3, <1>4, <1>6
<1>8. ASSUME NEW b \in schedule, b \notin s, b # o
      PROVE  FALSE
  <2>1. IsFiniteSet(schedule \ s)
    BY <1>1, FS_Subset DEF ProblemOK
  <2>2. {b, o} \subseteq schedule \ s /\ Cardinality({b, o}) = 2
    BY <1>7, <1>8, CardinalityOfTwo
  <2>3. 2 <= Cardinality(schedule \ s) /\ Cardinality(schedule \ s) \in Nat
    BY <2>1, <2>2, FS_Subset, FS_CardinalityType
  <2> QED BY <2>3
<1>9. schedule \ {o} \subseteq s
  BY <1>8
<1>10. Blockers(schedule, a) = {o}
  BY <1>3, <1>4, <1>6, <1>9 DEF Blockers
<1> DEFINE freed == (schedule \ {o}) \cup {a}
<1>11. freed \subseteq s /\ freed \in SUBSET problem.options
  BY <1>9
<1>12. PICK n \in s : n.lesson = o.lesson
  BY DEF Placed
<1>13. n \notin freed
  BY <1>1, <1>2, <1>6, <1>7, <1>12 DEF Compatible, Placed
<1>14. Blockers(freed, n) = {}
  BY <1>11, <1>12, <1>13 DEF Blockers, Compatible
<1>15. Feasible(freed, o.lesson) # {} /\ Feasible(freed, o.lesson) \subseteq problem.options
  BY <1>12, <1>14 DEF Feasible, OptionsOf
<1>16. PICK again \in Cheapest(freed, Feasible(freed, o.lesson)) : TRUE
  BY <1>11, <1>15, CheapestExists
<1>17. Conflict(problem, o, a)
  BY <1>1, <1>3, <1>6, ConflictIsSymmetric
<1>18. again \in problem.options /\ again # o
  BY <1>15, <1>16, <1>17 DEF Cheapest, Feasible, Blockers
<1> DEFINE m == [in |-> a, out |-> o, again |-> again]
<1>19. IsMove(m)
  BY <1>10, <1>16, <1>18 DEF IsMove
<1>20. m \in Moves(l)
  BY <1>3, <1>18, <1>19 DEF Moves
<1> QED BY <1>20

\* In a pass of the repair that places nothing the schedule stays as it is, so what
\* held of a lesson when it failed holds at the end of the pass.
Hopeless == \A l \in failed : Feasible(schedule, l) = {} /\ Moves(l) = {}

FailInv ==
  \/ phase = "repairing" /\ ~repaired
  \/ stage = "starting" /\ phase = "done"
  => Hopeless

LEMMA SamePlaces ==
  ASSUME UNCHANGED <<problem, schedule>>
  PROVE  \A l : /\ Feasible(schedule, l)' = Feasible(schedule, l)
                /\ Moves(l)' = Moves(l)
<1>1. \A plan, a : Blockers(plan, a)' = Blockers(plan, a)
  BY DEF Blockers
<1>2. \A plan, a : Price(plan, a)' = Price(plan, a)
  BY DEF Price
<1>3. \A plan, l : Feasible(plan, l)' = Feasible(plan, l)
  BY <1>1 DEF Feasible
<1>4. \A plan, actions : Cheapest(plan, actions)' = Cheapest(plan, actions)
  BY <1>2 DEF Cheapest
<1>5. \A m : IsMove(m)' <=> IsMove(m)
  BY <1>1, <1>3, <1>4 DEF IsMove
<1>6. \A l : Moves(l)' = Moves(l)
  BY <1>5 DEF Moves
<1> QED BY <1>3, <1>6

LEMMA FailInitHolds == Init => FailInv
BY DEF Init, GreedyInit, FailInv, Hopeless

LEMMA FailKept ==
  ASSUME RunInv, FailInv, [Next]_vars
  PROVE  FailInv'
<1>1. CASE PlaceLesson
  BY <1>1 DEF PlaceLesson, FailInv
<1>2. CASE PlacingFails
  BY <1>2 DEF PlacingFails, LessonFails, FailInv
<1>3. CASE RepairDirectly
  BY <1>3 DEF RepairDirectly, FailInv
<1>4. CASE RepairByRelocating
  BY <1>4 DEF RepairByRelocating, FailInv
<1>5. CASE RepairFails
  <2>1. PICK l : Moves(l) = {} /\ LessonFails(l)
    BY <1>5 DEF RepairFails
  <2>2. UNCHANGED <<problem, schedule, phase, repaired>> /\ failed' = failed \cup {l}
    BY <2>1 DEF LessonFails
  <2>3. phase = "repairing" /\ Feasible(schedule, l) = {}
    BY <1>5, <2>1 DEF RepairFails, LessonFails
  <2>4. Hopeless => Hopeless'
    BY <2>1, <2>2, <2>3, SamePlaces DEF Hopeless
  <2> QED BY <2>2, <2>3, <2>4 DEF FailInv
<1>6. CASE NextPass /\ UNCHANGED solver
  <2>1. CASE Exhausted
    <3>1. UNCHANGED <<problem, schedule, failed>>
      BY <1>6, <2>1 DEF NextPass
    <3>2. Hopeless
      BY <2>1 DEF Exhausted, FailInv, Hopeless
    <3>3. Hopeless'
      BY <3>1, <3>2, SamePlaces DEF Hopeless
    <3> QED BY <3>3 DEF FailInv
  <2>2. CASE ~Exhausted
    BY <1>6, <2>2 DEF NextPass, FailInv, Hopeless
  <2> QED BY <2>1, <2>2
<1>7. CASE stage' # "starting" /\ phase' # "repairing"
  BY <1>7 DEF FailInv
<1>8. CASE UNCHANGED vars
  BY <1>8, SamePlaces DEF vars, greedy, solver, FailInv, Hopeless
<1>9. CASE Next /\ ~Greedy
  <2>1. stage' \in {"feasible", "solved", "settled"} /\ phase' = phase
    BY <1>9 DEF Next, ReturnStart, SolveOptimal, SolveFeasible, SolveNothing, Solve,
                ImproveOptimal, ImproveFeasible, ImproveNothing, Improve, NoTimeLeft,
                CompleteRound, greedy
  <2>2. phase = "done"
    BY <1>9 DEF RunInv, Next, ReturnStart, SolveOptimal, SolveFeasible, SolveNothing,
                Solve, ImproveOptimal, ImproveFeasible, ImproveNothing, Improve,
                NoTimeLeft, CompleteRound, Started
  <2> QED BY <1>7, <2>1, <2>2
<1> QED BY <1>1, <1>2, <1>3, <1>4, <1>5, <1>6, <1>8, <1>9 DEF Next, Greedy, GreedyNext

\* When the repair gives up on a lesson, no compatible schedule has this lesson too
\* and differs in the place of at most one other (cgcs.py:162-258).
THEOREM FailedHaveNoPlaceLeft == Spec => []FailedHaveNoPlace
<1>1. ASSUME RunInv, FailInv, stage = "starting", phase = "done", NEW l \in failed,
             NEW s \in SUBSET problem.options,
             Placed(s) = Placed(schedule) \cup {l},
             Cardinality(schedule \ s) <= 1, Compatible(problem, s)
      PROVE  FALSE
  <2>1. /\ problem \in Problems /\ schedule \subseteq problem.options
        /\ ScheduleIsCompatible /\ l \notin Placed(schedule)
    BY <1>1 DEF RunInv, TypeOK, GreedyTypeOK, Accounted
  <2>2. Feasible(schedule, l) = {} /\ Moves(l) = {}
    BY <1>1 DEF FailInv, Hopeless
  <2> QED BY <1>1, <2>1, <2>2, HopelessHasNoPlace
<1>2. RunInv /\ FailInv => FailedHaveNoPlace
  BY <1>1 DEF FailedHaveNoPlace
<1> QED BY <1>2, RunInitHolds, RunKeeps, FailInitHolds, FailKept, PTL DEF Spec

-----------------------------------------------------------------------------
(* The compiled limits.                                                    *)

\* Actions of different lessons of a limit on consecutive periods take different
\* periods of a day, if they have the same weeks: the lessons are of one owner.
OneByOne(limit, s, day) ==
  \A a, b \in OnDay(limit, s, day) : a # b => Periods(a) \cap Periods(b) = {}

LEMMA OwnersMeetOnce ==
  ASSUME problem \in Problems, NEW limit \in problem.limits,
         limit.kind = "consecutive_limit",
         SameWeeks(limit), OneNumbering(problem, limit),
         NEW s \in SUBSET problem.options, Compatible(problem, s), NEW day
  PROVE  OneByOne(limit, s, day)
<1> SUFFICES ASSUME NEW a \in OnDay(limit, s, day), NEW b \in OnDay(limit, s, day),
                    a # b, NEW x \in Periods(a) \cap Periods(b)
             PROVE  FALSE
  BY DEF OneByOne
<1>1. ProblemOK(problem)
  BY ProblemsAssumption
<1>2. /\ a \in s /\ a.lesson \in limit.lessons /\ day \in a.days
      /\ b \in s /\ b.lesson \in limit.lessons /\ day \in b.days
  BY DEF OnDay
<1>3. /\ a.start \in Nat /\ a.period \in Nat /\ a.length \in Nat \ {0} /\ a.weeks # {}
      /\ b.start \in Nat /\ b.period \in Nat /\ b.length \in Nat \ {0}
  BY <1>1, <1>2 DEF ProblemOK
<1>4. a.weeks = b.weeks
  BY <1>2 DEF SameWeeks
<1>5. SharesDay(a, b) /\ SharesWeek(a, b)
  BY <1>2, <1>3, <1>4 DEF SharesDay, SharesWeek
<1>6. a.start - a.period = b.start - b.period
  BY <1>2, <1>5 DEF OneNumbering
<1>7. /\ x \in Int
      /\ a.period <= x /\ x <= a.period + a.length - 1
      /\ b.period <= x /\ x <= b.period + b.length - 1
  BY <1>3 DEF Periods
<1>8. a.start < b.start + b.length /\ b.start < a.start + a.length
  BY <1>3, <1>6, <1>7
<1>9. Overlaps(a, b)
  BY <1>5, <1>8 DEF Overlaps, End
<1>10. a.lesson # b.lesson /\ ~Conflict(problem, a, b)
  BY <1>2 DEF Compatible
<1>11. PICK rule \in problem.rules :
         /\ rule.kind = "NotOverlap" /\ rule.required
         /\ {a.lesson, b.lesson} \subseteq LessonsOf(rule)
  BY <1>2, <1>10, OwnersAssumption
<1>12. rule.required = TRUE
  BY <1>1, <1>11 DEF ProblemOK
<1>13. rule \in Broken(problem, a, b, TRUE)
  BY <1>9, <1>11, <1>12 DEF Broken, Violates
<1> QED BY <1>10, <1>13 DEF Conflict

\* The load of a window is at least the number of its periods that are taken, and
\* exactly that if the lessons are one by one (cp_sat.py:507-519, :571-576).
LEMMA LoadOfWindow ==
  ASSUME problem \in Problems, NEW limit \in problem.limits,
         NEW s \in SUBSET problem.options, NEW day, NEW w \in Nat
  PROVE  LET load == WindowLoad(limit, s, day, w)
             full == Occupied(limit, s, day) \cap (w .. w + limit.max)
         IN  /\ load \in Nat /\ IsFiniteSet(full)
             /\ Cardinality(full) <= load
             /\ OneByOne(limit, s, day) => Cardinality(full) = load
<1> DEFINE D == OnDay(limit, s, day)
           window == w .. w + limit.max
           F == [a \in D |-> Periods(a) \cap window]
           sizes == [a \in D |-> Cardinality(F[a])]
           full == Occupied(limit, s, day) \cap window
<1>1. ProblemOK(problem) /\ limit.max \in Nat
  BY ProblemsAssumption DEF ProblemOK
<1>2. IsFiniteSet(D)
  BY <1>1, OnDayFacts
<1>3. IsFiniteSet(window)
  <2>1. PICK m \in Int : m = w + limit.max
    BY <1>1
  <2> QED BY <2>1, FS_Interval
<1>4. \A a \in D : IsFiniteSet(F[a])
  BY <1>3, FS_Subset
<1>5. full = UNION {F[a] : a \in D}
  BY DEF Occupied
<1>6. WindowLoad(limit, s, day, w) = Total(sizes)
  BY DEF WindowLoad
<1>7. OneByOne(limit, s, day) => \A a, b \in D : \A e : e \in F[a] /\ e \in F[b] => a = b
  BY DEF OneByOne
<1>10. /\ sizes \in [D -> Nat] /\ DOMAIN F = D
       /\ \A a \in D : sizes[a] = Cardinality(F[a])
  BY <1>4, FS_CardinalityType
<1> HIDE DEF D, F, window
<1>8. \A e : e \in full <=> \E a \in D : e \in F[a]
  BY <1>5
<1> HIDE DEF full, sizes
<1>9. /\ Total(sizes) \in Nat /\ IsFiniteSet(full) /\ Cardinality(full) <= Total(sizes)
      /\ (\A a, b \in D : \A e : e \in F[a] /\ e \in F[b] => a = b) =>
           Cardinality(full) = Total(sizes)
  BY <1>2, <1>4, <1>8, <1>10, TotalOfSizes
<1> QED BY <1>6, <1>7, <1>9 DEF full, window

\* The first and the last period at which an action of a limit starts on a day.
LEMMA WindowFacts ==
  ASSUME problem \in Problems, NEW limit \in problem.limits, NEW day,
         OnDay(limit, problem.options, day) # {}
  PROVE  \E first, last \in Nat :
           /\ Windows(limit, day) = first .. last
           /\ \A a \in OnDay(limit, problem.options, day) :
                first <= a.period /\ a.period <= last
<1> DEFINE D == OnDay(limit, problem.options, day)
           g == [a \in D |-> a.period]
           periods == {a.period : a \in D}
<1>1. IsFiniteSet(D) /\ \A a \in D : a.period \in Nat
  BY ProblemsAssumption, OnDayFacts
<1>2. periods \in SUBSET Nat /\ periods # {}
  BY <1>1
<1>3. IsFiniteSet(periods)
  <2>1. periods = {g[a] : a \in D}
    OBVIOUS
  <2> HIDE DEF g, periods, D
  <2> QED BY <1>1, <2>1, RangeIsFinite
<1>4. Windows(limit, day) = Min(periods) .. Max(periods)
  BY <1>2 DEF Windows
<1> HIDE DEF periods
<1>5. PICK n \in Nat : \A x \in periods : x <= n
  BY <1>2, <1>3, FiniteIsBounded
<1>6. Max(periods) \in periods /\ \A y \in periods : y <= Max(periods)
  BY <1>2, <1>5, MaxOfNats
<1>7. Min(periods) \in periods /\ \A y \in periods : Min(periods) <= y
  BY <1>2, MinOfNats
<1>8. Min(periods) \in Nat /\ Max(periods) \in Nat
  BY <1>2, <1>6, <1>7
<1>9. \A a \in D : a.period \in periods
  BY DEF periods
<1> QED BY <1>4, <1>6, <1>7, <1>8, <1>9

LEMMA OccupiedFacts ==
  ASSUME problem \in Problems, NEW limit, NEW s \in SUBSET problem.options, NEW day
  PROVE  /\ Occupied(limit, s, day) \subseteq Nat
         /\ \A x \in Int : x \in Occupied(limit, s, day) <=>
              \E a \in OnDay(limit, s, day) :
                a.period <= x /\ x <= a.period + a.length - 1
<1>1. \A a \in OnDay(limit, s, day) : a.period \in Nat /\ a.length \in Nat \ {0}
  BY ProblemsAssumption, OnDayFacts
<1>2. \A a \in OnDay(limit, s, day) :
        Periods(a) = a.period .. (a.period + a.length - 1)
  BY DEF Periods
<1>3. \A x : x \in Occupied(limit, s, day) <=>
               \E a \in OnDay(limit, s, day) : x \in a.period .. (a.period + a.length - 1)
  BY <1>2 DEF Occupied
<1> QED BY <1>1, <1>3

\* What the model keeps within the maximum respects the limit: a full window that
\* starts later than every action lies in the end of a long one, and then the window
\* at the last start is full too (cp_sat.py:497-519).
LEMMA WithinKeepsLimit ==
  ASSUME problem \in Problems, NEW limit \in problem.limits,
         NEW s \in SUBSET problem.options, Within(limit, s)
  PROVE  KeepsLimit(limit, s)
<1>1. ProblemOK(problem) /\ limit.max \in Nat
      /\ limit.kind \in {"max_daily_lessons", "consecutive_limit"}
  BY ProblemsAssumption DEF ProblemOK
<1>2. ASSUME NEW day \in DaysOf(s), limit.kind = "max_daily_lessons"
      PROVE  DayLoad(limit, s, day) <= limit.max
  <2>1. day \in Weekdays
    BY DEF Weekdays, DaysOf
  <2>2. <<day, 0, DayLoad(limit, s, day)>> \in Loads(limit, s)
    BY <1>2, <2>1 DEF Loads
  <2> QED BY <2>2 DEF Within
<1>3. ASSUME NEW day \in DaysOf(s), limit.kind = "consecutive_limit",
             NEW w \in Occupied(limit, s, day),
             w .. (w + limit.max) \subseteq Occupied(limit, s, day)
      PROVE  FALSE
  <2> DEFINE taken == Occupied(limit, s, day)
             max == limit.max
  <2>1. w \in Nat /\ day \in Weekdays
    BY OccupiedFacts DEF Weekdays, DaysOf
  <2>2. PICK a \in OnDay(limit, s, day) : a.period <= w /\ w <= a.period + a.length - 1
    BY <2>1, OccupiedFacts
  <2>3. OnDay(limit, s, day) \subseteq OnDay(limit, problem.options, day)
    BY DEF OnDay
  <2>4. PICK first \in Nat, last \in Nat :
          /\ Windows(limit, day) = first .. last
          /\ \A b \in OnDay(limit, problem.options, day) :
               first <= b.period /\ b.period <= last
    BY <2>2, <2>3, WindowFacts
  <2>5. /\ a.period \in Nat /\ a.length \in Nat \ {0}
        /\ first <= a.period /\ a.period <= last
    BY <1>1, <2>2, <2>3, <2>4, OnDayFacts
  <2> DEFINE v == IF w <= last THEN w ELSE last
  <2>6. v \in first .. last /\ v \in Nat
    BY <2>1, <2>2, <2>4, <2>5
  <2>7. ASSUME NEW x \in v .. (v + max)
        PROVE  x \in taken
    <3>1. x \in Int
      BY <1>1, <2>6
    <3>2. CASE w <= x
      BY <1>1, <1>3, <2>1, <2>4, <3>1, <3>2
    <3>3. CASE x < w
      <4>1. a.period <= x /\ x <= a.period + a.length - 1
        BY <2>1, <2>2, <2>4, <2>5, <3>1, <3>3
      <4> QED BY <3>1, <4>1, OccupiedFacts
    <3> QED BY <2>1, <3>1, <3>2, <3>3
  <2> HIDE DEF v
  <2>8. taken \cap (v .. v + max) = v .. v + max
    BY <2>7
  <2>9. Cardinality(v .. v + max) = max + 1
    <3>1. PICK n \in Int : n = v + max
      BY <1>1, <2>6
    <3> QED BY <1>1, <2>6, <3>1, FS_Interval
  <2>10. /\ WindowLoad(limit, s, day, v) \in Nat
         /\ max + 1 <= WindowLoad(limit, s, day, v)
    BY <2>6, <2>8, <2>9, LoadOfWindow
  <2>11. <<day, v, WindowLoad(limit, s, day, v)>> \in Loads(limit, s)
    BY <1>3, <2>1, <2>4, <2>6 DEF Loads
  <2>12. WindowLoad(limit, s, day, v) <= max
    BY <2>11 DEF Within
  <2> QED BY <1>1, <2>10, <2>12
<1> QED BY <1>1, <1>2, <1>3 DEF KeepsLimit

\* And what respects the limit is kept, where the loads of a window are exact.
LEMMA KeptLimitIsWithin ==
  ASSUME problem \in Problems, NEW limit \in problem.limits,
         SameWeeks(limit), OneNumbering(problem, limit),
         NEW s \in SUBSET problem.options, Compatible(problem, s), KeepsLimit(limit, s)
  PROVE  Within(limit, s)
<1>1. ProblemOK(problem) /\ limit.max \in Nat
      /\ limit.kind \in {"max_daily_lessons", "consecutive_limit"}
  BY ProblemsAssumption DEF ProblemOK
<1>2. ASSUME NEW day, day \notin DaysOf(s)
      PROVE  OnDay(limit, s, day) = {}
  BY <1>2 DEF OnDay, DaysOf
<1>3. ASSUME limit.kind = "max_daily_lessons", NEW day
      PROVE  DayLoad(limit, s, day) <= limit.max
  <2>1. CASE day \in DaysOf(s)
    BY <1>3, <2>1 DEF KeepsLimit
  <2>2. CASE day \notin DaysOf(s)
    <3>1. OnDay(limit, s, day) = {}
      BY <1>2, <2>2
    <3>2. UNION {{x} \X (1..[a \in {} |-> a.length][x]) : x \in {}} = {}
      OBVIOUS
    <3>3. DayLoad(limit, s, day) = 0
      BY <3>1, <3>2, FS_EmptySet DEF DayLoad, Total
    <3> QED BY <1>1, <3>3
  <2> QED BY <2>1, <2>2
<1>4. ASSUME limit.kind = "consecutive_limit", NEW day, NEW w \in Windows(limit, day)
      PROVE  WindowLoad(limit, s, day, w) <= limit.max
  <2> DEFINE full == Occupied(limit, s, day) \cap (w .. w + limit.max)
  <2>1. w \in Nat
    <3>1. OnDay(limit, problem.options, day) # {}
      BY <1>4 DEF Windows
    <3> QED BY <3>1, <1>4, WindowFacts
  <2>2. OneByOne(limit, s, day)
    BY <1>4, OwnersMeetOnce
  <2>3. WindowLoad(limit, s, day, w) = Cardinality(full) /\ Cardinality(full) \in Nat
    <3>1. /\ WindowLoad(limit, s, day, w) \in Nat
          /\ OneByOne(limit, s, day) => Cardinality(full) = WindowLoad(limit, s, day, w)
      BY <2>1, LoadOfWindow, ZenonT(30)
    <3> QED BY <2>2, <3>1
  <2>4. PICK n \in Int : n = w + limit.max
    BY <1>1, <2>1
  <2>5. IsFiniteSet(w .. n) /\ Cardinality(w .. n) = limit.max + 1
    <3>1. /\ IsFiniteSet(w .. n)
          /\ Cardinality(w .. n) = IF w > n THEN 0 ELSE n - w + 1
      BY <2>1, FS_Interval
    <3> QED BY <1>1, <2>1, <2>4, <3>1
  <2>6. full \in SUBSET (w .. n)
    BY <2>4
  <2>7. full # w .. n
    <3>1. ASSUME full = w .. n
          PROVE  FALSE
      <4>1. w \in w .. n
        BY <1>1, <2>1, <2>4
      <4>2. w \in Occupied(limit, s, day) /\ w .. n \subseteq Occupied(limit, s, day)
        BY <3>1, <4>1
      <4>3. day \in DaysOf(s)
        BY <1>2, <4>2 DEF Occupied
      <4> QED BY <1>4, <2>4, <4>2, <4>3 DEF KeepsLimit
    <3> QED BY <3>1
  <2> HIDE DEF full
  <2>8. /\ Cardinality(full) <= Cardinality(w .. n)
        /\ Cardinality(full) # Cardinality(w .. n)
    BY <2>5, <2>6, <2>7, FS_Subset
  <2> QED BY <1>1, <2>3, <2>5, <2>8
<1> SUFFICES ASSUME NEW load \in Loads(limit, s)
             PROVE  load[3] <= limit.max
  BY DEF Within
<1>5. CASE limit.kind = "max_daily_lessons"
  BY <1>3, <1>5 DEF Loads
<1>6. CASE limit.kind = "consecutive_limit"
  <2>1. PICK d \in Weekdays : \E w \in Windows(limit, d) :
          load = <<d, w, WindowLoad(limit, s, d, w)>>
    BY <1>6 DEF Loads
  <2> QED BY <1>4, <1>6, <2>1
<1> QED BY <1>1, <1>5, <1>6

-----------------------------------------------------------------------------
(* The model is complete: every timetable satisfies it.                    *)

LEMMA TimetableIsChosen ==
  ASSUME problem \in Problems, NEW s \in SUBSET problem.options,
         Compatible(problem, s)
  PROVE  /\ s \in Selections
         /\ \A g \in HardGroups : Cardinality(s \cap g) <= 1
         /\ \A p \in HardPairs : ~ p \subseteq s
<1>1. s \in Selections
  BY DEF Selections, Compatible
<1>2. ASSUME NEW l \in s, NEW r \in s, l.lesson # r.lesson
      PROVE  {l, r} \notin Excluded
  <2>1. ~Conflict(problem, l, r)
    BY <1>2 DEF Compatible
  <2> QED BY <1>2, <2>1, RulesAreExact
<1>3. ASSUME NEW g \in HardGroups
      PROVE  Cardinality(s \cap g) <= 1
  <2>1. ASSUME NEW l \in s \cap g, NEW r \in s \cap g, l # r
        PROVE  FALSE
    <3>1. l.lesson # r.lesson
      BY <2>1 DEF Compatible
    <3>2. Placed({l, r}) = {l.lesson, r.lesson}
      BY DEF Placed
    <3>3. Cardinality(Placed({l, r})) = 2 /\ Cardinality({l, r}) = 2
      <4>1. Cardinality({l.lesson, r.lesson}) = 2
        BY <3>1, CardinalityOfTwo
      <4>2. Cardinality({l, r}) = 2
        BY <2>1, CardinalityOfTwo
      <4> QED BY <3>2, <4>1, <4>2
    <3>4. {l, r} \in DifferentLessons(Pairs(g))
      BY <3>3 DEF DifferentLessons, Pairs
    <3>5. {l, r} \in Excluded
      BY <3>4 DEF Excluded
    <3> QED BY <1>2, <3>1, <3>5
  <2>2. CASE s \cap g = {}
    BY <2>2, FS_EmptySet
  <2>3. CASE s \cap g # {}
    <3>1. PICK x \in s \cap g : TRUE
      BY <2>3
    <3>2. s \cap g = {x}
      BY <2>1, <3>1
    <3>3. Cardinality({x}) = 1
      BY FS_Singleton
    <3> QED BY <3>2, <3>3
  <2> QED BY <2>2, <2>3
<1>4. ASSUME NEW p \in HardPairs, p \subseteq s
      PROVE  FALSE
  <2>1. ASSUME NEW rule, NEW actions, p \in DifferentLessons(BucketPairs(rule, actions))
        PROVE  \E l, r : p = {l, r} /\ l.lesson # r.lesson
    <3>0. PICK left \in Buckets(rule.kind, actions), right \in Buckets(rule.kind, actions) :
            \E l \in left, r \in right : p = {l, r}
      BY <2>1 DEF DifferentLessons, BucketPairs
    <3>1. PICK l \in left, r \in right : p = {l, r}
      BY <3>0
    <3>2. Cardinality(Placed(p)) = 2
      BY <2>1 DEF DifferentLessons
    <3>3. Placed(p) = {l.lesson, r.lesson}
      BY <3>1 DEF Placed
    <3>4. Cardinality({l.lesson, r.lesson}) = IF l.lesson = r.lesson THEN 1 ELSE 2
      BY CardinalityOfTwo
    <3> QED BY <3>1, <3>2, <3>3, <3>4
  <2>2. ASSUME NEW rule, p \in PairsOf(rule)
        PROVE  \E l, r : p = {l, r} /\ l.lesson # r.lesson
    BY <2>2 DEF PairsOf
  <2>3. \/ \E rule, actions : p \in DifferentLessons(BucketPairs(rule, actions))
        \/ \E rule : p \in PairsOf(rule)
    BY DEF HardPairs
  <2>4. PICK l, r : p = {l, r} /\ l.lesson # r.lesson
    BY <2>1, <2>2, <2>3
  <2>5. {l, r} \in Excluded /\ l \in s /\ r \in s
    BY <1>4, <2>4 DEF Excluded
  <2> QED BY <1>2, <2>4, <2>5
<1> QED BY <1>1, <1>3, <1>4

LEMMA TimetableIsSolution ==
  ASSUME problem \in Problems, NumberedAlike(problem),
         \A limit \in problem.limits : SameWeeks(limit), NEW s \in Timetables
  PROVE  s \in Solutions
<1>1. /\ s \in SUBSET problem.options /\ Compatible(problem, s)
      /\ \A limit \in problem.limits : limit.required => KeepsLimit(limit, s)
  BY DEF Timetables, TimetablesOf, IsTimetable
<1>2. \A limit \in problem.limits : limit.required => Within(limit, s)
  BY <1>1, KeptLimitIsWithin DEF NumberedAlike
<1> QED BY <1>1, <1>2, TimetableIsChosen DEF Solutions

\* A selection has one action of each lesson that it places.
LEMMA SelectionSize ==
  ASSUME problem \in Problems, NEW s \in Selections
  PROVE  /\ Cardinality(s) \in Nat /\ Cardinality(problem.lessons) \in Nat
         /\ Cardinality(s) <= Cardinality(problem.lessons)
         /\ Cardinality(s) = Cardinality(problem.lessons) <=>
              Placed(s) = problem.lessons
<1>1. /\ IsFiniteSet(problem.lessons) /\ IsFiniteSet(s) /\ s \subseteq problem.options
      /\ \A a \in problem.options : a.lesson \in problem.lessons
  BY OptionFacts, FS_Subset DEF ProblemOK, Selections
<1> DEFINE f == [a \in s |-> a.lesson]
<1>2. f \in Surjection(s, Placed(s))
  BY DEF Surjection, Placed
<1>3. f \in Injection(s, Placed(s))
  BY DEF Injection, IsInjective, Placed, Selections
<1> HIDE DEF f
<1>4. /\ IsFiniteSet(Placed(s)) /\ Cardinality(Placed(s)) = Cardinality(s)
  BY <1>1, <1>2, <1>3, FS_Surjection
<1>5. Placed(s) \in SUBSET problem.lessons
  BY <1>1 DEF Placed
<1>6. /\ Cardinality(Placed(s)) <= Cardinality(problem.lessons)
      /\ Cardinality(problem.lessons) = Cardinality(Placed(s)) =>
           problem.lessons = Placed(s)
  BY <1>1, <1>5, FS_Subset
<1> QED BY <1>1, <1>4, <1>6, FS_CardinalityType

\* The largest of some selections.
LEMMA LargestFacts ==
  ASSUME problem \in Problems, NEW sets \in SUBSET Selections, NEW s \in Largest(sets)
  PROVE  s \in sets /\ \A t \in sets : Cardinality(t) <= Cardinality(s)
<1> DEFINE sizes == {Cardinality(t) : t \in sets}
           size == Max(sizes)
<1>1. s \in sets /\ Cardinality(s) = size
  BY DEF Largest
<1>2. /\ Cardinality(problem.lessons) \in Nat
      /\ \A t \in sets : /\ Cardinality(t) \in Nat
                          /\ Cardinality(t) <= Cardinality(problem.lessons)
  BY <1>1, SelectionSize
<1>3. sizes \in SUBSET Nat /\ sizes # {} /\ \A x \in sizes : x <= Cardinality(problem.lessons)
  BY <1>1, <1>2
<1>4. \A t \in sets : Cardinality(t) \in sizes
  OBVIOUS
<1>5. \A x \in sizes : x <= size
  <2> HIDE DEF sizes
  <2> QED BY <1>2, <1>3, MaxOfNats DEF size
<1> QED BY <1>1, <1>4, <1>5

LEMMA SameModel ==
  ASSUME problem' = problem
  PROVE  Solutions' = Solutions /\ Timetables' = Timetables
<1>1. Rooms' = Rooms /\ BucketRules' = BucketRules /\ Weekdays' = Weekdays
  BY DEF Rooms, BucketRules, Weekdays
<1>2. /\ \A room : RoomActions(room)' = RoomActions(room)
      /\ \A rule : RuleActions(rule)' = RuleActions(rule)
  BY DEF RoomActions, RuleActions
<1>3. \A rule : PairsOf(rule)' = PairsOf(rule)
  BY <1>2 DEF PairsOf
<1>4. HardGroups' = HardGroups
  BY <1>1, <1>2 DEF HardGroups
<1>5. HardPairs' = HardPairs
  BY <1>1, <1>2, <1>3 DEF HardPairs
<1>6. \A limit, day : Windows(limit, day)' = Windows(limit, day)
  BY DEF Windows
<1>7. \A limit, s : Loads(limit, s)' = Loads(limit, s)
  BY <1>1, <1>6 DEF Loads
<1>8. \A limit, s : Within(limit, s)' <=> Within(limit, s)
  BY <1>7 DEF Within
<1>9. Selections' = Selections
  BY DEF Selections
<1>10. Solutions' = Solutions
  BY <1>4, <1>5, <1>8, <1>9 DEF Solutions
<1> QED BY <1>10 DEF Timetables

\* What the solver has proved to be the maximum is one, also after the search for
\* quality; and a round is refused only for a reason.
MaxInv ==
  /\ stage = "starting" => feasibility = "none"
  /\ feasibility = "OPTIMAL" =>
       /\ schedule \in Solutions
       /\ \A s \in Solutions : Cardinality(s) <= Cardinality(schedule)
  /\ outcome = "infeasible" => ~Complete(schedule) \/ HardIssues(schedule) # {}

LEMMA MaxInitHolds == Init => MaxInv
BY DEF Init, MaxInv

LEMMA MaxKept ==
  ASSUME RunInv, MaxInv, [Next]_vars
  PROVE  MaxInv'
<1>1. problem \in Problems /\ Solutions \subseteq Selections
  BY DEF RunInv, TypeOK, GreedyTypeOK, Solutions
<1>2. CASE Greedy
  <2>1. stage = "starting" /\ outcome = "solving"
    BY <1>2 DEF RunInv, TypeOK, Greedy, GreedyNext, PlaceLesson, PlacingFails,
                RepairDirectly, RepairByRelocating, RepairFails, NextPass
  <2> QED BY <1>2, <2>1 DEF Greedy, solver, MaxInv
<1>3. CASE ReturnStart
  BY <1>3 DEF ReturnStart, Started, MaxInv, RunInv
<1>4. CASE SolveOptimal
  <2>1. /\ schedule' \in Largest(Solutions) /\ problem' = problem
        /\ stage' = "feasible" /\ outcome' = "solving"
    BY <1>4 DEF SolveOptimal, Solve, Started, RunInv, TypeOK
  <2>2. /\ schedule' \in Solutions
        /\ \A s \in Solutions : Cardinality(s) <= Cardinality(schedule')
    BY <1>1, <2>1, LargestFacts
  <2> QED BY <2>1, <2>2, SameModel DEF MaxInv
<1>5. CASE SolveFeasible \/ SolveNothing
  BY <1>5 DEF SolveFeasible, SolveNothing, Solve, Started, MaxInv, RunInv, TypeOK
<1>6. CASE ImproveOptimal \/ ImproveFeasible
  <2>1. /\ schedule' \in SameCount /\ problem' = problem /\ feasibility' = feasibility
        /\ stage' = "solved" /\ outcome' = "solving"
    BY <1>6 DEF ImproveOptimal, ImproveFeasible, Improve, Best, RunInv, TypeOK
  <2>2. schedule' \in Solutions /\ Cardinality(schedule') = Cardinality(schedule)
    BY <2>1 DEF SameCount
  <2> QED BY <2>1, <2>2, SameModel DEF MaxInv
<1>7. CASE ImproveNothing \/ NoTimeLeft
  <2>1. /\ UNCHANGED <<problem, schedule, feasibility>> /\ stage' = "solved"
        /\ outcome' = "solving"
    BY <1>7 DEF ImproveNothing, Improve, NoTimeLeft, greedy, RunInv, TypeOK
  <2> QED BY <2>1, SameModel DEF MaxInv
<1>8. CASE CompleteRound
  <2>1. UNCHANGED <<problem, schedule, feasibility>> /\ stage' = "settled"
    BY <1>8 DEF CompleteRound, greedy
  <2>2. outcome' = "infeasible" => ~Complete(schedule) \/ HardIssues(schedule) # {}
    BY <1>8 DEF CompleteRound
  <2>3. (Complete(schedule))' <=> Complete(schedule)
    BY <2>1 DEF Complete
  <2>4. (HardIssues(schedule))' = HardIssues(schedule)
    BY <2>1 DEF HardIssues
  <2> QED BY <2>1, <2>2, <2>3, <2>4, SameModel DEF MaxInv
<1>9. CASE UNCHANGED vars
  <2>1. UNCHANGED <<problem, schedule, feasibility, stage, outcome>>
    BY <1>9 DEF vars, greedy, solver
  <2>2. (Complete(schedule))' <=> Complete(schedule)
    BY <2>1 DEF Complete
  <2>3. (HardIssues(schedule))' = HardIssues(schedule)
    BY <2>1 DEF HardIssues
  <2> QED BY <2>1, <2>2, <2>3, SameModel DEF MaxInv
<1> QED BY <1>2, <1>3, <1>4, <1>5, <1>6, <1>7, <1>8, <1>9 DEF Next

\* If the maximum is proved and the round is refused then there is no timetable
\* (cp_sat.py:193, :317).
THEOREM ProvedInfeasibleStaysInfeasible == Spec => []ProvedInfeasibleIsInfeasible
<1>1. ASSUME RunInv, MaxInv, outcome = "infeasible", feasibility = "OPTIMAL",
             NumberedAlike(problem), \A limit \in problem.limits : SameWeeks(limit),
             NEW t \in Timetables
      PROVE  FALSE
  <2>1. problem \in Problems /\ ProblemOK(problem)
    BY <1>1, OptionFacts DEF RunInv, TypeOK, GreedyTypeOK
  <2>2. t \in Solutions /\ t \in Selections /\ Placed(t) = problem.lessons
    BY <1>1, <2>1, TimetableIsSolution, SolutionFacts DEF Timetables, TimetablesOf, IsTimetable
  <2>3. schedule \in Solutions /\ Cardinality(t) <= Cardinality(schedule)
    BY <1>1, <2>2 DEF MaxInv
  <2>4. /\ schedule \in Selections /\ schedule \in SUBSET problem.options
        /\ \A limit \in problem.limits : limit.required => Within(limit, schedule)
    BY <2>1, <2>3, SolutionFacts
  <2>5. Placed(schedule) = problem.lessons
    <3>1. Cardinality(t) = Cardinality(problem.lessons)
      BY <2>1, <2>2, SelectionSize
    <3>2. /\ Cardinality(schedule) \in Nat /\ Cardinality(problem.lessons) \in Nat
          /\ Cardinality(schedule) <= Cardinality(problem.lessons)
          /\ Cardinality(schedule) = Cardinality(problem.lessons) <=>
               Placed(schedule) = problem.lessons
      BY <2>1, <2>4, SelectionSize
    <3> QED BY <2>3, <3>1, <3>2
  <2>6. \A limit \in problem.limits : limit.required => KeepsLimit(limit, schedule)
    BY <2>1, <2>4, WithinKeepsLimit
  <2>7. Exceeded(problem, schedule) = {}
    BY <1>1, <2>1, <2>4, <2>6, ExceededIsExact
  <2> QED BY <1>1, <2>5, <2>7 DEF MaxInv, Complete, HardIssues
<1>2. RunInv /\ MaxInv => ProvedInfeasibleIsInfeasible
  BY <1>1 DEF ProvedInfeasibleIsInfeasible
<1> QED BY <1>2, RunInitHolds, RunKeeps, MaxInitHolds, MaxKept, PTL DEF Spec

-----------------------------------------------------------------------------
(* The objective.                                                          *)

LEMMA WeekdaysAreFinite ==
  ASSUME problem \in Problems
  PROVE  IsFiniteSet(Weekdays)
<1> DEFINE f == [a \in problem.options |-> a.days]
<1>1. /\ IsFiniteSet(problem.options)
      /\ \A a \in problem.options : IsFiniteSet(f[a])
  BY ProblemsAssumption DEF ProblemOK
<1>2. Weekdays = UNION {f[a] : a \in problem.options}
  BY DEF Weekdays, DaysOf
<1> HIDE DEF f
<1> QED BY <1>1, <1>2, UnionIsFinite

LEMMA ScoreIsNat ==
  ASSUME problem \in Problems, NEW s \in SUBSET problem.options
  PROVE  Score(problem, s) \in Nat
<1>1. ProblemOK(problem) /\ IsFiniteSet(s)
  BY ProblemsAssumption, FS_Subset DEF ProblemOK
<1>2. CostScore(s) \in Nat
  <2> DEFINE f == [a \in s |-> a.cost]
  <2>1. f \in [s -> Nat]
    BY <1>1 DEF ProblemOK
  <2> HIDE DEF f
  <2>2. Total(f) \in Nat
    BY <1>1, <2>1, TotalIsNat
  <2> QED BY <2>2 DEF CostScore, f
<1>3. RuleScore(problem, s) \in Nat
  <2> DEFINE P == Pairs(s)
             f == [x \in P |-> LET l == CHOOSE y \in x : TRUE
                                   r == CHOOSE y \in x : y # l
                               IN BrokenCost(problem, l, r)]
  <2>1. f \in [P -> Nat]
    BY <1>1, BrokenCostIsNat
  <2>2. IsFiniteSet(P)
    <3>1. IsFiniteSet(SUBSET s) /\ P \in SUBSET (SUBSET s)
      BY <1>1, FS_SUBSET DEF Pairs
    <3> QED BY <3>1, FS_Subset
  <2> HIDE DEF f
  <2>3. Total(f) \in Nat
    BY <2>1, <2>2, TotalIsNat
  <2> QED BY <2>3 DEF RuleScore, f
<1> QED BY <1>2, <1>3 DEF Score

\* There are finitely many loads, and they are naturals.
LEMMA LoadFacts ==
  ASSUME problem \in Problems, NEW limit \in problem.limits,
         NEW s \in SUBSET problem.options
  PROVE  /\ IsFiniteSet(Loads(limit, s))
         /\ \A load \in Loads(limit, s) : Over(load[3], limit) \in Nat
<1>1. /\ ProblemOK(problem) /\ limit.max \in Nat
      /\ limit.kind \in {"max_daily_lessons", "consecutive_limit"}
  BY ProblemsAssumption DEF ProblemOK
<1>2. \A n \in Nat : Over(n, limit) \in Nat
  BY <1>1 DEF Over
<1>3. CASE limit.kind = "max_daily_lessons"
  <2> DEFINE f == [d \in Weekdays |-> <<d, 0, DayLoad(limit, s, d)>>]
  <2>1. Loads(limit, s) = {f[d] : d \in Weekdays}
    BY <1>3 DEF Loads
  <2>2. \A load \in Loads(limit, s) : load[3] \in Nat
    BY <1>1, <2>1, DayLoadIsNat
  <2> HIDE DEF f
  <2> QED BY <1>2, <2>1, <2>2, WeekdaysAreFinite, RangeIsFinite
<1>4. CASE limit.kind = "consecutive_limit"
  <2> DEFINE f == [d \in Weekdays |->
                     {<<d, w, WindowLoad(limit, s, d, w)>> : w \in Windows(limit, d)}]
  <2>1. Loads(limit, s) = UNION {f[d] : d \in Weekdays}
    BY <1>4 DEF Loads
  <2>2. ASSUME NEW d \in Weekdays
        PROVE  /\ IsFiniteSet(Windows(limit, d)) /\ IsFiniteSet(f[d])
               /\ \A w \in Windows(limit, d) : WindowLoad(limit, s, d, w) \in Nat
    <3>1. IsFiniteSet(Windows(limit, d)) /\ Windows(limit, d) \in SUBSET Nat
      <4>1. CASE OnDay(limit, problem.options, d) = {}
        BY <4>1, FS_EmptySet DEF Windows
      <4>2. CASE OnDay(limit, problem.options, d) # {}
        <5>1. PICK first \in Nat, last \in Nat : Windows(limit, d) = first .. last
          BY <4>2, WindowFacts
        <5>2. IsFiniteSet(first .. last)
          BY FS_Interval
        <5> QED BY <5>1, <5>2
      <4> QED BY <4>1, <4>2
    <3> DEFINE W == Windows(limit, d)
               g == [w \in W |-> <<d, w, WindowLoad(limit, s, d, w)>>]
    <3>2. f[d] = {g[w] : w \in W}
      OBVIOUS
    <3>3. IsFiniteSet({g[w] : w \in W})
      <4> HIDE DEF g, W
      <4> QED BY <3>1, RangeIsFinite DEF W
    <3>4. \A w \in W : WindowLoad(limit, s, d, w) \in Nat
      BY <3>1, LoadOfWindow
    <3> QED BY <3>1, <3>2, <3>3, <3>4
  <2>3. \A load \in Loads(limit, s) : load[3] \in Nat
    <3>1. \A load \in Loads(limit, s) : \E d \in Weekdays : \E w \in Windows(limit, d) :
            load = <<d, w, WindowLoad(limit, s, d, w)>>
      BY <2>1
    <3> HIDE DEF f
    <3> QED BY <2>2, <3>1
  <2>4. \A d \in Weekdays : IsFiniteSet(f[d])
    BY <2>2
  <2> HIDE DEF f
  <2>5. IsFiniteSet(Loads(limit, s))
    BY <2>1, <2>4, WeekdaysAreFinite, UnionIsFinite
  <2> QED BY <1>2, <2>3, <2>5
<1> QED BY <1>1, <1>3, <1>4

\* What the objective counts of a limit on a day's load.
LEMMA DailyExcessAgrees ==
  ASSUME problem \in Problems, NEW limit \in problem.limits,
         limit.kind = "max_daily_lessons", NEW s \in SUBSET problem.options
  PROVE  Total([load \in Loads(limit, s) |-> Over(load[3], limit)])
           = LimitExcess(limit, s, Weekdays)
<1> DEFINE L == Loads(limit, s)
           f == [load \in L |-> Over(load[3], limit)]
           g == [d \in Weekdays |-> Over(DayLoad(limit, s, d), limit)]
           h == [load \in L |-> load[1]]
<1>1. IsFiniteSet(L) /\ f \in [L -> Nat]
  BY LoadFacts
<1>2. L = {<<d, 0, DayLoad(limit, s, d)>> : d \in Weekdays}
  BY DEF Loads
<1>3. \A d \in Weekdays : <<d, 0, DayLoad(limit, s, d)>> \in L
  BY <1>2
<1>4. \A load \in L : /\ load[1] \in Weekdays
                      /\ load = <<load[1], 0, DayLoad(limit, s, load[1])>>
                      /\ load[3] = DayLoad(limit, s, load[1])
  BY <1>2
<1> HIDE DEF L
<1>5. g \in [Weekdays -> Nat]
  <2>1. \A d \in Weekdays : g[d] = f[<<d, 0, DayLoad(limit, s, d)>>]
    BY <1>3
  <2> HIDE DEF f
  <2> QED BY <1>1, <1>3, <2>1
<1>6. \A load \in L : h[load] \in Weekdays /\ g[h[load]] = f[load]
  BY <1>4
<1>7. \A x, y \in L : h[x] = h[y] => x = y
  <2>1. \A x \in L : h[x] = x[1]
    OBVIOUS
  <2> HIDE DEF h
  <2> QED BY <1>4, <2>1
<1>8. \A d \in Weekdays : \E x \in L : h[x] = d /\ f[x] = g[d]
  BY <1>3
<1> HIDE DEF f, g, h
<1>9. Total(f) = Total(g)
  BY <1>1, <1>5, <1>6, <1>7, <1>8, WeekdaysAreFinite, TotalsAgree
<1> QED BY <1>9 DEF f, g, L, LimitExcess

\* A window whose periods are not all taken has no excess.
LEMMA WindowExcess ==
  ASSUME problem \in Problems, NEW limit \in problem.limits,
         NEW taken \in SUBSET Nat, NEW w \in Nat
  PROVE  LET n == Cardinality(taken \cap (w .. w + limit.max))
         IN  /\ n \in Nat /\ Over(n, limit) \in Nat
             /\ Over(n, limit) > 0 =>
                  w \in taken /\ w .. (w + limit.max) \subseteq taken
<1>1. limit.max \in Nat
  BY ProblemsAssumption DEF ProblemOK
<1>2. PICK e \in Nat : e = w + limit.max
  BY <1>1
<1> DEFINE full == taken \cap (w .. e)
           n == Cardinality(full)
<1>3. IsFiniteSet(w .. e)
  BY FS_Interval
<1>4. Cardinality(w .. e) = IF w > e THEN 0 ELSE e - w + 1
  BY FS_Interval
<1>5. Cardinality(w .. e) = limit.max + 1
  BY <1>1, <1>2, <1>4
<1>6. full \in SUBSET (w .. e)
  OBVIOUS
<1>7. IsFiniteSet(full) /\ n \in Nat
  BY <1>3, <1>6, FS_Subset, FS_CardinalityType
<1>8. n <= limit.max + 1 /\ (n = limit.max + 1 => full = w .. e)
  <2> DEFINE span == w .. e
  <2>1. IsFiniteSet(span) /\ Cardinality(span) = limit.max + 1 /\ full \in SUBSET span
    BY <1>3, <1>5, <1>6
  <2>2. n <= Cardinality(span) /\ (n = Cardinality(span) => full = span)
    <3> HIDE DEF full, span
    <3> QED BY <2>1, FS_Subset
  <2>3. QED
    BY <2>1, <2>2
<1> HIDE DEF n
<1>9. Over(n, limit) \in Nat /\ (Over(n, limit) > 0 => n = limit.max + 1)
  BY <1>1, <1>7, <1>8 DEF Over
<1>10. Over(n, limit) > 0 => w \in taken /\ w .. e \subseteq taken
  <2>1. w \in w .. e
    BY <1>1, <1>2
  <2> QED BY <1>8, <1>9, <2>1
<1> QED BY <1>2, <1>7, <1>9, <1>10 DEF n

\* What the objective counts of a limit on consecutive periods: the windows of the
\* model that are not taken from their first period on have no excess, and those of
\* the score that start later than every action have none if no lesson is longer
\* than a window (cp_sat.py:497-519, :579-582).
LEMMA WindowExcessAgrees ==
  ASSUME problem \in Problems, NEW limit \in problem.limits,
         limit.kind = "consecutive_limit", ~limit.required,
         SameWeeks(limit), OneNumbering(problem, limit), FitsWindow(limit),
         NEW s \in SUBSET problem.options, Compatible(problem, s)
  PROVE  Total([load \in Loads(limit, s) |-> Over(load[3], limit)])
           = LimitExcess(limit, s, Weekdays)
<1> DEFINE L == Loads(limit, s)
           f == [load \in L |-> Over(load[3], limit)]
           taken == [d \in Weekdays |-> Occupied(limit, s, d)]
           size(d, w) == Cardinality(taken[d] \cap (w .. w + limit.max))
           each == [d \in Weekdays |-> [w \in taken[d] |-> Over(size(d, w), limit)]]
           pairs == UNION {{d} \X taken[d] : d \in Weekdays}
           g == [p \in pairs |-> each[p[1]][p[2]]]
           h == [load \in L |-> <<load[1], load[2]>>]
<1>1. ProblemOK(problem) /\ limit.max \in Nat
  BY ProblemsAssumption DEF ProblemOK
<1>2. \A d \in Weekdays : taken[d] \in SUBSET Nat /\ IsFiniteSet(taken[d])
  <2>1. ASSUME NEW d \in Weekdays
        PROVE  IsFiniteSet(Occupied(limit, s, d))
    <3> DEFINE D == OnDay(limit, s, d)
               F == [a \in D |-> Periods(a)]
    <3>1. IsFiniteSet(D)
      BY <1>1, OnDayFacts
    <3>2. ASSUME NEW a \in D
          PROVE  IsFiniteSet(F[a])
      <4>1. a.period \in Nat /\ a.length \in Nat
        BY <1>1, OnDayFacts
      <4>2. PICK m \in Int, n \in Int : m = a.period /\ n = a.period + a.length - 1
        BY <4>1
      <4>3. F[a] = m .. n
        BY <4>2 DEF Periods
      <4> QED BY <4>3, FS_Interval
    <3>3. Occupied(limit, s, d) = UNION {F[a] : a \in D}
      BY DEF Occupied
    <3> HIDE DEF F, D
    <3> QED BY <3>1, <3>2, <3>3, UnionIsFinite
  <2> QED BY <2>1, OccupiedFacts
<1>3. ASSUME NEW d \in Weekdays, NEW w \in Nat
      PROVE  /\ size(d, w) \in Nat /\ Over(size(d, w), limit) \in Nat
             /\ Over(size(d, w), limit) > 0 =>
                  w \in taken[d] /\ w .. (w + limit.max) \subseteq taken[d]
  <2>1. taken[d] \in SUBSET Nat
    BY <1>2
  <2> HIDE DEF taken
  <2> QED BY <2>1, WindowExcess
<1>4. \A d \in Weekdays : \A w \in Windows(limit, d) :
        w \in Nat /\ WindowLoad(limit, s, d, w) = size(d, w)
  <2> TAKE d \in Weekdays
  <2> TAKE w \in Windows(limit, d)
  <2>1. OnDay(limit, problem.options, d) # {}
    BY DEF Windows
  <2>2. w \in Nat
    BY <2>1, WindowFacts
  <2>3. OneByOne(limit, s, d)
    BY OwnersMeetOnce
  <2> QED BY <2>2, <2>3, LoadOfWindow
<1>5. \A d \in Weekdays : \A w \in taken[d] :
        Over(size(d, w), limit) > 0 => w \in Windows(limit, d)
  <2> SUFFICES ASSUME NEW d \in Weekdays, NEW w \in taken[d],
                      Over(size(d, w), limit) > 0
               PROVE  w \in Windows(limit, d)
    OBVIOUS
  <2>1. w \in Nat /\ w .. (w + limit.max) \subseteq taken[d]
    BY <1>2, <1>3
  <2>2. w + limit.max \in w .. (w + limit.max) /\ w + limit.max \in Nat
    BY <1>1, <2>1
  <2>3. w + limit.max \in Occupied(limit, s, d) /\ w \in Occupied(limit, s, d)
    BY <2>1, <2>2
  <2>4. PICK a \in OnDay(limit, s, d) : a.period <= w /\ w <= a.period + a.length - 1
    BY <2>1, <2>3, OccupiedFacts
  <2>5. PICK b \in OnDay(limit, s, d) :
          b.period <= w + limit.max /\ w + limit.max <= b.period + b.length - 1
    BY <2>2, <2>3, OccupiedFacts
  <2>6. OnDay(limit, s, d) \subseteq OnDay(limit, problem.options, d)
    BY DEF OnDay
  <2>7. PICK first \in Nat, last \in Nat :
          /\ Windows(limit, d) = first .. last
          /\ \A c \in OnDay(limit, problem.options, d) :
               first <= c.period /\ c.period <= last
    BY <2>4, <2>6, WindowFacts
  <2>8. /\ a.period \in Nat /\ b.period \in Nat /\ b.length \in Nat
        /\ b \in problem.options /\ b.lesson \in limit.lessons
    BY <1>1, OnDayFacts
  <2>9. b.length <= limit.max + 1
    BY <2>8 DEF FitsWindow
  <2>10. first <= a.period /\ b.period <= last
    BY <2>6, <2>7
  <2>11. w <= b.period
    BY <1>1, <2>1, <2>5, <2>8, <2>9
  <2>12. first <= w /\ w <= last
    BY <2>1, <2>4, <2>8, <2>10, <2>11
  <2> QED BY <2>1, <2>7, <2>12
<1>6. IsFiniteSet(L) /\ f \in [L -> Nat]
  BY LoadFacts
<1>7. /\ \A load \in L : \E d \in Weekdays : \E w \in Windows(limit, d) :
           load = <<d, w, WindowLoad(limit, s, d, w)>>
      /\ \A d \in Weekdays : \A w \in Windows(limit, d) :
           <<d, w, WindowLoad(limit, s, d, w)>> \in L
  BY DEF Loads
<1>8. /\ IsFiniteSet(pairs) /\ g \in [pairs -> Nat]
      /\ Total([d \in Weekdays |-> Total(each[d])]) = Total(g)
  <2>1. \A d \in Weekdays : each[d] \in [taken[d] -> Nat]
    BY <1>2, <1>3
  <2>2. \A d \in Weekdays : IsFiniteSet(taken[d])
    BY <1>2
  <2>3. IsFiniteSet(Weekdays)
    BY WeekdaysAreFinite
  <2>4. \A p : p \in pairs <=> \E d \in Weekdays : \E w \in taken[d] : p = <<d, w>>
    BY DEF pairs
  <2> DEFINE sums == [d \in Weekdays |-> Total(each[d])]
  <2>5. g \in [pairs -> Nat] /\ \A d \in Weekdays : \A w \in taken[d] :
                                  g[<<d, w>>] = each[d][w]
    <3> HIDE DEF each, taken, pairs
    <3> QED BY <2>1, <2>4
  <2>10. DOMAIN taken = Weekdays /\ DOMAIN each = Weekdays
    OBVIOUS
  <2> HIDE DEF each, taken, L, f, h, pairs, g
  <2>6. sums \in [Weekdays -> Nat]
    BY <2>1, <2>2, TotalIsNat
  <2>7. sums = [d \in Weekdays |-> Total(each[d])] /\ \A d \in Weekdays :
                                                     sums[d] = Total(each[d])
    OBVIOUS
  <2> HIDE DEF sums
  <2>8. IsFiniteSet(pairs)
    BY <2>2, <2>3, <2>4, <2>10, PairsAreFinite
  <2>9. Flattens(Weekdays, taken, each, sums, pairs, g)
    BY <2>1, <2>2, <2>3, <2>4, <2>5, <2>6, <2>7, <2>10 DEF Flattens
  <2>11. Total(sums) = Total(g)
    BY <2>9, TotalOfTotals
  <2> QED BY <2>5, <2>7, <2>8, <2>11
<1>9. \A p : p \in pairs <=> \E d \in Weekdays : \E w \in taken[d] : p = <<d, w>>
  BY DEF pairs
<1>10. \A d \in Weekdays : \A w \in taken[d] :
         <<d, w>> \in pairs /\ g[<<d, w>>] = Over(size(d, w), limit)
  BY <1>9
<1>11. \A load \in L : \E d \in Weekdays : \E w \in Windows(limit, d) :
         /\ load = <<d, w, size(d, w)>> /\ w \in Nat
         /\ h[load] = <<d, w>> /\ f[load] = Over(size(d, w), limit)
  BY <1>4, <1>7
<1> HIDE DEF L, f, taken, size, each, pairs, g, h
<1>12. \A load \in L : f[load] > 0 => h[load] \in pairs /\ g[h[load]] = f[load]
  <2> SUFFICES ASSUME NEW load \in L, f[load] > 0
               PROVE  h[load] \in pairs /\ g[h[load]] = f[load]
    OBVIOUS
  <2>1. PICK d \in Weekdays : \E w \in Windows(limit, d) :
          /\ load = <<d, w, size(d, w)>> /\ w \in Nat
          /\ h[load] = <<d, w>> /\ f[load] = Over(size(d, w), limit)
    BY <1>11
  <2>2. PICK w \in Windows(limit, d) :
          /\ load = <<d, w, size(d, w)>> /\ w \in Nat
          /\ h[load] = <<d, w>> /\ f[load] = Over(size(d, w), limit)
    BY <2>1
  <2>3. w \in taken[d]
    BY <1>3, <2>2
  <2> QED BY <1>10, <2>2, <2>3
<1>13. \A x, y \in L : h[x] = h[y] => x = y
  BY <1>11
<1>14. \A p \in pairs : g[p] > 0 => \E load \in L : f[load] > 0 /\ h[load] = p
  <2> SUFFICES ASSUME NEW p \in pairs, g[p] > 0
               PROVE  \E load \in L : f[load] > 0 /\ h[load] = p
    OBVIOUS
  <2>1. PICK d \in Weekdays : \E w \in taken[d] : p = <<d, w>>
    BY <1>9
  <2>2. PICK w \in taken[d] : p = <<d, w>>
    BY <2>1
  <2>3. w \in Windows(limit, d) /\ Over(size(d, w), limit) > 0
    BY <1>5, <1>10, <2>2
  <2>4. <<d, w, size(d, w)>> \in L
    BY <1>4, <1>7, <2>3
  <2>5. /\ h[<<d, w, size(d, w)>>] = <<d, w>>
        /\ f[<<d, w, size(d, w)>>] = Over(size(d, w), limit)
    BY <1>11, <2>4
  <2> QED BY <2>2, <2>3, <2>4, <2>5
<1>15. Total(f) = Total(g)
  BY <1>6, <1>8, <1>12, <1>13, <1>14, TotalsAgree
<1>16. LimitExcess(limit, s, Weekdays) = Total([d \in Weekdays |-> Total(each[d])])
  <2>1. \A d \in Weekdays :
          Total(each[d]) = LET t == Occupied(limit, s, d)
                           IN  Total([w \in t |->
                                  Over(Cardinality(t \cap (w .. w + limit.max)), limit)])
    BY DEF each, taken, size
  <2> QED BY <2>1 DEF LimitExcess
<1> QED BY <1>8, <1>15, <1>16 DEF L, f

\* What a soft limit costs in the objective.
LimitCost(limit, s) ==
  limit.penalty * Total([load \in Loads(limit, s) |-> Over(load[3], limit)])

LEMMA LimitCostIsNat ==
  ASSUME problem \in Problems, NEW limit \in problem.limits,
         NEW s \in SUBSET problem.options
  PROVE  LimitCost(limit, s) \in Nat
<1> DEFINE f == [load \in Loads(limit, s) |-> Over(load[3], limit)]
<1>1. f \in [Loads(limit, s) -> Nat]
  BY LoadFacts
<1>2. limit.penalty \in Nat
  BY ProblemsAssumption DEF ProblemOK
<1> HIDE DEF f
<1>3. Total(f) \in Nat
  BY <1>1, LoadFacts, TotalIsNat
<1>4. limit.penalty * Total(f) \in Nat
  BY <1>2, <1>3
<1> QED BY <1>4 DEF f, LimitCost

LEMMA SoftExcessIsNat ==
  ASSUME problem \in Problems, NEW s \in SUBSET problem.options
  PROVE  SoftExcess(s) \in Nat
<1> DEFINE f == [limit \in SoftLimits |-> LimitCost(limit, s)]
<1>1. SoftLimits \subseteq problem.limits /\ IsFiniteSet(SoftLimits)
  BY ProblemsAssumption, FS_Subset DEF ProblemOK, SoftLimits
<1>2. f \in [SoftLimits -> Nat]
  BY <1>1, LimitCostIsNat
<1>3. SoftExcess(s) = Total(f)
  BY DEF SoftExcess, SoftLimits, LimitCost
<1> HIDE DEF f
<1> QED BY <1>1, <1>2, <1>3, TotalIsNat

\* Where no limit is read differently, the objective counts what the score counts
\* (cp_sat.py:529-583, :1067-1090).
LEMMA ObjectiveCountsScore ==
  ASSUME problem \in Problems, NumberedAlike(problem),
         \A limit \in problem.limits : SameWeeks(limit) /\ FitsWindow(limit),
         NEW s \in SUBSET problem.options, Compatible(problem, s)
  PROVE  TotalScore(s) = Score(problem, s) + SoftExcess(s)
<1>1. ASSUME NEW limit \in SoftLimits
      PROVE  LimitCost(limit, s) = limit.penalty * LimitExcess(limit, s, Weekdays)
  <2>1. /\ limit \in problem.limits /\ ~limit.required
        /\ limit.kind \in {"max_daily_lessons", "consecutive_limit"}
        /\ OneNumbering(problem, limit) /\ SameWeeks(limit) /\ FitsWindow(limit)
    BY ProblemsAssumption DEF ProblemOK, SoftLimits, NumberedAlike
  <2>2. Total([load \in Loads(limit, s) |-> Over(load[3], limit)])
          = LimitExcess(limit, s, Weekdays)
    <3>1. CASE limit.kind = "max_daily_lessons"
      BY <2>1, <3>1, DailyExcessAgrees
    <3>2. CASE limit.kind = "consecutive_limit"
      BY <2>1, <3>2, WindowExcessAgrees
    <3> QED BY <2>1, <3>1, <3>2
  <2> QED BY <2>2 DEF LimitCost
<1>2. SoftExcess(s) = Total([limit \in SoftLimits |-> LimitCost(limit, s)])
  BY DEF SoftExcess, SoftLimits, LimitCost
<1>3. [limit \in SoftLimits |-> LimitCost(limit, s)]
        = [limit \in SoftLimits |-> limit.penalty * LimitExcess(limit, s, Weekdays)]
  BY <1>1
<1> QED BY <1>2, <1>3 DEF TotalScore

\* The positions of the chosen actions, summed up, are at most the number of options:
\* below each chosen action its lesson has as many others.
LEMMA IndexesAreBounded ==
  ASSUME problem \in Problems, NEW s \in Selections
  PROVE  LET ties == Total([a \in s |-> a.index])
         IN  ties \in Nat /\ ties <= Cardinality(problem.options)
<1> DEFINE f == [a \in s |-> a.index]
           U == Units(f)
           Below(a, i) == CHOOSE b \in problem.options :
                            b.lesson = a.lesson /\ b.index = i - 1
           g == [u \in U |-> Below(u[1], u[2])]
<1>1. /\ s \subseteq problem.options /\ IsFiniteSet(s) /\ IsFiniteSet(problem.options)
      /\ \A a, b \in s : a # b => a.lesson # b.lesson
  BY OptionFacts, FS_Subset DEF Selections
<1>2. f \in [s -> Nat]
  BY <1>1, OptionFacts
<1>3. /\ IsFiniteSet(U) /\ Total(f) = Cardinality(U) /\ Total(f) \in Nat
      /\ \A u : u \in U <=> \E a \in s : \E i \in 1..f[a] : u = <<a, i>>
  <2> HIDE DEF f
  <2> QED BY <1>1, <1>2, TotalIsNat
<1>4. ASSUME NEW a \in s, NEW i \in 1..a.index
      PROVE  /\ Below(a, i) \in problem.options
             /\ Below(a, i).lesson = a.lesson /\ Below(a, i).index = i - 1
  <2>1. a \in problem.options /\ a.index \in Nat /\ i - 1 \in 0..a.index
    BY <1>1, OptionFacts
  <2>2. \E b \in problem.options : b.lesson = a.lesson /\ b.index = i - 1
    BY <2>1, OrderAssumption
  <2> QED BY <2>2
<1>5. ASSUME NEW u \in U
      PROVE  \E a \in s : \E i \in 1..a.index :
               /\ u = <<a, i>> /\ g[u] \in problem.options
               /\ g[u].lesson = a.lesson /\ g[u].index = i - 1
  <2>1. PICK a \in s : \E i \in 1..f[a] : u = <<a, i>>
    BY <1>3
  <2>2. PICK i \in 1..a.index : u = <<a, i>>
    BY <2>1
  <2>3. g[u] = Below(a, i)
    BY <2>2
  <2> QED BY <1>4, <2>2, <2>3
<1> HIDE DEF U, g, f
<1>6. g \in Injection(U, problem.options)
  <2>1. ASSUME NEW u \in U, NEW v \in U, g[u] = g[v]
        PROVE  u = v
    <3>1. PICK a \in s, i \in Int :
            u = <<a, i>> /\ g[u].lesson = a.lesson /\ g[u].index = i - 1
      BY <1>5
    <3>2. PICK b \in s, j \in Int :
            v = <<b, j>> /\ g[v].lesson = b.lesson /\ g[v].index = j - 1
      BY <1>5
    <3>3. a = b
      BY <1>1, <2>1, <3>1, <3>2
    <3>4. i = j
      BY <2>1, <3>1, <3>2
    <3> QED BY <3>1, <3>2, <3>3, <3>4
  <2>2. g \in [U -> problem.options]
    <3>1. \A u \in U : g[u] \in problem.options
      BY <1>5
    <3> QED BY <3>1 DEF g
  <2> QED BY <2>1, <2>2 DEF Injection, IsInjective
<1>7. Cardinality(U) <= Cardinality(problem.options)
  BY <1>1, <1>6, FS_Injection
<1> QED BY <1>3, <1>7 DEF f

\* The objective is the weighted score, plus ties below the weight, plus what missing
\* lessons add; a complete schedule misses none.
LEMMA ObjectiveFacts ==
  ASSUME problem \in Problems, NEW s \in Selections
  PROVE  \E weight, score, ties, missing \in Nat :
           /\ weight = ScoreWeight /\ score = Score(problem, s) + SoftExcess(s)
           /\ Objective(s) = weight * score + ties + missing
           /\ ties < weight /\ (Placed(s) = problem.lessons => missing = 0)
<1> DEFINE n == Cardinality(problem.lessons)
           m == Cardinality(problem.options)
           rest == problem.lessons \ Placed(s)
           f == [l \in rest |-> n + 1 - l]
           ties == Total([a \in s |-> a.index])
           score == Score(problem, s) + SoftExcess(s)
<1>1. /\ s \in SUBSET problem.options
      /\ IsFiniteSet(problem.lessons) /\ IsFiniteSet(problem.options)
  BY ProblemsAssumption DEF ProblemOK, Selections
<1>2. n \in Nat /\ m \in Nat /\ problem.lessons = 1..n
  BY <1>1, FS_CardinalityType, OrderAssumption
<1>3. score \in Nat
  <2>1. Score(problem, s) \in Nat /\ SoftExcess(s) \in Nat
    BY <1>1, ScoreIsNat, SoftExcessIsNat
  <2> QED BY <2>1
<1>4. ties \in Nat /\ ties <= m
  BY IndexesAreBounded
<1>5. ScoreWeight \in Nat /\ m < ScoreWeight
  <2>1. n * n \in Nat
    BY <1>2
  <2>2. ScoreWeight = n * n + m + 1
    BY DEF ScoreWeight
  <2> HIDE DEF n, m
  <2> QED BY <1>2, <2>1, <2>2
<1>6. f \in [rest -> Nat] /\ IsFiniteSet(rest)
  <2>1. IsFiniteSet(rest)
    BY <1>1, FS_Subset
  <2> HIDE DEF n
  <2> QED BY <1>2, <2>1
<1>7. Total(f) \in Nat /\ (Placed(s) = problem.lessons => Total(f) = 0)
  <2>1. /\ Total(f) \in Nat /\ Total(f) = Cardinality(Units(f))
        /\ \A u : u \in Units(f) <=> \E l \in rest : \E i \in 1..f[l] : u = <<l, i>>
    <3> HIDE DEF f, rest
    <3> QED BY <1>6, TotalIsNat
  <2>2. ASSUME Placed(s) = problem.lessons
        PROVE  Total(f) = 0
    <3>1. Units(f) = {}
      BY <2>1, <2>2
    <3> QED BY <2>1, <3>1, FS_EmptySet
  <2> QED BY <2>1, <2>2
<1>8. Objective(s) = ScoreWeight * score + ties + Total(f)
  BY DEF Objective
<1> HIDE DEF n, m, rest, f, ties, score
<1>9. /\ ScoreWeight \in Nat /\ score \in Nat /\ ties \in Nat /\ Total(f) \in Nat
      /\ ties < ScoreWeight
  BY <1>2, <1>3, <1>4, <1>5, <1>7
<1>10. score = Score(problem, s) + SoftExcess(s)
  BY DEF score
<1> QED BY <1>7, <1>8, <1>9, <1>10

LEMMA ObjectiveIsNat ==
  ASSUME problem \in Problems, NEW s \in Selections
  PROVE  Objective(s) \in Nat
<1>1. PICK weight, score, ties, missing \in Nat :
        Objective(s) = weight * score + ties + missing
  BY ObjectiveFacts
<1>2. weight * score \in Nat
  BY <1>1
<1> QED BY <1>1, <1>2

\* Ties, all below the weight, never outweigh the score.
LEMMA WeightDecides ==
  ASSUME NEW weight \in Nat, NEW x \in Nat, NEW y \in Nat, NEW i \in Nat, NEW j \in Nat,
         weight * x + i <= weight * y + j, j < weight
  PROVE  x <= y
<1> SUFFICES ASSUME y < x
             PROVE  FALSE
  OBVIOUS
<1>1. PICK d \in Nat : x = y + 1 + d
  <2>1. x - y - 1 \in Nat
    OBVIOUS
  <2> QED BY <2>1
<1>2. weight * x = weight * y + weight + weight * d
  BY <1>1
<1>3. weight * d \in Nat /\ weight * y \in Nat
  OBVIOUS
<1> QED BY <1>2, <1>3

LEMMA CheaperIsBetter ==
  ASSUME problem \in Problems, NEW s \in Selections, NEW t \in Selections,
         Placed(s) = problem.lessons, Placed(t) = problem.lessons,
         Objective(s) <= Objective(t)
  PROVE  Score(problem, s) + SoftExcess(s) <= Score(problem, t) + SoftExcess(t)
<1>1. PICK weight \in Nat, x \in Nat, i \in Nat :
        /\ weight = ScoreWeight /\ x = Score(problem, s) + SoftExcess(s)
        /\ Objective(s) = weight * x + i
  <2>1. PICK weight, x, i, missing \in Nat :
          /\ weight = ScoreWeight /\ x = Score(problem, s) + SoftExcess(s)
          /\ Objective(s) = weight * x + i + missing
          /\ i < weight /\ (Placed(s) = problem.lessons => missing = 0)
    BY ObjectiveFacts
  <2>2. weight * x \in Nat
    BY <2>1
  <2>3. weight * x + i + missing = weight * x + i
    BY <2>1, <2>2
  <2> QED BY <2>1, <2>3
<1>2. PICK y \in Nat, j \in Nat :
        /\ y = Score(problem, t) + SoftExcess(t) /\ j < weight
        /\ Objective(t) = weight * y + j
  <2>1. PICK other, y, j, missing \in Nat :
          /\ other = ScoreWeight /\ y = Score(problem, t) + SoftExcess(t)
          /\ Objective(t) = other * y + j + missing
          /\ j < other /\ (Placed(t) = problem.lessons => missing = 0)
    BY ObjectiveFacts
  <2>2. other * y \in Nat /\ other = weight
    BY <1>1, <2>1
  <2>3. other * y + j + missing = weight * y + j
    BY <2>1, <2>2
  <2> QED BY <2>1, <2>2, <2>3
<1>3. x <= y
  BY <1>1, <1>2, WeightDecides
<1> QED BY <1>1, <1>2, <1>3

-----------------------------------------------------------------------------
(* The optimum.                                                            *)

LEMMA BestFacts ==
  ASSUME problem \in Problems, NEW sets \in SUBSET Selections, NEW s \in Best(sets)
  PROVE  s \in sets /\ \A t \in sets : Objective(s) <= Objective(t)
<1> DEFINE values == {Objective(t) : t \in sets}
           least == Min(values)
<1>1. s \in sets /\ Objective(s) = least
  BY DEF Best
<1>2. values \in SUBSET Nat /\ values # {}
  <2>1. \A t \in sets : Objective(t) \in Nat
    BY ObjectiveIsNat
  <2> QED BY <1>1, <2>1
<1>3. \A t \in sets : Objective(t) \in values
  OBVIOUS
<1> HIDE DEF values
<1>4. \A x \in values : least <= x
  BY <1>2, MinOfNats
<1> QED BY <1>1, <1>3, <1>4

LEMMA SameObjective ==
  ASSUME problem' = problem
  PROVE  \A s : Objective(s)' = Objective(s)
<1>1. Weekdays' = Weekdays /\ ScoreWeight' = ScoreWeight
  BY DEF Weekdays, ScoreWeight
<1>2. \A limit, day : Windows(limit, day)' = Windows(limit, day)
  BY DEF Windows
<1>3. \A limit, s : Loads(limit, s)' = Loads(limit, s)
  BY <1>1, <1>2 DEF Loads
<1>4. \A s : SoftExcess(s)' = SoftExcess(s)
  BY <1>3 DEF SoftExcess
<1> QED BY <1>1, <1>4 DEF Objective

\* What the search for quality returned is what is reported; found optimal it is a
\* start that costs nothing, or a solution that no other of its size undercuts.
Unbeaten(best) ==
  \A s \in Solutions : Cardinality(s) = Cardinality(best) => Objective(best) <= Objective(s)

BestInv ==
  /\ stage \in {"starting", "feasible"} => quality = "none"
  /\ Improved => reported = quality
  /\ quality = "OPTIMAL" =>
       \/ Score(problem, schedule) = 0 /\ problem.limits = {}
       \/ \E best \in Solutions : best = schedule /\ Unbeaten(best)

LEMMA BestInitHolds == Init => BestInv
BY DEF Init, BestInv, Improved

LEMMA SameBest ==
  ASSUME problem' = problem
  PROVE  \A s : Unbeaten(s)' <=> Unbeaten(s)
BY SameModel, SameObjective DEF Unbeaten

LEMMA BestKept ==
  ASSUME RunInv, BestInv, [Next]_vars
  PROVE  BestInv'
<1>1. problem \in Problems /\ Solutions \subseteq Selections
  BY DEF RunInv, TypeOK, GreedyTypeOK, Solutions
<1>2. CASE Greedy
  <2>1. stage = "starting"
    BY <1>2 DEF RunInv, Greedy, GreedyNext, PlaceLesson, PlacingFails,
                RepairDirectly, RepairByRelocating, RepairFails, NextPass
  <2> QED BY <1>2, <2>1 DEF Greedy, solver, BestInv, Improved
<1>3. CASE ReturnStart
  BY <1>3 DEF ReturnStart, FastPath, greedy, BestInv, Improved
<1>4. CASE SolveOptimal \/ SolveFeasible \/ SolveNothing
  BY <1>4 DEF SolveOptimal, SolveFeasible, SolveNothing, Solve, Started, BestInv, Improved
<1>5. CASE ImproveOptimal
  <2>1. /\ schedule' \in Best(SameCount) /\ problem' = problem /\ stage' = "solved"
        /\ SameCount \in SUBSET Selections
    BY <1>1, <1>5 DEF ImproveOptimal, Improve, SameCount
  <2>2. /\ schedule' \in SameCount
        /\ \A t \in SameCount : Objective(schedule') <= Objective(t)
    <3> SUFFICES ASSUME NEW s, s = schedule'
                 PROVE  s \in SameCount /\ \A t \in SameCount : Objective(s) <= Objective(t)
      OBVIOUS
    <3> QED BY <1>1, <2>1, BestFacts
  <2>3. PICK best \in Solutions : best = schedule' /\ Unbeaten(best)
    BY <2>2 DEF SameCount, Unbeaten
  <2>4. best \in Solutions' /\ Unbeaten(best)'
    BY <2>1, <2>3, SameModel, SameBest
  <2>5. quality' = "OPTIMAL" /\ reported' = "OPTIMAL"
    BY <1>5 DEF ImproveOptimal, Improve, StatusAfter
  <2> QED BY <2>1, <2>3, <2>4, <2>5 DEF BestInv, Improved
<1>6. CASE ImproveFeasible \/ ImproveNothing
  BY <1>6 DEF ImproveFeasible, ImproveNothing, Improve, StatusAfter, BestInv, Improved
<1>7. CASE NoTimeLeft
  BY <1>7 DEF NoTimeLeft, BestInv, Improved
<1>8. CASE CompleteRound \/ UNCHANGED vars
  <2>1. /\ UNCHANGED <<problem, schedule, quality, reported>>
        /\ stage' \in {"starting", "feasible"} => stage' = stage
    BY <1>8 DEF CompleteRound, greedy, solver, vars
  <2>2. \A best : /\ best \in Solutions <=> best \in Solutions'
                  /\ Unbeaten(best)' <=> Unbeaten(best)
    BY <2>1, SameModel, SameBest
  <2> QED BY <2>1, <2>2 DEF BestInv, Improved
<1> QED BY <1>2, <1>3, <1>4, <1>5, <1>6, <1>7, <1>8 DEF Next

\* A result reported as optimal, after a search for quality that returned something,
\* has the least total score of all timetables (cp_sat.py:232-238, :1067-1090).
THEOREM OptimalStaysCheapest == Spec => []OptimalIsCheapest
<1>1. ASSUME RunInv, BestInv, outcome = "succeeded", quality = "OPTIMAL",
             NumberedAlike(problem),
             \A limit \in problem.limits : SameWeeks(limit) /\ FitsWindow(limit),
             NEW t \in Timetables
      PROVE  TotalScore(schedule) <= TotalScore(t)
  <2>1. problem \in Problems /\ schedule \in SUBSET problem.options
    BY <1>1 DEF RunInv, TypeOK, GreedyTypeOK
  <2>2. /\ t \in SUBSET problem.options /\ Compatible(problem, t)
        /\ Placed(t) = problem.lessons
    BY <1>1 DEF Timetables, TimetablesOf, IsTimetable
  <2>3. Compatible(problem, schedule) /\ Placed(schedule) = problem.lessons
    BY <1>1 DEF RunInv, Validated
  <2>4. CASE Score(problem, schedule) = 0 /\ problem.limits = {}
    <3> DEFINE none(s) == [limit \in SoftLimits |-> limit.penalty * LimitExcess(limit, s, Weekdays)]
    <3>1. SoftLimits = {}
      BY <2>4 DEF SoftLimits
    <3>2. none(schedule) = none(t) /\ none(t) \in [{} -> Nat]
      BY <3>1
    <3>3. /\ TotalScore(schedule) = Score(problem, schedule) + Total(none(schedule))
          /\ TotalScore(t) = Score(problem, t) + Total(none(t))
      BY DEF TotalScore
    <3> HIDE DEF none
    <3>4. Total(none(t)) \in Nat
      BY <3>2, FS_EmptySet, TotalIsNat
    <3>5. Score(problem, t) \in Nat
      BY <2>1, <2>2, ScoreIsNat
    <3> QED BY <2>4, <3>2, <3>3, <3>4, <3>5
  <2>5. CASE \E best \in Solutions : best = schedule /\ Unbeaten(best)
    <3>1. schedule \in Solutions /\ Unbeaten(schedule)
      BY <2>5
    <3>2. t \in Solutions
      BY <1>1, <2>1, TimetableIsSolution
    <3>3. schedule \in Selections /\ t \in Selections
      BY <3>1, <3>2 DEF Solutions
    <3>4. Cardinality(t) = Cardinality(schedule)
      BY <2>1, <2>2, <2>3, <3>3, SelectionSize
    <3>5. Objective(schedule) <= Objective(t)
      BY <3>1, <3>2, <3>4 DEF Unbeaten
    <3>6. Score(problem, schedule) + SoftExcess(schedule) <= Score(problem, t) + SoftExcess(t)
      BY <2>1, <2>2, <2>3, <3>3, <3>5, CheaperIsBetter
    <3>7. /\ TotalScore(schedule) = Score(problem, schedule) + SoftExcess(schedule)
          /\ TotalScore(t) = Score(problem, t) + SoftExcess(t)
      BY <1>1, <2>1, <2>2, <2>3, ObjectiveCountsScore
    <3> QED BY <3>6, <3>7
  <2> QED BY <1>1, <2>4, <2>5 DEF BestInv
<1>2. BestInv /\ Improved /\ reported = "OPTIMAL" => quality = "OPTIMAL"
  BY DEF BestInv
<1>3. RunInv /\ BestInv => OptimalIsCheapest
  BY <1>1, <1>2 DEF OptimalIsCheapest, IsOptimal
<1> QED BY <1>3, RunInitHolds, RunKeeps, BestInitHolds, BestKept, PTL DEF Spec
=============================================================================
