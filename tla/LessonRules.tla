---------------------------- MODULE LessonRules ----------------------------
(***************************************************************************)
(* What a timetable has to respect: the rules between lessons that the     *)
(* engines in sidecar/stt_desktop/scheduler_engine share (cgcs.py), and    *)
(* the limits on the load of a teacher or a class (cp_sat.py).             *)
(*                                                                         *)
(* A problem has                                                           *)
(*   lessons  the lessons to be placed ("class" in the XML),               *)
(*   options  the actions that would place one of them,                    *)
(*   rules    distributions: a kind, the lessons it relates in order,      *)
(*            whether it is required and what a violation costs otherwise, *)
(*   limits   resource limits: a kind, a maximum, the lessons counted, and *)
(*            again required and penalty.                                  *)
(* An action puts a lesson at a time (days and weeks as sets of positions  *)
(* of the bit strings, which are never all zero) in a room or in none, at  *)
(* a cost.                                                                 *)
(***************************************************************************)
EXTENDS Integers, Sequences, FiniteSets, FiniteSetsExt

\* Rooms are numbers; an action of a lesson that needs none has room 0.
NoRoom == 0

Kinds ==
  {"NotOverlap", "SameRoom", "DifferentTime", "DifferentDays",
   "DifferentWeeks", "SameDays", "SameStart", "SameTime", "Precedence",
   "Consecutive", "DifferentWeekSameDaySameStart"}

\* What the engines assume of a problem; a maximum below 1 is raised to 1
\* (service.py:968, :1026).
ProblemOK(p) ==
  /\ IsFiniteSet(p.lessons) /\ IsFiniteSet(p.options)
  /\ IsFiniteSet(p.rules) /\ IsFiniteSet(p.limits)
  /\ \A a \in p.options :
       /\ a.lesson \in p.lessons
       /\ a.start \in Nat /\ a.length \in Nat \ {0} /\ a.period \in Nat
       /\ a.days # {} /\ IsFiniteSet(a.days) /\ a.weeks # {}
       /\ a.room \in Nat /\ a.cost \in Nat
  /\ \A rule \in p.rules :
       /\ rule.lessons \in Seq(p.lessons) /\ rule.required \in BOOLEAN
       /\ rule.penalty \in Nat
  /\ \A limit \in p.limits :
       /\ limit.kind \in {"max_daily_lessons", "consecutive_limit"}
       /\ limit.max \in Nat \ {0} /\ limit.penalty \in Nat
       /\ limit.required \in BOOLEAN /\ limit.lessons \subseteq p.lessons

\* The sum of the naturals f[x] over the finite domain of f, counted unit by unit.
Total(f) == Cardinality(UNION {{x} \X (1..f[x]) : x \in DOMAIN f})

-----------------------------------------------------------------------------
(* Two actions.                                                            *)

SharesWeek(l, r) == l.weeks \cap r.weeks # {}
SharesDay(l, r)  == l.days \cap r.days # {}
End(a)           == a.start + a.length

Overlaps(l, r) ==
  SharesWeek(l, r) /\ SharesDay(l, r) /\ l.start < End(r) /\ r.start < End(l)

\* The position of an action's lesson among the lessons of a rule.
Position(rule, a) == CHOOSE i \in DOMAIN rule.lessons : rule.lessons[i] = a.lesson

ViolatesPrecedence(rule, l, r) ==
  /\ Position(rule, l) # Position(rule, r)
  /\ SharesWeek(l, r) /\ SharesDay(l, r)
  /\ IF Position(rule, l) < Position(rule, r) THEN End(l) > r.start
                                              ELSE End(r) > l.start

NotRightAfter(earlier, later) ==
  \/ earlier.weeks # later.weeks \/ earlier.days # later.days
  \/ later.period # earlier.period + 1

\* Only neighbours of the chain are compared.
ViolatesConsecutive(rule, l, r) ==
  \/ Position(rule, r) = Position(rule, l) + 1 /\ NotRightAfter(l, r)
  \/ Position(rule, l) = Position(rule, r) + 1 /\ NotRightAfter(r, l)

Violates(rule, l, r) ==
  \/ rule.kind = "NotOverlap" /\ Overlaps(l, r)
  \/ rule.kind = "SameRoom" /\ l.room # r.room
  \/ /\ rule.kind = "DifferentTime"
     /\ SharesWeek(l, r) /\ SharesDay(l, r) /\ l.start = r.start
  \/ rule.kind = "DifferentDays" /\ SharesWeek(l, r) /\ SharesDay(l, r)
  \/ rule.kind = "DifferentWeeks" /\ SharesWeek(l, r)
  \/ rule.kind = "SameDays" /\ l.days # r.days
  \/ rule.kind = "SameStart" /\ l.start # r.start
  \/ /\ rule.kind = "SameTime"
     /\ \/ l.days # r.days   \/ l.weeks # r.weeks
        \/ l.start # r.start \/ l.length # r.length
  \/ rule.kind = "Precedence" /\ ViolatesPrecedence(rule, l, r)
  \/ rule.kind = "Consecutive" /\ ViolatesConsecutive(rule, l, r)
  \/ /\ rule.kind = "DifferentWeekSameDaySameStart"
     /\ SharesWeek(l, r) \/ l.days # r.days \/ l.start # r.start

LessonsOf(rule) == {rule.lessons[i] : i \in DOMAIN rule.lessons}

RoomClash(l, r) == l.room # NoRoom /\ l.room = r.room /\ Overlaps(l, r)

\* The rules of a problem, required or soft, that relate two actions of different
\* lessons and are violated by them.
Broken(problem, l, r, required) ==
  {rule \in problem.rules :
     /\ rule.required = required
     /\ {l.lesson, r.lesson} \subseteq LessonsOf(rule)
     /\ Violates(rule, l, r)}

Conflict(problem, l, r) ==
  RoomClash(l, r) \/ Broken(problem, l, r, TRUE) # {}

\* No two actions of a schedule conflict.
Compatible(problem, schedule) ==
  \A l, r \in schedule : l # r => l.lesson # r.lesson /\ ~Conflict(problem, l, r)

Placed(schedule) == {a.lesson : a \in schedule}

OptionsOf(problem, lesson) == {a \in problem.options : a.lesson = lesson}

-----------------------------------------------------------------------------
(* The score of a schedule: _score and _score_resource_limits.             *)

Pairs(schedule) == {s \in SUBSET schedule : Cardinality(s) = 2}

BrokenCost(problem, l, r) ==
  Total([rule \in Broken(problem, l, r, FALSE) |-> rule.penalty])

RuleScore(problem, schedule) ==
  Total([s \in Pairs(schedule) |-> LET l == CHOOSE x \in s : TRUE
                                       r == CHOOSE x \in s : x # l
                                   IN BrokenCost(problem, l, r)])

CostScore(schedule) == Total([a \in schedule |-> a.cost])

Score(problem, schedule) == CostScore(schedule) + RuleScore(problem, schedule)

OnDay(limit, schedule, day) ==
  {a \in schedule : a.lesson \in limit.lessons /\ day \in a.days}

DayLoad(limit, schedule, day) ==
  Total([a \in OnDay(limit, schedule, day) |-> a.length])

Periods(a) == a.period .. a.period + a.length - 1

\* The periods of a day that are taken; of two lessons in the same period, in
\* different weeks, only one counts.
Occupied(limit, schedule, day) ==
  UNION {Periods(a) : a \in OnDay(limit, schedule, day)}

Over(n, limit) == IF n > limit.max THEN n - limit.max ELSE 0

LimitExcess(limit, schedule, days) ==
  IF limit.kind = "max_daily_lessons"
  THEN Total([d \in days |-> Over(DayLoad(limit, schedule, d), limit)])
  ELSE Total([d \in days |->
         LET taken == Occupied(limit, schedule, d)
         IN  Total([w \in taken |->
               Over(Cardinality(taken \cap (w .. w + limit.max)), limit)])])

-----------------------------------------------------------------------------
(* The validator of results and of moves: _validate_solution.              *)

\* The longest run of slots that are taken on a day.
LongestRun(taken) ==
  LET runs == {n \in 0..Cardinality(taken) :
                 n = 0 \/ \E x \in taken : x .. (x + n - 1) \subseteq taken}
  IN  Max(runs)

Slots(a) == a.start .. End(a) - 1

SlotsTaken(limit, s, day) == UNION {Slots(a) : a \in OnDay(limit, s, day)}

Excess(limit, s, day) ==
  IF limit.kind = "max_daily_lessons"
  THEN DayLoad(limit, s, day) - limit.max
  ELSE LongestRun(SlotsTaken(limit, s, day)) - limit.max

DaysOf(s) == UNION {a.days : a \in s}

\* The required limits that a schedule is over.
Exceeded(problem, s) ==
  {limit \in problem.limits :
     limit.required /\ \E day \in DaysOf(s) : Excess(limit, s, day) > 0}

-----------------------------------------------------------------------------
(* The reference: what a timetable is.                                     *)

\* What a limit means (docs/desktop/33): a day has no more lessons than the
\* maximum, and no window of one period more than the maximum is full.
KeepsLimit(limit, s) ==
  \A day \in DaysOf(s) :
    IF limit.kind = "max_daily_lessons"
    THEN DayLoad(limit, s, day) <= limit.max
    ELSE LET taken == Occupied(limit, s, day)
         IN  \A w \in taken : ~ w .. (w + limit.max) \subseteq taken

IsTimetable(problem, s) ==
  /\ s \subseteq problem.options
  /\ Compatible(problem, s) /\ Placed(s) = problem.lessons
  /\ \A limit \in problem.limits : limit.required => KeepsLimit(limit, s)

\* What a result or a move has been through when it becomes a candidate.
Validated(problem, s) ==
  /\ s \subseteq problem.options
  /\ Compatible(problem, s) /\ Placed(s) = problem.lessons
  /\ Exceeded(problem, s) = {}

\* On each day, the lessons of a limit on consecutive periods have their slots
\* numbered as their periods are, up to a shift: they follow one bell schedule, or
\* several with the same numbers.
OneNumbering(problem, limit) ==
  limit.kind = "consecutive_limit" =>
    \A a, b \in problem.options :
      {a.lesson, b.lesson} \subseteq limit.lessons /\ SharesDay(a, b) =>
        a.start - a.period = b.start - b.period

NumberedAlike(problem) == \A limit \in problem.limits : OneNumbering(problem, limit)

TimetablesOf(problem) == {s \in SUBSET problem.options : IsTimetable(problem, s)}
=============================================================================
