------------------------------ MODULE SolverRun ------------------------------
(***************************************************************************)
(* run_cp_sat_v1 (sidecar/stt_desktop/scheduler_engine/cp_sat.py) and what *)
(* complete_round (scheduling/service.py) makes of its result: a schedule  *)
(* to start from, made greedily or taken from the parent candidate; the    *)
(* rules compiled into groups and pairs of actions that exclude each       *)
(* other; a search for as many lessons as possible, then one for quality;  *)
(* and the validation of the limits.                                       *)
(*                                                                         *)
(* CP-SAT itself is a library: within its time it returns the optimum of   *)
(* the model it was given, or some solution, or nothing.                   *)
(***************************************************************************)
EXTENDS GreedySchedule

VARIABLES
  stage,        \* "starting", "feasible", "solved" or "settled"
  feasibility,  \* feasibility_status
  quality,      \* quality_status
  reported,     \* solver_status, and what the log calls the result
  outcome       \* status of the round: "solving", "succeeded", "infeasible"

solver == <<stage, feasibility, quality, reported, outcome>>
vars == <<greedy, solver>>

\* Lessons are numbered in the order of the problem, and the options of a lesson
\* from 0, the cheapest (cp_sat.py:352-354).
ASSUME OrderAssumption ==
  \A p \in Problems :
    /\ p.lessons = 1..Cardinality(p.lessons)
    /\ \A a \in p.options :
         /\ a.index \in Nat
         /\ \A i \in 0..a.index :
              \E b \in p.options : b.lesson = a.lesson /\ b.index = i

\* The lessons of a limit are those of one teacher or of one class, or some of them,
\* and that these do not overlap is always a rule (service.py:838-840, :962-969).
ASSUME OwnersAssumption ==
  \A p \in Problems : \A limit \in p.limits : \A l, m \in limit.lessons :
    l # m => \E rule \in p.rules :
               /\ rule.kind = "NotOverlap" /\ rule.required
               /\ {l, m} \subseteq LessonsOf(rule)

Statuses == {"none", "OPTIMAL", "FEASIBLE", "UNKNOWN"}

\* Types, and that the greedy engine loses no lesson: each is placed, failed or
\* still to come (cgcs.py:109-190).
TypeOK ==
  /\ GreedyTypeOK /\ (stage = "starting" => Accounted)
  /\ stage \in {"starting", "feasible", "solved", "settled"}
  /\ {feasibility, quality, reported} \subseteq Statuses
  /\ outcome \in {"solving", "succeeded", "infeasible"}

Complete(s) == Placed(s) = problem.lessons

-----------------------------------------------------------------------------
(* The compiled rules: _compile_constraints.                               *)

BucketKinds == {"NotOverlap", "DifferentDays", "DifferentWeeks", "DifferentTime"}

\* Mutant: the length is not part of the signature of a time.
Signature_NoLength(kind, a) ==
  CASE kind = "DifferentDays"  -> <<a.weeks, a.days>>
    [] kind = "DifferentWeeks" -> <<a.weeks>>
    [] OTHER                   -> <<a.weeks, a.days, a.start>>

Signature(kind, a) ==
  CASE kind = "NotOverlap"     -> <<a.weeks, a.days, a.start, a.length>>
    [] kind = "DifferentDays"  -> <<a.weeks, a.days>>
    [] kind = "DifferentWeeks" -> <<a.weeks>>
    [] OTHER                   -> <<a.weeks, a.days, a.start>>

\* _compile_conflict_buckets: actions of one signature exclude each other; of
\* two buckets only the first members are compared, for all the others.
Buckets(kind, actions) ==
  {{b \in actions : Signature(kind, b) = Signature(kind, a)} : a \in actions}

First(bucket) == CHOOSE a \in bucket : \A b \in bucket :
                   a.lesson < b.lesson \/ (a.lesson = b.lesson /\ a.index <= b.index)

Groups(kind, actions) ==
  {b \in Buckets(kind, actions) : Cardinality(Placed(b)) >= 2}

BucketPairs(rule, actions) ==
  UNION {UNION {{{l, r} : l \in left, r \in right} :
                right \in {b \in Buckets(rule.kind, actions) :
                             b # left /\ Violates(rule, First(left), First(b))}} :
         left \in Buckets(rule.kind, actions)}

\* Two actions in one room must not overlap.
RoomRule == [kind |-> "NotOverlap"]

RoomActions(room) == {a \in problem.options : a.room = room}
Rooms == {a.room : a \in problem.options} \ {NoRoom}

RuleActions(rule) == {a \in problem.options : a.lesson \in LessonsOf(rule)}
BucketRules == {r \in problem.rules : r.required /\ r.kind \in BucketKinds}

HardGroups ==
  (UNION {Groups("NotOverlap", RoomActions(room)) : room \in Rooms})
    \cup (UNION {Groups(rule.kind, RuleActions(rule)) : rule \in BucketRules})

DifferentLessons(pairs) == {p \in pairs : Cardinality(Placed(p)) = 2}

PairsOf(rule) ==
  UNION {{{l, r} : r \in {b \in RuleActions(rule) :
                            l.lesson # b.lesson /\ Violates(rule, l, b)}} :
         l \in RuleActions(rule)}

HardPairs ==
  (UNION {DifferentLessons(BucketPairs(RoomRule, RoomActions(room))) : room \in Rooms})
    \cup (UNION {DifferentLessons(BucketPairs(rule, RuleActions(rule))) :
                 rule \in BucketRules})
    \cup (UNION {PairsOf(rule) :
                 rule \in {r \in problem.rules \ BucketRules : r.required}})

\* What no two of may be chosen, directly or as members of a group.
Excluded == HardPairs \cup (UNION {DifferentLessons(Pairs(g)) : g \in HardGroups})

-----------------------------------------------------------------------------
(* The compiled limits: _compile_resource_limits.                          *)

Weekdays == DaysOf(problem.options)

\* How much of an action lies in a window of limit + 1 periods; actions in the
\* same period add up.
WindowLoad(limit, s, day, window) ==
  Total([a \in OnDay(limit, s, day) |->
           Cardinality(Periods(a) \cap (window .. window + limit.max))])

Windows(limit, day) ==
  LET periods == {a.period : a \in OnDay(limit, problem.options, day)}
  IN  IF periods = {} THEN {} ELSE Min(periods) .. Max(periods)

\* The values that the model keeps within the maximum.
Loads(limit, s) ==
  IF limit.kind = "max_daily_lessons"
  THEN {<<d, 0, DayLoad(limit, s, d)>> : d \in Weekdays}
  ELSE UNION {{<<d, w, WindowLoad(limit, s, d, w)>> : w \in Windows(limit, d)} :
              d \in Weekdays}

\* Mutant: the maximum itself is not allowed.
Within_Strict(limit, s) == \A load \in Loads(limit, s) : load[3] < limit.max

Within(limit, s) == \A load \in Loads(limit, s) : load[3] <= limit.max

-----------------------------------------------------------------------------
(* The model.                                                              *)

Selections == {s \in SUBSET problem.options :
              \A a, b \in s : a # b => a.lesson # b.lesson}

\* The assignments of truth values that satisfy the model, as schedules.
Solutions ==
  LET groups == HardGroups
      pairs == HardPairs
  IN {s \in Selections :
        /\ \A g \in groups : Cardinality(s \cap g) <= 1
        /\ \A p \in pairs : ~ p \subseteq s
        /\ \A limit \in {x \in problem.limits : x.required} : Within(limit, s)}

\* Mutant: ties count as much as the score.
ScoreWeight_One == 1

\* score_weight
ScoreWeight ==
  Cardinality(problem.lessons) * Cardinality(problem.lessons)
    + Cardinality(problem.options) + 1

SoftExcess(s) ==
  Total([limit \in {x \in problem.limits : ~x.required} |->
           limit.penalty * Total([load \in Loads(limit, s) |-> Over(load[3], limit)])])

\* _build_quality_objective: among equal scores, earlier lessons and earlier
\* actions.
Objective(s) ==
  ScoreWeight * (Score(problem, s) + SoftExcess(s))
    + Total([a \in s |-> a.index])
    + Total([l \in problem.lessons \ Placed(s) |-> Cardinality(problem.lessons) + 1 - l])

-----------------------------------------------------------------------------
(* The validator: _validate_solution.                                      *)

\* Mutant: what the solver returns is not validated.
HardIssues_None(s) == {}

HardIssues(s) == Exceeded(problem, s)

-----------------------------------------------------------------------------

SoftLimits == {x \in problem.limits : ~x.required}

TotalScore(s) ==
  Score(problem, s)
    + Total([limit \in SoftLimits |-> limit.penalty * LimitExcess(limit, s, Weekdays)])

\* A parent candidate is complete, respects the rules and has been validated.
Parents(p) == {s \in SUBSET p.options : Validated(p, s)}

Init ==
  /\ stage = "starting" /\ feasibility = "none" /\ quality = "none" /\ reported = "none"
  /\ outcome = "solving"
  /\ \/ GreedyInit
     \/ /\ problem \in Problems
        /\ schedule \in Parents(problem)
        /\ phase = "done" /\ todo = {} /\ failed = {} /\ repaired = FALSE

Greedy == GreedyNext /\ UNCHANGED solver

\* Mutant: the limits do not keep a start from being the result.
FastPath_WithLimits == Complete(schedule) /\ Score(problem, schedule) = 0

FastPath ==
  Complete(schedule) /\ Score(problem, schedule) = 0 /\ problem.limits = {}

Started == stage = "starting" /\ phase = "done"

\* Zero is the lower bound of every score: OPTIMAL_ZERO_LOWER_BOUND.
ReturnStart ==
  /\ Started /\ FastPath
  /\ stage' = "solved" /\ feasibility' = "FEASIBLE" /\ quality' = "OPTIMAL"
  /\ reported' = "OPTIMAL"
  /\ UNCHANGED <<greedy, outcome>>

Solve(status, results) ==
  /\ Started /\ ~FastPath
  /\ feasibility' = status /\ reported' = status
  /\ schedule' \in results
  /\ stage' = "feasible"
  /\ UNCHANGED <<problem, phase, todo, failed, repaired, quality, outcome>>

Largest(solutions) ==
  LET size == Max({Cardinality(s) : s \in solutions})
  IN  {s \in solutions : Cardinality(s) = size}

SolveOptimal  == Solve("OPTIMAL", Largest(Solutions))
SolveFeasible == Solve("FEASIBLE", Solutions)
SolveNothing  == Solve("UNKNOWN", {schedule})

\* can_optimize_quality, apart from the time that is left
CanImprove ==
  feasibility = "OPTIMAL" \/ (feasibility = "FEASIBLE" /\ Complete(schedule))

\* A search for quality that finds nothing leaves the status of the first search.
StatusAfter(status) == IF status = "UNKNOWN" THEN reported ELSE status

Improve(status, results) ==
  /\ stage = "feasible" /\ CanImprove
  /\ quality' = status /\ reported' = StatusAfter(status)
  /\ schedule' \in results
  /\ stage' = "solved"
  /\ UNCHANGED <<problem, phase, todo, failed, repaired, feasibility, outcome>>

SameCount == {s \in Solutions : Cardinality(s) = Cardinality(schedule)}

Best(solutions) ==
  LET least == Min({Objective(s) : s \in solutions})
  IN  {s \in solutions : Objective(s) = least}

ImproveOptimal  == Improve("OPTIMAL", Best(SameCount))
ImproveFeasible == Improve("FEASIBLE", SameCount)
ImproveNothing  == Improve("UNKNOWN", {schedule})

\* The status that is reported stays that of the first search here as well.
NoTimeLeft ==
  /\ stage = "feasible" /\ stage' = "solved"
  /\ UNCHANGED <<greedy, feasibility, quality, reported, outcome>>

CompleteRound ==
  /\ stage = "solved"
  /\ outcome' = IF Complete(schedule) /\ HardIssues(schedule) = {}
                THEN "succeeded" ELSE "infeasible"
  /\ stage' = "settled"
  /\ UNCHANGED <<greedy, feasibility, quality, reported>>

Next ==
  \/ Greedy \/ ReturnStart
  \/ SolveOptimal \/ SolveFeasible \/ SolveNothing
  \/ ImproveOptimal \/ ImproveFeasible \/ ImproveNothing \/ NoTimeLeft
  \/ CompleteRound

Spec == Init /\ [][Next]_vars

\* The engine is a sequential program that runs on; the solver stops at its time
\* limit, with nothing if need be.
LiveSpec ==
  Spec /\ WF_vars(Greedy) /\ WF_vars(ReturnStart) /\ WF_vars(SolveNothing)
       /\ WF_vars(NoTimeLeft) /\ WF_vars(CompleteRound)

-----------------------------------------------------------------------------
(* Properties of the greedy engine.                                        *)

\* When the repair gives up on a lesson, there is no compatible schedule that has
\* this lesson too and differs from the one found in the place of at most one
\* other (cgcs.py:162-258).
FailedHaveNoPlace ==
  stage = "starting" /\ phase = "done" =>
    \A l \in failed :
      ~ \E s \in SUBSET problem.options :
          /\ Placed(s) = Placed(schedule) \cup {l}
          /\ Cardinality(schedule \ s) <= 1
          /\ Compatible(problem, s)

-----------------------------------------------------------------------------
(* Properties of the run.                                                  *)

Timetables == TimetablesOf(problem)

\* Two actions of different lessons exclude each other in the compiled model
\* exactly if they conflict, although buckets are compared by their first
\* members only (cp_sat.py:586-619).
CompiledRulesAreExact ==
  stage = "starting" /\ phase = "done" =>
    LET excluded == Excluded
    IN \A l, r \in problem.options :
         l.lesson # r.lesson => ({l, r} \in excluded <=> Conflict(problem, l, r))

\* A round that succeeds has a complete timetable that respects every rule and
\* every required limit, also when the solver ran out of time and the result is
\* the schedule it was given to start from (service.py:413-424; limits across bell
\* schedules of different numbers apart).
AcceptedIsTimetable ==
  outcome = "succeeded" =>
    /\ Validated(problem, schedule)
    /\ NumberedAlike(problem) => schedule \in Timetables

\* The same without exception.
AcceptedKeepsLimits == outcome = "succeeded" => schedule \in Timetables

\* In all lessons of a limit on consecutive periods, actions of different weeks
\* never meet.
SameWeeks(limit) ==
  limit.kind = "consecutive_limit" =>
    \A a, b \in problem.options :
      {a.lesson, b.lesson} \subseteq limit.lessons => a.weeks = b.weeks

\* If the maximum is proved and lessons are missing then there is no timetable
\* (cp_sat.py:193, :317; limits across alternate weeks or across bell schedules of
\* different numbers apart).
ProvedInfeasibleIsInfeasible ==
  /\ outcome = "infeasible" /\ feasibility = "OPTIMAL"
  /\ NumberedAlike(problem) /\ \A limit \in problem.limits : SameWeeks(limit)
  => Timetables = {}

\* The same without exception.
InfeasibleMeansNoTimetable ==
  outcome = "infeasible" /\ feasibility = "OPTIMAL" => Timetables = {}

\* No lesson of a soft limit is longer than a window: the model has no window that
\* starts later than every action, the score has.
FitsWindow(limit) ==
  limit.kind = "consecutive_limit" /\ ~limit.required =>
    \A a \in problem.options : a.lesson \in limit.lessons => a.length <= limit.max + 1

IsOptimal ==
  LET score == TotalScore(schedule)
  IN  \A s \in Timetables : score <= TotalScore(s)

\* The search for quality returned something.
Improved == quality \in {"OPTIMAL", "FEASIBLE"}

\* A result reported as optimal after a search for quality that returned something
\* has the least total score of all timetables; the terms of the objective that
\* break ties never outweigh it (cp_sat.py:233-238, :1067-1090; limits across
\* alternate weeks, across bell schedules of different numbers and with lessons
\* longer than their windows apart).
OptimalIsCheapest ==
  /\ outcome = "succeeded" /\ reported = "OPTIMAL" /\ Improved
  /\ NumberedAlike(problem)
  /\ \A limit \in problem.limits : SameWeeks(limit) /\ FitsWindow(limit)
  => IsOptimal

\* The same for lessons of every length.
OptimalIsCheapestAtAnyLength ==
  /\ outcome = "succeeded" /\ reported = "OPTIMAL" /\ Improved
  /\ NumberedAlike(problem) /\ \A limit \in problem.limits : SameWeeks(limit)
  => IsOptimal

\* The same also when the search for quality returned nothing or had no time.
ReportedOptimalIsCheapest ==
  /\ outcome = "succeeded" /\ reported = "OPTIMAL"
  /\ NumberedAlike(problem)
  /\ \A limit \in problem.limits : SameWeeks(limit) /\ FitsWindow(limit)
  => IsOptimal

\* Every run ends with a verdict: the passes of the repair are not repeated for
\* ever (cgcs.py:169-190).
RunEnds == <>(outcome # "solving")
=============================================================================
