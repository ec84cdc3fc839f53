---------------------------- MODULE MCSolverRun ----------------------------
(* Problems of three lessons: who can be where, one rule besides the one    *)
(* that the lessons of a teacher do not overlap, and a limit.              *)
EXTENDS SolverRun

Option(lesson, index, day, weeks, start, length, room, cost) ==
  [lesson |-> lesson, index |-> index, days |-> {day}, weeks |-> weeks,
   start |-> start, length |-> length, period |-> start, room |-> room,
   cost |-> cost]

Both == {1, 2}

\* Three lessons, the third fits only where the first two could go.
Crowded ==
  {Option(1, 0, 1, Both, 1, 1, 1, 0), Option(1, 1, 1, Both, 3, 1, 1, 0),
   Option(2, 0, 1, Both, 2, 1, 1, 0), Option(2, 1, 2, Both, 1, 1, 1, 1),
   Option(3, 0, 1, Both, 1, 1, 1, 0), Option(3, 1, 1, Both, 2, 1, 2, 1)}

\* Lessons of one and of two periods.
Long ==
  {Option(1, 0, 1, Both, 1, 1, 1, 0), Option(1, 1, 1, Both, 2, 1, 1, 0),
   Option(2, 0, 1, Both, 1, 2, 1, 0), Option(2, 1, 2, Both, 1, 2, 1, 2),
   Option(3, 0, 1, Both, 2, 1, 1, 0), Option(3, 1, 1, Both, 3, 1, 0, 1)}

\* A long lesson can make room for a short one by starting one period later.
Shifting ==
  {Option(1, 0, 1, Both, 1, 1, 0, 0),
   Option(2, 0, 1, Both, 1, 2, 1, 0), Option(2, 1, 1, Both, 2, 2, 1, 1),
   Option(3, 0, 1, Both, 2, 1, 1, 0), Option(3, 1, 1, Both, 4, 1, 1, 1)}

\* Two lessons in alternate weeks.
Alternate ==
  {Option(1, 0, 1, {1}, 1, 1, 0, 0), Option(1, 1, 2, {1}, 1, 1, 0, 1),
   Option(2, 0, 1, {2}, 1, 1, 0, 0),
   Option(3, 0, 1, Both, 2, 1, 0, 0), Option(3, 1, 1, Both, 3, 1, 0, 1)}

Rule(id, kind, lessons, required, penalty) ==
  [id |-> id, kind |-> kind, lessons |-> lessons, required |-> required,
   penalty |-> penalty]

Teacher == Rule(1, "NotOverlap", <<1, 2, 3>>, TRUE, 0)

RuleSets ==
  {{Teacher}}
  \cup {{Teacher, Rule(2, kind, <<2, 1, 3>>, required, IF required THEN 0 ELSE 2)} :
          kind \in Kinds, required \in BOOLEAN}

Limit(kind, max, required) ==
  [kind |-> kind, max |-> max, lessons |-> 1..3, required |-> required,
   penalty |-> IF required THEN 0 ELSE 3]

LimitSets ==
  {{}, {Limit("max_daily_lessons", 2, TRUE)}, {Limit("consecutive_limit", 2, TRUE)},
   {Limit("max_daily_lessons", 2, FALSE)}, {Limit("consecutive_limit", 1, FALSE)}}

Problem(options, rules, limits) ==
  [lessons |-> 1..3, options |-> options, rules |-> rules, limits |-> limits]

Options == {Crowded, Long, Shifting, Alternate}

MCProblems ==
  {Problem(options, rules, {}) :
     options \in Options, rules \in RuleSets}
  \cup {Problem(options, {Teacher}, limits) :
          options \in Options, limits \in LimitSets}

\* A teacher of three classes, of which one has its own bell schedule: its periods
\* are those of the others, its slots are numbered from 11.
TwoSchedules ==
  {Option(1, 0, 1, Both, 1, 1, 0, 0), Option(2, 0, 1, Both, 2, 1, 0, 0),
   [Option(3, 0, 1, Both, 13, 1, 0, 0) EXCEPT !.period = 3]}

TemplateProblems ==
  {Problem(TwoSchedules, {Teacher}, {Limit("consecutive_limit", max, TRUE)}) :
     max \in 1..2}

\* A class with two lessons in alternate weeks and a third next to them.
AlternateProblems ==
  {Problem({a \in Alternate : a.days = {1}}, {Teacher},
           {Limit("consecutive_limit", 2, TRUE)})}
\* A lesson of three periods that may start later than every other one.
Wide ==
  {Option(1, 0, 1, Both, 1, 3, 0, 0), Option(1, 1, 1, Both, 2, 3, 0, 2),
   Option(2, 0, 2, Both, 1, 1, 0, 0), Option(3, 0, 3, Both, 1, 1, 0, 0)}

WideProblems == {Problem(Wide, {Teacher}, {Limit("consecutive_limit", 1, FALSE)})}
=============================================================================
