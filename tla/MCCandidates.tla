---------------------------- MODULE MCCandidates ----------------------------
(* Three lessons of two teachers in two rooms, and edits that delete a room, *)
(* a teacher or a lesson, change a rule, or leave the problem as it is.      *)
EXTENDS Candidates

Option(lesson, day, start, room) ==
  [lesson |-> lesson, index |-> 0, days |-> {day}, weeks |-> {1}, start |-> start,
   length |-> 1, period |-> start, room |-> room, cost |-> 0]

\* Lessons 1, 2 and 3 (4 comes when 3 is saved anew), rooms 11 and 12, teachers
\* 21 and 22.
Options(third) ==
  {Option(1, 1, 1, 11), Option(1, 1, 2, 11),
   Option(2, 1, 1, 11), Option(2, 1, 3, 12),
   Option(third, 1, 2, NoRoom), Option(third, 2, 1, NoRoom)}

Rule(kind, lessons) ==
  [kind |-> kind, lessons |-> lessons, required |-> TRUE, penalty |-> 0]

Daily(max, lessons) ==
  [kind |-> "max_daily_lessons", max |-> max, lessons |-> lessons,
   required |-> TRUE, penalty |-> 0]

Data(third, rooms, second, rules, limits) ==
  [lessons |-> {1, 2, third}, rooms |-> rooms,
   teacher |-> [l \in {1, 2, third} |-> IF l = 2 THEN second ELSE 21],
   options |-> {a \in Options(third) : a.room \in rooms \cup {NoRoom}},
   rules |-> rules \cup {Rule("NotOverlap", <<1, third>>)}, limits |-> limits]

MCProblems ==
  {Data(3, {11, 12}, 22, {Rule("Precedence", <<1, 2>>)}, {}),
   Data(3, {11}, 21, {}, {}),
   Data(4, {11, 12}, 22, {}, {Daily(1, {1, 4})})}
=============================================================================
