--------------------------- MODULE GreedySchedule ---------------------------
(***************************************************************************)
(* run_cgcs_greedy (sidecar/stt_desktop/scheduler_engine/cgcs.py): places  *)
(* the lessons one by one at the cheapest place that conflicts with        *)
(* nothing, then goes round the ones that failed, and moves one blocking   *)
(* lesson elsewhere for each if that is all it takes.                      *)
(*                                                                         *)
(* A schedule is the set of the actions taken. Where the code breaks a tie *)
(* by the order of a list, the model takes any of the best.                *)
(***************************************************************************)
EXTENDS LessonRules

CONSTANT Problems

VARIABLES
  problem,
  schedule,  \* assignments
  phase,     \* "placing", "repairing" or "done"
  todo,      \* the lessons this pass has not come to yet
  failed,    \* the lessons it found no place for
  repaired   \* this pass of the repair has placed a lesson

greedy == <<problem, schedule, phase, todo, failed, repaired>>

ASSUME ProblemsAssumption == \A p \in Problems : ProblemOK(p)

GreedyTypeOK ==
  /\ problem \in Problems
  /\ schedule \subseteq problem.options
  /\ phase \in {"placing", "repairing", "done"}
  /\ todo \subseteq problem.lessons
  /\ failed \subseteq problem.lessons
  /\ repaired \in BOOLEAN

\* Every lesson is placed, failed or still to come, and only one of these.
Accounted ==
  /\ Placed(schedule) \cup todo \cup failed = problem.lessons
  /\ todo \cap failed = {}
  /\ (todo \cup failed) \cap Placed(schedule) = {}

GreedyInit ==
  /\ problem \in Problems
  /\ schedule = {}
  /\ phase = "placing"
  /\ todo = problem.lessons /\ failed = {}
  /\ repaired = FALSE

-----------------------------------------------------------------------------
(* Choosing.                                                               *)

\* Mutant: only a clash of rooms counts as a conflict.
Blockers_RoomOnly(plan, action) == {a \in plan : RoomClash(action, a)}

\* The actions of a plan that stand in the way of another one.
Blockers(plan, action) == {a \in plan : Conflict(problem, action, a)}

Feasible(plan, lesson) ==
  {a \in OptionsOf(problem, lesson) : Blockers(plan, a) = {}}

\* base_penalty and _incremental_soft_penalty
Price(plan, action) ==
  action.cost + Total([a \in plan |-> BrokenCost(problem, action, a)])

Cheapest(plan, actions) ==
  {a \in actions : \A b \in actions : Price(plan, a) <= Price(plan, b)}

\* The places a lesson has in chains of consecutive lessons.
ChainPlaces(lesson) ==
  UNION {{<<rule.id, i>> : i \in {j \in DOMAIN rule.lessons :
                                     rule.lessons[j] = lesson}} :
         rule \in {r \in problem.rules : r.kind = "Consecutive"}}

LexLess(k, m) == \E i \in DOMAIN k : /\ k[i] < m[i]
                                     /\ \A j \in 1..(i - 1) : k[j] = m[j]

FirstPlaces(lesson) ==
  {k \in ChainPlaces(lesson) : \A m \in ChainPlaces(lesson) : ~LexLess(m, k)}

\* _agent_order_key: lessons of chains first, chain by chain and in the order
\* of the chain, and the others by the number of their options.
OrderKeys(lesson) ==
  IF ChainPlaces(lesson) = {}
  THEN {<<1, 0, 0, Cardinality(OptionsOf(problem, lesson))>>}
  ELSE {<<0, k[1], k[2], 0>> : k \in FirstPlaces(lesson)}

NextLessons ==
  {l \in todo : \A m \in todo : \A k \in OrderKeys(l), n \in OrderKeys(m) :
                  ~LexLess(n, k)}

-----------------------------------------------------------------------------
(* Placing.                                                                *)

PlaceLesson ==
  /\ phase = "placing"
  /\ \E l \in NextLessons :
       /\ \E a \in Cheapest(schedule, Feasible(schedule, l)) :
            schedule' = schedule \cup {a}
       /\ todo' = todo \ {l}
  /\ UNCHANGED <<problem, phase, failed, repaired>>

\* No feasible action: failed_agents.append, and remaining.append in a repair.
LessonFails(l) ==
  /\ Feasible(schedule, l) = {}
  /\ todo' = todo \ {l}
  /\ failed' = failed \cup {l}
  /\ UNCHANGED <<problem, schedule, phase, repaired>>

PlacingFails == phase = "placing" /\ \E l \in NextLessons : LessonFails(l)

-----------------------------------------------------------------------------
(* Repairing.                                                              *)

\* Mutant: the new place must not even meet the place that is given up.
IsMove_BlockerKept(m) ==
  LET freed == schedule \cup {m.in}
  IN  /\ Blockers(schedule, m.in) = {m.out}
      /\ m.again # m.out
      /\ m.again \in Cheapest(freed, Feasible(freed, m.out.lesson))

\* A plan puts a lesson at "in", where "out" alone is in the way, and the lesson
\* of "out" at "again".
IsMove(m) ==
  LET freed == (schedule \ {m.out}) \cup {m.in}
  IN  /\ Blockers(schedule, m.in) = {m.out}
      /\ m.again # m.out
      /\ m.again \in Cheapest(freed, Feasible(freed, m.out.lesson))

Moves(lesson) ==
  {m \in [in : OptionsOf(problem, lesson), out : schedule,
          again : problem.options] : IsMove(m)}

MovePrice(m) ==
  LET rest == schedule \ {m.out}
  IN  Price(rest, m.in) + Price(rest \cup {m.in}, m.again)

Relocated(m) == (schedule \ {m.out}) \cup {m.in, m.again}

RepairDirectly ==
  /\ phase = "repairing"
  /\ \E l \in NextLessons :
       /\ \E a \in Cheapest(schedule, Feasible(schedule, l)) :
            schedule' = schedule \cup {a}
       /\ todo' = todo \ {l}
  /\ repaired' = TRUE
  /\ UNCHANGED <<problem, phase, failed>>

RepairByRelocating ==
  /\ phase = "repairing"
  /\ \E l \in NextLessons :
       /\ Feasible(schedule, l) = {}
       /\ \E m \in Moves(l) :
            /\ \A n \in Moves(l) : MovePrice(m) <= MovePrice(n)
            /\ schedule' = Relocated(m)
       /\ todo' = todo \ {l}
  /\ repaired' = TRUE
  /\ UNCHANGED <<problem, phase, failed>>

RepairFails ==
  /\ phase = "repairing"
  /\ \E l \in NextLessons : Moves(l) = {} /\ LessonFails(l)

\* Mutant: there are passes as long as a lesson fails.
Exhausted_Never == failed = {}

\* Another pass makes sense.
Exhausted == failed = {} \/ (phase = "repairing" /\ ~repaired)

NextPass ==
  /\ phase # "done" /\ todo = {}
  /\ IF Exhausted
     THEN phase' = "done" /\ UNCHANGED <<todo, failed>>
     ELSE phase' = "repairing" /\ todo' = failed /\ failed' = {}
  /\ repaired' = FALSE
  /\ UNCHANGED <<problem, schedule>>

GreedyNext ==
  \/ PlaceLesson \/ PlacingFails
  \/ RepairDirectly \/ RepairByRelocating \/ RepairFails
  \/ NextPass

-----------------------------------------------------------------------------

\* No two lessons of the schedule conflict, however it came about: placed one
\* by one, moved for the sake of others (cgcs.py:100-258), taken from a parent
\* or found by the solver (cp_sat.py:150-234).
ScheduleIsCompatible == Compatible(problem, schedule)
=============================================================================
