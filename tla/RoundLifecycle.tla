--------------------------- MODULE RoundLifecycle ---------------------------
(***************************************************************************)
(* What a scheduling round promises to the user of a project, with no      *)
(* processes, files, handlers or crashes: a round is opened once, at most  *)
(* one round is open at a time, it is settled exactly once, and it has a   *)
(* candidate timetable exactly when it was settled as "succeeded".         *)
(***************************************************************************)
CONSTANT Rounds

VARIABLES
  phase,        \* the state of every round the user can see
  candidates    \* the rounds whose candidate timetable is visible

vars == <<phase, candidates>>

Outcomes == {"succeeded", "infeasible", "cancelled", "failed_recoverable"}
Phases   == {"absent", "active"} \cup Outcomes

TypeOK ==
  /\ phase \in [Rounds -> Phases]
  /\ candidates \subseteq Rounds

Init ==
  /\ phase = [r \in Rounds |-> "absent"]
  /\ candidates = {}

Begin(r) ==
  /\ phase[r] = "absent"
  /\ \A q \in Rounds : phase[q] # "active"
  /\ phase' = [phase EXCEPT ![r] = "active"]
  /\ UNCHANGED candidates

Succeed(r) ==
  /\ phase[r] = "active"
  /\ phase' = [phase EXCEPT ![r] = "succeeded"]
  /\ candidates' = candidates \cup {r}

GiveUp(r) ==
  /\ phase[r] = "active"
  /\ \E outcome \in Outcomes \ {"succeeded"} :
        phase' = [phase EXCEPT ![r] = outcome]
  /\ UNCHANGED candidates

Next == \E r \in Rounds : Begin(r) \/ Succeed(r) \/ GiveUp(r)

Spec == Init /\ [][Next]_vars
=============================================================================
