------------------------- MODULE MCSchedulingJobs -------------------------
(* Small instances of SchedulingJobs.                                      *)
EXTENDS SchedulingJobs, TLC

\* Rounds and clients are interchangeable; sound for the safety runs only.
Symmetry == Permutations(Rounds) \cup Permutations(Clients)
=============================================================================
