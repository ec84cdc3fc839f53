---------------------------- MODULE MCTransfers ----------------------------
(* A small instance of Transfers.                                          *)
EXTENDS Transfers, TLC

\* Two sheets of teachers, one of which may be saved over the other; one plan; and
\* tasks: two of them with the same key unless the term is read, one with a rest.
MCSheets ==
  {[type |-> "teacher", rows |-> <<[name |-> "Ann"]>>],
   [type |-> "teacher", rows |-> <<[name |-> "Bob"]>>],
   [type |-> "course_plan", rows |-> <<[homeroom |-> "h", term |-> "t"]>>],
   [type |-> "teaching_task", rows |->
      <<[homeroom |-> "h", term |-> "t", teacher |-> "Ann", weekly |-> 3, duration |-> 2],
        [homeroom |-> "h", term |-> None, teacher |-> "Ann", weekly |-> 2, duration |-> 2]>>]}

MCSymmetry == Permutations(ImportIds)
=============================================================================
