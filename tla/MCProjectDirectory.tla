------------------------ MODULE MCProjectDirectory ------------------------
(* Small instances of ProjectDirectory.                                    *)
EXTENDS ProjectDirectory, TLC

\* Processes are interchangeable.
Symmetry == Permutations(Procs)
===========================================================================
