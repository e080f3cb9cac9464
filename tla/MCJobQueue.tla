----------------------------- MODULE MCJobQueue -----------------------------
(* Small instances of JobQueue for TLC. *)
EXTENDS JobQueue, TLC

CONSTANTS j1, j2, t1, h1, h2

TwoJobs     == {j1, j2}
OneTitle    == {t1}
OneHandler  == {h1}
TwoHandlers == {h1, h2}

\* The jobs, titles and handlers of an instance differ in name only.
Symmetry == Permutations(Jobs) \cup Permutations(Titles) \cup Permutations(Handlers)
=============================================================================
