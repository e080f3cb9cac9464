----------------------------- MODULE MCCleanSwap -----------------------------
(* Small instances of CleanSwap. *)
EXTENDS CleanSwap

CONSTANTS r1, r2, o1, o2

OneFile    == {1}
OneUpgrade == {1, 2}
\* The file that replaces the first one has one audio track more.
Tracks     == <<<<o1>>, <<o1, o2>>>>
OneRun     == {r1}
TwoRuns    == {r1, r2}

=============================================================================
