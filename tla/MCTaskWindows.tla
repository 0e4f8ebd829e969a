--------------------------- MODULE MCTaskWindows ---------------------------
(* Instances of TaskWindows for TLC. *)
EXTENDS TaskWindows

\* Runs that follow each other at once, and one by itself.
SomeRuns == {2, 3, 6}
=============================================================================
