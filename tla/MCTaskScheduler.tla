-------------------------- MODULE MCTaskScheduler --------------------------
(* Instances of TaskScheduler for TLC. *)
EXTENDS TaskScheduler, TLC

CONSTANTS low, high

\* All of one priority.
SamePriority == [t \in Task |-> 2]

\* One task gives way to the other.
TwoPriorities == [t \in Task |-> IF t = high THEN 2 ELSE 1]

\* The entries are names.
EntrySymmetry == Permutations(Entry)
=============================================================================
