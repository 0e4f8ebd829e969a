--------------------------- MODULE MCPeriodicJobs ---------------------------
(* Instances of PeriodicJobs for TLC. *)
EXTENDS PeriodicJobs, TLC

CONSTANTS j1, j2

HashOne == [j \in Job |-> IF j = j1 THEN 1 ELSE 0]

TimeoutOne == [j \in Job |-> 1]

\* Workers are alike, and so are a worker's slots.
WorkerSymmetry == Permutations(Worker) \cup Permutations(Slot)
=============================================================================
