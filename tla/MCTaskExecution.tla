-------------------------- MODULE MCTaskExecution --------------------------
(* Instances of TaskExecution for TLC. *)
EXTENDS TaskExecution, TLC

\* Workers, their goroutines and the clients are interchangeable.
Symmetry == Permutations(Worker) \cup Permutations(Slot) \cup Permutations(Client)
=============================================================================
