-------------------------- MODULE MCSchedJobTasks --------------------------
(* Instances of SchedJobTasks for TLC. *)
EXTENDS SchedJobTasks, TLC

CONSTANTS often, seldom

\* One schedule's runs are some of the other's.
OftenAndSeldom == [s \in Schedule |-> IF s = often THEN 1..MaxTime ELSE {2}]

\* Those who change the job are alike.
EditorSymmetry == Permutations(Editor)
=============================================================================
