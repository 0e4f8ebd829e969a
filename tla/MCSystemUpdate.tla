--------------------------- MODULE MCSystemUpdate ---------------------------
(***************************************************************************)
(* SystemUpdate with the faults TLC looks at: up to three calls refused,   *)
(* with up to two commands failed among two, or one fault of another kind, *)
(* or one in an update to an older postgres major.                         *)
(***************************************************************************)
EXTENDS SystemUpdate

MCFaults == [docker |-> 3, command |-> 2, wait |-> 1, deadline |-> 1, killed |-> 1,
             older |-> 1]
MCFailedCommand == [docker |-> 0, command |-> 1, wait |-> 0, deadline |-> 0, killed |-> 0,
                    older |-> 0]

MCNoFault == [m \in Mishap |-> 0]
=============================================================================
