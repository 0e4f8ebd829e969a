------------------------ MODULE MCSettingsProbation ------------------------
(* SettingsProbation with the faults TLC looks at: all of them, one, none. *)
EXTENDS SettingsProbation

CONSTANTS c1, c2

MCFaults == [k \in Kinds |-> {"crash", "abort", "docker", "worker", "rollback"}]

RefusedWorker == [k \in Kinds |-> {"worker"}]

NoFaults == [k \in Kinds |-> {}]
=============================================================================
