-------------------------- MODULE MCReplicaLedger --------------------------
(* ReplicaLedger on small instances; the values are interchangeable. *)
EXTENDS ReplicaLedger, TLC

MCValueSymmetry == Permutations(Values)
MCNoSkew == [d \in Devices |-> 0]
MCFirstAhead == [d \in Devices |-> IF d = 1 THEN 1 ELSE 0]
=============================================================================
