---------------------------- MODULE MCSyncAccount ----------------------------
(* Values for the parameters of SyncAccount. *)
EXTENDS SyncAccount, TLC

MCSymmetry == Permutations(Callers)

=============================================================================
