--------------------------- MODULE MCSyncService ---------------------------
(* SyncService on small instances: two or three devices, sequence numbers up *)
(* to MaxSequence, batches that repeat, skip and reorder sequence numbers.   *)
EXTENDS SyncService, TLC

CONSTANT MaxSequence    \* bound on the sequence numbers clients use

MCBatches ==
    {<<s>> : s \in 1 .. MaxSequence}
        \cup {<<s, t>> : s \in 1 .. MaxSequence, t \in {1, MaxSequence}}
MCCursors == [Devices -> 0 .. MaxSequence]
MCBodies == {"body"}

Symmetry == Permutations(Devices)
=============================================================================
