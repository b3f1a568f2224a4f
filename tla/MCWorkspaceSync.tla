-------------------------- MODULE MCWorkspaceSync --------------------------
(* WorkspaceSync on small instances.  Batches, cursors and bodies are all the *)
(* values the devices can send within MaxSequence.                            *)
EXTENDS WorkspaceSync

MCBatches == {<<s>> : s \in 1 .. MaxSequence} \cup {<<s, s + 1>> : s \in 1 .. MaxSequence - 1}
MCCursors == [Devices -> 0 .. MaxSequence]
MCFirstOperation == {<<FirstDevice, 1>>}
MCAllOperations == Devices \X (1 .. MaxSequence)
MCMobileOperations == Mobile \X (1 .. MaxSequence)
MCBodies == SUBSET (Devices \X (1 .. MaxSequence))
=============================================================================
