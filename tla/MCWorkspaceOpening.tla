------------------------- MODULE MCWorkspaceOpening -------------------------
(***************************************************************************)
(* A small instance of WorkspaceOpening and SavePipeline.                  *)
(***************************************************************************)
EXTENDS WorkspaceOpening

CONSTANTS a, b
=============================================================================
