------------------------ MODULE MCExtensionActivation ------------------------
(* Values for the parameters of ExtensionActivation. *)
EXTENDS ExtensionActivation

=============================================================================
