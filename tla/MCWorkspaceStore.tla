------------------------- MODULE MCWorkspaceStore -------------------------
(***************************************************************************)
(* Small instances of WorkspaceStore.                                      *)
(***************************************************************************)
EXTENDS WorkspaceStore, TLC

CONSTANTS a, b, m

Nothing == [upsert |-> <<>>, remove |-> {}, settings |-> 0, add |-> {}, drop |-> {}]

Upsert(i, v) == [Nothing EXCEPT !.upsert = i :> v]

\* Writing a note, deleting it in one save with writing another that has a
\* picture, dropping the picture with new settings.
MCChanges ==
    {Upsert(a, 1),
     [Upsert(b, 2) EXCEPT !.remove = {a}, !.add = {m}],
     [Nothing EXCEPT !.settings = 1, !.drop = {m}]}

MCIncoming == {b :> 1}
=============================================================================
