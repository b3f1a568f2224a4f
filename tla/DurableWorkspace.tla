-------------------------- MODULE DurableWorkspace --------------------------
(***************************************************************************)
(* What the desktop application promises about the workspace on its disk,  *)
(* without snapshot, journal, caches or crashes: there is one workspace;   *)
(* a saved change set changes exactly the items it names; what arrives     *)
(* from outside is added to it; erasing and restoring a kept copy are the  *)
(* only ways to lose a note.  A restart changes nothing.                   *)
(***************************************************************************)
EXTENDS Naturals

CONSTANTS
    Items,      \* the notes a workspace may hold
    MaxVersion, \* bound: versions of a note
    Settings,   \* the values of the settings
    Changes,    \* the change sets that may be saved
    None        \* no workspace

VARIABLES
    content,    \* the workspace a restart would load, or None
    kept        \* a backup the user may restore, or None

durableVars == <<content, kept>>

Content == [notes : [Items -> 0 .. MaxVersion], deleted : SUBSET Items, settings : Settings]

Present(c) == {i \in Items : c # None /\ c.notes[i] # 0}

\* The notes the user sees: deleted ones are remembered, not shown.
Shown(c) == {i \in Present(c) : i \notin c.deleted}

Remembered(c) == IF c = None THEN [i \in Items |-> 0] ELSE c.notes

\* A deleted note that is written again is shown again.
Saved(c, change) ==
    LET shown == (Shown(c) \cup DOMAIN change.upsert) \ change.remove
        notes == [i \in Items |-> IF i \in shown \cap DOMAIN change.upsert THEN change.upsert[i] ELSE Remembered(c)[i]]
    IN  [notes |-> notes, deleted |-> {i \in Items : notes[i] # 0} \ shown, settings |-> change.settings]

-----------------------------------------------------------------------------
(* How the workspace may change. *)

SavesChanges(before, after) == \E change \in Changes : after = Saved(before, change)

\* An import or a synchronization brings notes, and may bring deleted ones
\* back; it hides none and leaves the settings alone.
Incorporates(before, after) ==
    /\ after \in Content
    /\ \A i \in Items :
          after.notes[i] # Remembered(before)[i] => after.notes[i] # 0 /\ i \notin after.deleted
    /\ IF before = None THEN after.deleted = {}
       ELSE after.deleted \subseteq before.deleted /\ after.settings = before.settings

Configures(before, after) ==
    before # None /\ \E settings \in Settings : after = [before EXCEPT !.settings = settings]

-----------------------------------------------------------------------------
DurableInit == content = None /\ kept = None

Change ==
    /\ \E before \in {content}, after \in {content'} :
          SavesChanges(before, after) \/ Incorporates(before, after) \/ Configures(before, after)
    /\ UNCHANGED kept

Keep ==
    /\ content # None
    /\ kept' = content
    /\ UNCHANGED content

\* Restoring and erasing keep a copy of what they replace, or the older copy.
Restore ==
    /\ kept # None
    /\ content' = kept
    /\ kept' \in {kept, content} \ {None}

Erase ==
    /\ content' = None
    /\ kept' \in {kept} \cup ({content} \ {None})

DurableNext == Change \/ Keep \/ Restore \/ Erase

DurableSpec == DurableInit /\ [][DurableNext]_durableVars
=============================================================================
