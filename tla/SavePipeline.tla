---------------------------- MODULE SavePipeline ----------------------------
(***************************************************************************)
(* How edits travel from the renderer to the disk of the desktop:          *)
(* the application state with its passive and its awaited saves            *)
(* (src/state/AppContext.tsx), the change sets of src/lib/storage.ts, and  *)
(* the queue of the main process (electron/main.ts).  The store behind the *)
(* queue loses nothing (WorkspaceStore): it is the projection it loads.    *)
(* WorkspaceOpening adds how the workspace got there, and the properties.  *)
(*                                                                         *)
(* A workspace has the versions of its notes (0: none), those in its trash *)
(* and the stamp of the edit that made it, which stands for its settings,  *)
(* for updatedAt, and in the renderer for the identity of the object.      *)
(* The code coalesces the saves of one turn of the event loop; a turn      *)
(* makes one save here.                                                    *)
(***************************************************************************)
EXTENDS Naturals, Sequences, Functions

CONSTANTS
    Items, MaxVersion, None,
    First,       \* the notes there are at the beginning
    MaxEdits,    \* bound: edits
    MaxFailures, \* bound: saves the main process fails
    MaxAttempts, \* bound: attempts of a page to save after which the user does not retry
    Overlap      \* which of "edit", "undo" and "reload" may meet a save they interfere with,
                 \* and which of "recovery" and "reset" a crash (WorkspaceOpening)

ASSUME PipelineAssumption ==
    /\ First \subseteq Items /\ {MaxEdits, MaxFailures, MaxAttempts} \subseteq Nat
    /\ MaxVersion \in Nat \ {0} /\ None \notin Nat
    /\ Overlap \subseteq {"edit", "undo", "reload", "recovery", "reset"}

VARIABLES
    stored,        \* what the store holds
    data,          \* what the user sees (dataRef)
    lastPersisted, \* what the renderer believes to be stored
    inflight,      \* the saves without an answer, oldest first
    effect,        \* does the render of data wait for its passive effect?
    skip,          \* the stamp whose passive save is skipped
    attempt,       \* number of the last attempt to save
    passive,       \* the attempt of the last passive effect, 0 if it made none
    status,        \* what the user is told
    edits, failures

pipelineVars ==
    <<stored, data, lastPersisted, inflight, effect, skip, attempt, passive, status, edits, failures>>

Stamps == 0 .. MaxEdits
Versions == [Items -> 0 .. MaxVersion]
Workspace == [items : Versions, trash : Versions, stamp : Stamps \cup {None}]
Nothing == [i \in Items |-> 0]

\* No workspace, and the one a user begins with.
Absent == [items |-> Nothing, trash |-> Nothing, stamp |-> None]
Empty == [Absent EXCEPT !.stamp = 0]
Filled == [Empty EXCEPT !.items = [i \in Items |-> IF i \in First THEN 1 ELSE 0]]

Changed(previous, current) ==
    [upsert |-> Restrict(current, {i \in Items : current[i] \notin {0, previous[i]}}),
     remove |-> {i \in Items : previous[i] # 0 /\ current[i] = 0}]

ChangeSet(previous, current) ==
    [items |-> Changed(previous.items, current.items),
     trash |-> Changed(previous.trash, current.trash),
     stamp |-> current.stamp]

\* Defect: removals are not applied.
MergedUpserts(versions, changed) ==
    [i \in Items |-> IF i \in DOMAIN changed.upsert THEN changed.upsert[i] ELSE versions[i]]

Merged(versions, changed) ==
    [i \in Items |-> IF i \in DOMAIN changed.upsert THEN changed.upsert[i]
                     ELSE IF i \in changed.remove THEN 0 ELSE versions[i]]

AfterChanges(w, change) ==
    [items |-> Merged(w.items, change.items), trash |-> Merged(w.trash, change.trash), stamp |-> change.stamp]

Explicit == \E k \in DOMAIN inflight : inflight[k].kind \in {"add", "update"}

\* Notes a save without an answer puts among the items, or into the trash.
Arriving(shelf) == UNION {DOMAIN inflight[k].change[shelf].upsert : k \in DOMAIN inflight}

NoPage ==
    /\ data = Absent /\ lastPersisted = Absent
    /\ inflight = <<>>
    /\ effect = FALSE /\ skip = None
    /\ attempt = 0 /\ passive = 0
    /\ status = "saved"

\* A page shows a workspace and believes another one to be stored; data that is
\* not the one stored is saved by the effect of the first render.
PageOpens(shown, believed) ==
    /\ data' = shown /\ lastPersisted' = believed
    /\ effect' = (shown # believed) /\ skip' = None
    /\ attempt' = 0 /\ passive' = 0
    /\ status' = "saved"

-----------------------------------------------------------------------------
(* Saving. *)

\* Defect: change sets are computed from what was sent last.
LastSent == IF inflight = <<>> THEN lastPersisted ELSE inflight[Len(inflight)].snapshot

\* What a change set is computed from.
Baseline == lastPersisted

\* saveData: nothing to do for the data that is stored already.
SaveData(snapshot, kind) ==
    IF snapshot = lastPersisted THEN status' = "saved" /\ UNCHANGED inflight
    ELSE /\ status' = "saving"
         /\ inflight' = Append(inflight, [snapshot |-> snapshot, change |-> ChangeSet(Baseline, snapshot),
                                          kind |-> kind, before |-> data, attempt |-> attempt + 1,
                                          result |-> "sent"])

\* The passive effect of the latest render; those of older renders do nothing.
PassiveEffect ==
    /\ effect
    /\ effect' = FALSE
    /\ \/ /\ Explicit
          /\ passive' = 0
          /\ UNCHANGED <<inflight, skip, attempt, status>>
       \/ /\ ~Explicit /\ skip = data.stamp
          /\ skip' = None /\ passive' = 0
          /\ UNCHANGED <<inflight, attempt, status>>
       \/ /\ ~Explicit /\ skip # data.stamp
          /\ SaveData(data, "passive")
          /\ attempt' = attempt + 1 /\ passive' = attempt + 1
          /\ UNCHANGED skip
    /\ UNCHANGED <<stored, data, lastPersisted, edits, failures>>

RetryPersistence ==
    /\ status = "failed" /\ attempt < MaxAttempts
    /\ SaveData(data, "retry")
    /\ attempt' = attempt + 1
    /\ UNCHANGED <<stored, data, lastPersisted, effect, skip, passive, edits, failures>>

-----------------------------------------------------------------------------
(* Editing. *)

With(w, i, version, trashed) ==
    [items |-> [w.items EXCEPT ![i] = version], trash |-> [w.trash EXCEPT ![i] = trashed], stamp |-> edits + 1]

\* addItem and updateItem wait for their save.
Awaited(next, kind) ==
    /\ edits < MaxEdits /\ edits' = edits + 1
    /\ data' = next /\ effect' = TRUE /\ skip' = next.stamp
    /\ SaveData(next, kind)
    /\ attempt' = attempt + 1
    /\ UNCHANGED <<stored, lastPersisted, passive, failures>>

\* The identifier is random: no save and no copy knows it.
AddItem(i) ==
    /\ \A w \in {data, stored, lastPersisted} : w.items[i] = 0 /\ w.trash[i] = 0
    /\ i \notin Arriving("items")
    /\ Awaited(With(data, i, 1, 0), "add")

UpdateItem(i) ==
    /\ data.items[i] \in 1 .. MaxVersion - 1
    /\ Awaited(With(data, i, data.items[i] + 1, 0), "update")

\* setData: the passive effect saves, unless an awaited save is in flight.
SetData(next) ==
    /\ edits < MaxEdits /\ edits' = edits + 1
    /\ Explicit => "edit" \in Overlap
    /\ data' = next /\ effect' = TRUE
    /\ UNCHANGED <<stored, lastPersisted, inflight, skip, attempt, passive, status, failures>>

UpdateItemsBulk(i) ==
    /\ data.items[i] \in 1 .. MaxVersion - 1
    /\ SetData(With(data, i, data.items[i] + 1, 0))

DeleteItem(i) ==
    /\ data.items[i] # 0
    /\ lastPersisted.items[i] = 0 /\ i \in Arriving("items") => "undo" \in Overlap
    /\ SetData(With(data, i, 0, data.items[i]))

RestoreItem(i) ==
    /\ data.trash[i] # 0 /\ data.items[i] = 0
    /\ lastPersisted.trash[i] = 0 /\ i \in Arriving("trash") => "undo" \in Overlap
    /\ SetData(With(data, i, data.trash[i], 0))

PurgeItem(i) ==
    /\ data.trash[i] # 0
    /\ lastPersisted.trash[i] = 0 /\ i \in Arriving("trash") => "undo" \in Overlap
    /\ SetData(With(data, i, data.items[i], 0))

-----------------------------------------------------------------------------
(* The main process. *)

\* Defect: transactions overtake each other.
AnyInQueue(k) == k \in DOMAIN inflight /\ inflight[k].result = "sent"

\* The queue commits one change set after the other.
FirstInQueue(k) ==
    /\ k \in DOMAIN inflight /\ inflight[k].result = "sent"
    /\ \A j \in 1 .. k - 1 : inflight[j].result # "sent"

CommitSave(k) ==
    /\ FirstInQueue(k)
    /\ stored' = AfterChanges(stored, inflight[k].change)
    /\ inflight' = [inflight EXCEPT ![k].result = "ok"]
    /\ UNCHANGED <<data, lastPersisted, effect, skip, attempt, passive, status, edits, failures>>

FailSave(k) ==
    /\ FirstInQueue(k)
    /\ failures < MaxFailures /\ failures' = failures + 1
    /\ inflight' = [inflight EXCEPT ![k].result = "failed"]
    /\ UNCHANGED <<stored, data, lastPersisted, effect, skip, attempt, passive, status, edits>>

-----------------------------------------------------------------------------
(* The answer. *)

\* Defect: a failed save counts as stored.
AlwaysAcknowledged(save) == save.snapshot

Acknowledged(save) == IF save.result = "ok" /\ save.kind # "abandoned" THEN save.snapshot ELSE lastPersisted

\* Defect: failures are not reported.
ReportsSuccess(save) == save.attempt = attempt /\ save.result = "ok"

\* Only the latest attempt reports; a passive one only while its effect lives.
Reports(save) == save.kind # "abandoned" /\ save.attempt = attempt /\ (save.kind = "passive" => passive = attempt)

\* A failed add takes the note back, with everything edited since.
Answer ==
    /\ inflight # <<>> /\ inflight[1].result # "sent"
    /\ inflight' = Tail(inflight)
    /\ LET save == inflight[1]
       IN  /\ lastPersisted' = Acknowledged(save)
           /\ IF ~Reports(save) THEN UNCHANGED <<data, effect, skip, attempt, status>>
              ELSE IF save.result = "ok"
              THEN status' = "saved" /\ UNCHANGED <<data, effect, skip, attempt>>
              ELSE /\ status' = "failed"
                   /\ attempt' = IF save.kind \in {"add", "update"} THEN attempt + 1 ELSE attempt
                   /\ IF save.kind = "add"
                      THEN data' = save.before /\ effect' = TRUE /\ skip' = save.before.stamp
                      ELSE UNCHANGED <<data, effect, skip>>
    /\ UNCHANGED <<stored, passive, edits, failures>>

\* What the page of a usable workspace does, the answers aside.
Edits ==
    \/ PassiveEffect \/ RetryPersistence
    \/ \E i \in Items : \/ AddItem(i) \/ UpdateItem(i) \/ UpdateItemsBulk(i)
                       \/ DeleteItem(i) \/ RestoreItem(i) \/ PurgeItem(i)

-----------------------------------------------------------------------------
Live == {k \in DOMAIN inflight : inflight[k].kind # "abandoned"}

\* The variables have their types, the saves the main process is done with are
\* the oldest, and no note is shown and in the trash.
PipelineTypeOK ==
    /\ {stored, data, lastPersisted} \subseteq Workspace
    /\ \A k \in DOMAIN inflight :
          /\ {inflight[k].snapshot, inflight[k].before} \subseteq Workspace
          /\ inflight[k].kind \in {"add", "update", "passive", "retry", "abandoned"}
          /\ k \in Live => inflight[k].attempt \in 1 .. attempt
          /\ inflight[k].result = "sent" => \A j \in k .. Len(inflight) : inflight[j].result = "sent"
    /\ effect \in BOOLEAN /\ skip \in Stamps \cup {None}
    /\ passive \in 0 .. attempt
    /\ status \in {"saving", "saved", "failed"}
    /\ \A w \in {stored, data, lastPersisted}, i \in Items : 0 \in {w.items[i], w.trash[i]}
=============================================================================
