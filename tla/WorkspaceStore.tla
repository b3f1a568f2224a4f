--------------------------- MODULE WorkspaceStore ---------------------------
(***************************************************************************)
(* The desktop workspace store (electron/workspace-store.ts) with the      *)
(* handlers of the main process that change it (electron/main.ts).         *)
(*                                                                         *)
(* On disk there are a snapshot of the document, a journal of what         *)
(* happened since, receipts of the patches that were applied, and media.   *)
(* In memory there are two caches: the document and the projection of it   *)
(* that the renderer works on.  Every handler touches the store between    *)
(* two awaits, so it is one action; only restoring a backup waits in the   *)
(* middle.  A restart loses the caches.                                    *)
(*                                                                         *)
(* A note is its version (0: absent), a deck its identifier (0: absent).   *)
(* Items of Unfiled are in a collection for which a document has no deck   *)
(* until one of them is saved; the identifier of that deck is random.      *)
(***************************************************************************)
EXTENDS Naturals, Sequences, Functions

CONSTANTS
    Items, MaxVersion, Settings, Changes, None,
    Unfiled,        \* the items in a collection without a deck
    Media,          \* the media the renderer adds and drops
    ExtensionMedia, \* the media extensions create
    Keys,           \* idempotency keys of patches
    Incoming,       \* the notes an import or a synchronization brings
    Structure,      \* stands for the note types, templates, presets and decks a patch changes
    MaxRevision,    \* bound: revisions of the document
    MaxDecks,       \* bound: deck identifiers drawn
    Overlap         \* may other handlers run while a restore waits for its backup?

Written == UNION {[written -> 1 .. MaxVersion] : written \in SUBSET Items}

ASSUME StoreAssumption ==
    /\ Unfiled \subseteq Items /\ Media \cap ExtensionMedia = {} /\ Structure \notin Items
    /\ {MaxVersion, MaxRevision} \subseteq Nat \ {0} /\ MaxDecks \in Nat /\ Overlap \in BOOLEAN
    /\ 0 \in Settings /\ Incoming \subseteq Written
    /\ Changes \subseteq [upsert : Written, remove : SUBSET Items, settings : Settings,
                          add : SUBSET Media, drop : SUBSET Media]

VARIABLES
    disk,            \* snapshot, journal, receipts and media
    documentCache,   \* <<>> when undefined, else <<document or None>>
    projectionCache, \* <<>> when undefined, else <<projection or None>>
    backup,          \* the snapshot, journal and media of a backup file, or None
    restoring,       \* the backup file a restore has validated, or None
    drawn            \* deck identifiers drawn so far

storeVars == <<disk, documentCache, projectionCache, backup, restoring, drawn>>

Versions == [Items -> 0 .. MaxVersion]

Document == [revision : 1 .. MaxRevision, notes : Versions, deleted : SUBSET Items, settings : Settings,
             media : SUBSET (Media \cup ExtensionMedia), deck : 0 .. MaxDecks,
             patched : SUBSET ({"core", "extension"} \X Keys)]
Projection == [notes : Versions, settings : Settings, media : SUBSET (Media \cup ExtensionMedia)]
Patch == [owner : {"core", "extension"}, key : Keys, base : 1 .. MaxRevision,
          target : Items \cup {Structure}, deck : 0 .. MaxDecks]

Entry == [kind : {"changes"}, value : Changes] \cup [kind : {"core-patch"}, value : Patch]
Stores == [snapshot : Document, journal : Seq(Entry), media : SUBSET (Media \cup ExtensionMedia)]

ASSUME NoneAssumption ==
    None \notin Document \cup Projection \cup Stores \cup [notes : Versions, deleted : SUBSET Items, settings : Settings]

EmptyDisk == [snapshot |-> None, journal |-> <<>>, receipts |-> {}, media |-> {}]

-----------------------------------------------------------------------------
(* Documents and projections. *)

NoNotes == [i \in Items |-> 0]
Overlay(written, notes) == [i \in Items |-> IF i \in DOMAIN written THEN written[i] ELSE notes[i]]
Without(items, notes) == [i \in Items |-> IF i \in items THEN 0 ELSE notes[i]]

Project(d) == [notes |-> Without(d.deleted, d.notes), settings |-> d.settings, media |-> d.media]

NoProjection == [notes |-> NoNotes, settings |-> 0, media |-> {}]

ProjectionAfterChanges(p, change) ==
    [notes |-> Without(change.remove, Overlay(change.upsert, p.notes)),
     settings |-> change.settings,
     media |-> (p.media \ change.drop) \cup change.add]

\* The notes a document knows, or a projection shows.
Present(c) == {i \in Items : c.notes[i] # 0}

DeckFor(p, d, fresh) == IF d.deck = 0 /\ Present(p) \cap Unfiled # {} THEN fresh ELSE d.deck

\* Defect: every note that is not in the projection is marked, known or not.
RefreshAll(p, d, fresh) ==
    LET next == [d EXCEPT !.notes = Overlay(Restrict(p.notes, Present(p)), @),
                          !.deleted = Items \ Present(p),
                          !.settings = p.settings, !.media = p.media,
                          !.deck = DeckFor(p, d, fresh)]
    IN  IF next = d THEN d ELSE [next EXCEPT !.revision = d.revision + 1]

\* refreshWorkspaceDocumentV4FromProjection: every note that is not in the
\* projection becomes a tombstone, every one that is loses it.
RefreshDocument(p, d, fresh) ==
    LET next == [d EXCEPT !.notes = Overlay(Restrict(p.notes, Present(p)), @),
                          !.deleted = Present(d) \ Present(p),
                          !.settings = p.settings, !.media = p.media,
                          !.deck = DeckFor(p, d, fresh)]
    IN  IF next = d THEN d ELSE [next EXCEPT !.revision = d.revision + 1]

\* The document of the first save, and of an import into no workspace.
NewDocument(p, fresh) ==
    LET empty == [revision |-> 1, notes |-> p.notes, deleted |-> {}, settings |-> p.settings,
                  media |-> p.media, deck |-> 0, patched |-> {}]
    IN  [empty EXCEPT !.deck = DeckFor(p, empty, fresh)]

\* Defect: dropped media are left to the incremental path.
SupportsDrops(change, d, p) ==
    /\ change.remove = {} /\ change.add = {}
    /\ DOMAIN change.upsert \subseteq Present(d) \cap Present(p)

\* The changes that only touch notes the user sees.
Incremental(change, d, p) ==
    /\ change.remove = {} /\ change.add = {} /\ change.drop = {}
    /\ DOMAIN change.upsert \subseteq Present(d) \cap Present(p)

DocumentAfterChanges(change, d, p, fresh) ==
    IF Incremental(change, d, p)
    THEN [d EXCEPT !.notes = Overlay(change.upsert, @), !.settings = change.settings, !.revision = @ + 1]
    ELSE RefreshDocument(ProjectionAfterChanges(p, change), d, fresh)

\* applyWorkspacePatchV2 refuses another revision and an entity that is not
\* there; a patch of an unfiled item carries the deck of its card.
Applies(patch, d) ==
    /\ patch.base = d.revision
    /\ patch.target \in Items => patch.target \in Present(d)
    /\ patch.target \in Unfiled => patch.deck = d.deck

Patched(patch, d) == [d EXCEPT !.revision = @ + 1, !.patched = @ \cup {<<patch.owner, patch.key>>}]

\* A patch of structure leaves the notes of the projection in place.
ProjectionAfterPatch(patch, d, p) == IF patch.target = Structure THEN p ELSE Project(d)

-----------------------------------------------------------------------------
(* Loading. *)

Accepts(d, entry) == entry.kind = "core-patch" => Applies(entry.value, d)

ReplayEntry(state, entry, fresh) ==
    IF entry.kind = "changes"
    THEN [document |-> DocumentAfterChanges(entry.value, state.document, state.projection, fresh),
          projection |-> ProjectionAfterChanges(state.projection, entry.value)]
    ELSE LET document == Patched(entry.value, state.document)
         IN  [document |-> document,
              projection |-> ProjectionAfterPatch(entry.value, document, state.projection)]

\* The outcomes of a replay: none if an entry is refused, which throws.
Replay(document, journal, fresh) ==
    LET outcomes[n \in 0 .. Len(journal)] ==
            IF n = 0 THEN {[document |-> document, projection |-> Project(document)]}
            ELSE {ReplayEntry(state, journal[n], fresh) :
                     state \in {s \in outcomes[n - 1] : Accepts(s.document, journal[n])}}
    IN  outcomes[Len(journal)]

ReplayImage(image, fresh) == Replay(image.snapshot, image.journal, fresh)

Image == [snapshot |-> disk.snapshot, journal |-> disk.journal, media |-> disk.media]

HasWorkspace == disk.snapshot # None
Loaded == projectionCache # <<>> /\ documentCache # <<>>
Cached == documentCache[1]
Projected == IF projectionCache[1] = None THEN NoProjection ELSE projectionCache[1]
Ready == Loaded /\ (restoring = None \/ Overlap)
Active == Ready /\ Cached # None

\* The files left after an automatic backup of what is about to be replaced.
BackupsKept == {backup} \cup (IF HasWorkspace THEN {Image} ELSE {})

Fresh == drawn + 1

Draw(d) == d.deck <= MaxDecks /\ drawn' = IF d.deck = Fresh THEN Fresh ELSE drawn

StoreInit ==
    /\ disk = EmptyDisk
    /\ documentCache = <<>> /\ projectionCache = <<>>
    /\ backup = None /\ restoring = None
    /\ drawn = 0

\* load once the projection is undefined: a cached document is replayed upon.
\* A journal that does not replay throws, now and whenever it is tried again.
LoadFrom(image) ==
    IF image.snapshot = None
    THEN documentCache' = <<None>> /\ projectionCache' = <<None>> /\ UNCHANGED drawn
    ELSE LET base == IF documentCache # <<>> /\ Cached # None THEN Cached ELSE image.snapshot
             outcomes == Replay(base, image.journal, Fresh)
         IN  IF outcomes = {} THEN UNCHANGED <<documentCache, projectionCache, drawn>>
             ELSE \E state \in outcomes :
                    /\ documentCache' = <<state.document>> /\ projectionCache' = <<state.projection>>
                    /\ Draw(state.document)

LoadWorkspace ==
    /\ projectionCache = <<>> /\ (restoring = None \/ Overlap)
    /\ LoadFrom(Image)
    /\ UNCHANGED <<disk, backup, restoring>>

-----------------------------------------------------------------------------
(* Writing. *)

\* Defect: the journal survives the snapshot that contains it.
StoreSnapshotOnly(d, receipts, media) ==
    /\ disk' = [snapshot |-> d, journal |-> disk.journal, receipts |-> receipts, media |-> media]
    /\ documentCache' = <<d>>

\* storeValidatedWorkspaceDocument, with the other rows of its transaction.
StoreDocument(d, receipts, media) ==
    /\ disk' = [snapshot |-> d, journal |-> <<>>, receipts |-> receipts, media |-> media]
    /\ documentCache' = <<d>>

Journaled(kind, value) == Append(disk.journal, [kind |-> kind, value |-> value])

\* Every part of a change set differs from what the renderer last loaded or saved.
Effective(change, p) ==
    /\ ProjectionAfterChanges(p, change) # p
    /\ \A i \in DOMAIN change.upsert : change.upsert[i] # p.notes[i]
    /\ change.remove \subseteq Present(p)
    /\ change.add \cap p.media = {} /\ change.drop \subseteq p.media

ApplyChanges(change) ==
    /\ Ready /\ Effective(change, Projected)
    /\ LET projection == ProjectionAfterChanges(Projected, change)
           media == (disk.media \cup change.add) \ change.drop
       IN  /\ projectionCache' = <<projection>>
           /\ IF Cached = None
              THEN LET document == NewDocument(projection, Fresh)
                   IN  StoreDocument(document, disk.receipts, media) /\ Draw(document)
              ELSE LET document == DocumentAfterChanges(change, Cached, Projected, Fresh)
                   IN  /\ Cached.revision < MaxRevision
                       /\ disk' = [disk EXCEPT !.journal = Journaled("changes", change), !.media = media]
                       /\ documentCache' = <<document>> /\ Draw(document)
    /\ UNCHANGED <<backup, restoring>>

\* A patch whose receipt is on disk is answered again and changes nothing.
Unused(owner, key, target) ==
    /\ Active /\ Cached.revision < MaxRevision
    /\ <<owner, key>> \notin disk.receipts
    /\ target \in Items => target \in Present(Projected)

PatchOf(owner, key, target) ==
    [owner |-> owner, key |-> key, base |-> Cached.revision, target |-> target,
     deck |-> IF target \in Unfiled THEN Cached.deck ELSE 0]

ApplyCorePatch(key, target) ==
    /\ Unused("core", key, target)
    /\ LET patch == PatchOf("core", key, target)
           document == Patched(patch, Cached)
       IN  /\ Applies(patch, Cached)
           /\ disk' = [disk EXCEPT !.journal = Journaled("core-patch", patch),
                                   !.receipts = @ \cup {<<"core", key>>}]
           /\ documentCache' = <<document>>
           /\ projectionCache' = <<ProjectionAfterPatch(patch, document, Projected)>>
    /\ UNCHANGED <<backup, restoring, drawn>>

ApplyExtensionPatch(key, target) ==
    /\ Unused("extension", key, target)
    /\ LET patch == PatchOf("extension", key, target)
           document == Patched(patch, Cached)
       IN  /\ Applies(patch, Cached)
           /\ StoreDocument(document, disk.receipts \cup {<<"extension", key>>}, disk.media)
           /\ projectionCache' = <<Project(document)>>
    /\ UNCHANGED <<backup, restoring, drawn>>

WriteExtensionConfig(settings) ==
    /\ Active /\ Cached.revision < MaxRevision /\ settings # Cached.settings
    /\ LET document == [Cached EXCEPT !.settings = settings, !.revision = @ + 1]
       IN  /\ StoreDocument(document, disk.receipts, disk.media)
           /\ projectionCache' = <<Project(document)>>
    /\ UNCHANGED <<backup, restoring, drawn>>

\* The renderer's projection does not learn of the media.
CreateExtensionMedia(m) ==
    /\ Active /\ Cached.revision < MaxRevision /\ m \notin Cached.media
    /\ StoreDocument([Cached EXCEPT !.media = @ \cup {m}, !.revision = @ + 1],
                     disk.receipts, disk.media \cup {m})
    /\ UNCHANGED <<projectionCache, backup, restoring, drawn>>

-----------------------------------------------------------------------------
(* Import and synchronization (commitWorkspaceV4Import). *)

\* Defect: an import leaves the projection of the replaced document in memory.
CommitUnprojected(document, media) ==
    /\ StoreDocument(document, disk.receipts, (disk.media \cup media) \cap document.media)
    /\ UNCHANGED projectionCache

Commit(document, media) ==
    /\ StoreDocument(document, disk.receipts, (disk.media \cup media) \cap document.media)
    /\ projectionCache' = <<Project(document)>>

\* An imported note that is there already is a collision.
ImportWorkspace(incoming, media) ==
    /\ Ready /\ DOMAIN incoming \cap Unfiled = {}
    /\ IF Cached = None
       THEN Commit(NewDocument([notes |-> Overlay(incoming, NoNotes), settings |-> 0, media |-> media], Fresh), media)
       ELSE /\ Cached.revision < MaxRevision
            /\ media \cap Cached.media = {}
            /\ DOMAIN incoming \cap Present(Cached) = {}
            /\ Commit([Cached EXCEPT !.notes = Overlay(incoming, @),
                                     !.media = @ \cup media, !.revision = @ + 1], media)
    /\ UNCHANGED <<backup, restoring, drawn>>

\* The merged document holds every local note, deleted ones too, and none of
\* its notes keeps a tombstone.
CommitSynchronizedWorkspace(incoming) ==
    /\ Active /\ Cached.revision < MaxRevision
    /\ Commit([Cached EXCEPT !.notes = Overlay(incoming, @),
                             !.deleted = {}, !.revision = @ + 1], {})
    /\ UNCHANGED <<backup, restoring, drawn>>

-----------------------------------------------------------------------------
(* Backups.  One file stands for the one the user may restore. *)

CreateBackup ==
    /\ HasWorkspace /\ backup # Image /\ (restoring = None \/ Overlap)
    /\ backup' = Image
    /\ UNCHANGED <<disk, documentCache, projectionCache, restoring, drawn>>

\* restoreBackup up to its await: the caches are dropped.
BeginRestore ==
    /\ backup # None /\ restoring = None
    /\ restoring' = backup
    /\ documentCache' = <<>> /\ projectionCache' = <<>>
    /\ UNCHANGED <<disk, backup, drawn>>

\* Defect: a restored workspace keeps the receipts of the replaced one.
RestoredWithReceipts(image) ==
    [snapshot |-> image.snapshot, journal |-> image.journal, receipts |-> disk.receipts, media |-> image.media]

\* Defect: only the snapshot of a backup is restored.
RestoredSnapshot(image) ==
    [snapshot |-> image.snapshot, journal |-> <<>>, receipts |-> {}, media |-> image.media]

Restored(image) ==
    [snapshot |-> image.snapshot, journal |-> image.journal, receipts |-> {}, media |-> image.media]

FinishRestore ==
    /\ restoring # None
    /\ disk' = Restored(restoring)
    /\ backup' \in BackupsKept
    /\ restoring' = None
    /\ IF projectionCache # <<>> THEN UNCHANGED <<documentCache, projectionCache, drawn>>
       ELSE LoadFrom(restoring)

Clear ==
    /\ HasWorkspace /\ (restoring = None \/ Overlap)
    /\ backup' \in BackupsKept
    /\ disk' = EmptyDisk
    /\ documentCache' = <<None>> /\ projectionCache' = <<None>>
    /\ UNCHANGED <<restoring, drawn>>

Restart ==
    /\ documentCache # <<>> \/ projectionCache # <<>> \/ restoring # None
    /\ documentCache' = <<>> /\ projectionCache' = <<>> /\ restoring' = None
    /\ UNCHANGED <<disk, backup, drawn>>

StoreNext ==
    \/ LoadWorkspace
    \/ \E change \in Changes : ApplyChanges(change)
    \/ \E key \in Keys, target \in Items \cup {Structure} :
          ApplyCorePatch(key, target) \/ ApplyExtensionPatch(key, target)
    \/ \E settings \in Settings : WriteExtensionConfig(settings)
    \/ \E m \in ExtensionMedia : CreateExtensionMedia(m)
    \/ \E incoming \in Incoming, media \in SUBSET Media : ImportWorkspace(incoming, media)
    \/ \E incoming \in Incoming : CommitSynchronizedWorkspace(incoming)
    \/ CreateBackup \/ BeginRestore \/ FinishRestore \/ Clear \/ Restart

StoreSpec == StoreInit /\ [][StoreNext]_storeVars

-----------------------------------------------------------------------------
(* Properties. *)

Images == {Image} \cup {image \in {backup, restoring} : image # None}

\* The state has its types; a tombstone marks a note that is still stored, no
\* journal is without a snapshot, and receipts name patches.
StoreTypeOK ==
    /\ disk.snapshot \in Document \cup {None}
    /\ disk.snapshot = None => disk = EmptyDisk
    /\ \A k \in DOMAIN disk.journal :
          \/ disk.journal[k].kind = "changes" /\ disk.journal[k].value \in Changes
          \/ disk.journal[k].kind = "core-patch" /\ disk.journal[k].value \in Patch
    /\ disk.receipts \subseteq {"core", "extension"} \X Keys
    /\ disk.media \subseteq Media \cup ExtensionMedia
    /\ documentCache # <<>> => Cached \in Document \cup {None}
    /\ projectionCache # <<>> => projectionCache[1] \in Projection \cup {None}
    /\ \A image \in Images : image.snapshot # None =>
          image.snapshot.deleted \subseteq Present(image.snapshot)
    /\ drawn \in 0 .. MaxDecks

\* A loaded workspace is the one a restart would load: snapshot and journal
\* together lose nothing the handlers have acknowledged.  Only media an
\* extension created may be missing from the projection.
CacheIsDisk ==
    Loaded =>
        IF Cached = None THEN ~HasWorkspace /\ projectionCache[1] = None
        ELSE /\ HasWorkspace
             /\ \E state \in ReplayImage(Image, IF Cached.deck = 0 THEN Fresh ELSE Cached.deck) :
                    /\ [state.document EXCEPT !.media = {}] = [Cached EXCEPT !.media = {}]
                    /\ [state.projection EXCEPT !.media = {}] = [Projected EXCEPT !.media = {}]
                    /\ Cached.media \subseteq state.document.media

\* Startup, and the restore of any backup, can replay the journal it finds.
JournalReplays ==
    \A image \in Images : image.snapshot # None => ReplayImage(image, Fresh) # {}

\* A patch that will not be applied again has been applied.
ReceiptMeansApplied ==
    HasWorkspace => \A state \in ReplayImage(Image, Fresh) : disk.receipts \subseteq state.document.patched

\* The workspace a restart or a restore loads names no media without its bytes.
MediaStored ==
    \A image \in Images : image.snapshot # None =>
        \A state \in ReplayImage(image, Fresh) : state.document.media \subseteq image.media

\* The store is well formed, in memory, on the disk and in every backup, and no
\* media are named without their bytes.
StoreIsComplete == StoreTypeOK /\ MediaStored

\* The content a load finds; a workspace that does not load is not there.
Contents(image) ==
    {[notes |-> state.document.notes, deleted |-> state.document.deleted, settings |-> state.document.settings] :
        state \in IF image = None \/ image.snapshot = None THEN {} ELSE ReplayImage(image, Fresh)}

Stored(image) == IF Contents(image) = {} THEN None ELSE CHOOSE content \in Contents(image) : TRUE

Durable == INSTANCE DurableWorkspace WITH content <- Stored(Image), kept <- Stored(backup)

\* The store keeps the promise of DurableWorkspace across loads, journal,
\* checkpoints and restarts.
ImplementsDurability == Durable!DurableSpec
=============================================================================
