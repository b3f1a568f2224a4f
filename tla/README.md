# Verification of Neo Anki

TLA+ models of the parts of Neo Anki where several devices, processes, surfaces
of the interface or disk writes meet, checked with TLC on small instances and,
for all of them but the editing of content types, proved with TLAPS for every
instance: the sync service, the synchronizing devices, the ledger of fields, the
account, the desktop store, saving and opening, study sessions, the planner's
requests and the extension manager. Paths below are relative to the repository,
lines are those of the commit modelled; `PROJECT.json` maps every definition to the
lines it models.

## 1. The system

| Component | State it keeps | Operations | Hard behaviour |
|---|---|---|---|
| Reference sync service (`packages/sync-service`) | SQLite: devices, encrypted operations, actor watermarks, acknowledgements, snapshot manifests, compaction floor, staged chunks, media | enroll, recover, revoke, push, pull, acknowledge, snapshots, media, delete | a push verifies signatures across awaits; compaction depends on what every device said; clients retry |
| Sync client (`packages/sync-client`) | outbox, cursor, next sequence number, snapshot cursor, replica | capture, synchronize, acknowledge | lost answers, retries, paging with a bootstrap in the middle |
| Replica ledger, hybrid clock (`packages/sync-protocol`) | fields with timestamps, tags, tombstones, conflicts | apply, clone, resolve | operations in different orders on different replicas; ledgers seeded again from documents |
| Host coordinators (`electron/sync-manager.ts`, `apps/mobile/src/sync.ts`, `src/lib/browser-sync.ts`) | configuration with baseline, client state, pending commit, keys | create, recover, synchronize, resume, resolve, rotate, revoke, disconnect, delete | crashes between two stores, resumed commits, edits meanwhile, overlapping calls |
| Workspace store (`electron/workspace-store.ts`) | snapshot row, journal, receipts, media, two caches, backups, copies of damaged files | open, upgrade, changes, patches, import, replace, backup, restore, clear, migrate | crash between writes, caches that outlive what they cache, damaged and old files |
| Main process (`electron/main.ts`) | save queue, deferred migration, extension handlers | IPC handlers | handlers that interleave at their awaits |
| Renderer persistence (`src/lib/storage.ts`) | last persisted state, pending batch, blocked persistence | load, save, flush, clear | saves that overlap, failures of some of them |
| Application state (`src/state/AppContext.tsx`) | workspace, saving status, session, signals, plan | edits, review, undo, content types, recovery | effects that run later than what they were made for |
| Planner (`src/lib/planner*.ts`, `src/workers`) | daily plan, requests to a worker | plan, cut a session, time out, retry | limits counted from a log that sessions, undo and other devices change |
| Extension host (`electron/extension-manager.ts`, `src/extensions/v2`) | registry and recovery file, packages, worker, requests, signals | install, confirm, roll back, remove, activate, plan | crash between two file operations, late answers |
| Compatibility domain, codec (`packages/compatibility-domain`, `src/lib/workspace-v4.ts`) | the document: content types, fields, templates, notes, cards, reviews; its projection | patch, project, refresh, normalize, migrate | a projection that is edited and must stay in step with its document |
| Marketplace, SDK, encryption, HTTP layer, rendering of text, UI | — | — | see section 8 |

Clients call the service over HTTP with a 30 second timeout. A host reads the
workspace from its store, lets the client turn the changes since the baseline
into signed operations, stores them in its configuration, then pushes, pulls,
merges, publishes a snapshot, makes the result durable and acknowledges it. On a
desktop the workspace (SQLite) and the configuration (a JSON file) are separate
stores joined by a journal entry, `pendingCommit`; on a mobile both are written
in one transaction.

In a window, `AppContext` holds the workspace as a projection. `storage.ts`
turns two versions of it into a change set, which the queue of the main process
hands to the store; the editor of content types sends a patch of the document
instead and adopts the answer. The store journals both and loads by replaying
them over the last snapshot. Plans are computed from the projection and from the
signals that extensions answer, in workers when the workspace is large.

What makes each of them correct:

* service: the stored operations of an actor are a contiguous interval; nothing
  is compacted that somebody may still need; a page never skips an operation;
  a sequence number is used once; limits hold;
* client and hosts: what is acknowledged is stored; what is captured is
  eventually published, once; a snapshot is the document its cursor claims; the
  baseline is the document the store holds, so that a capture never publishes a
  revert; everybody converges; the stored record is never put back behind the
  service or the user;
* ledger: replicas with the same operations hold the same values; an edit is
  published; a resolution that arrives settles its conflict;
* store and save queue: what was acknowledged as saved survives a crash; the
  caches agree with the disk; a failed save is contained in a later one; a
  workspace that cannot be opened is kept;
* document: what the page shows can be stored, its references hold, and after a
  patch it shows what the document holds;
* study: the schedule of a card is the history of its surviving reviews, and a
  day keeps its limits; a plan belongs to the signals stored;
* extensions: the version known to work stays until another one is confirmed.

## 2. Modules

| Module | Models |
|---|---|
| `SyncService` | one workspace in the reference service; one action per handler, `push` split at its awaits |
| `ReplicatedWorkspace` | what sync promises: a replicated, growing set of operations (abstract specification) |
| `WorkspaceSync` | devices, hosts and clients composed with `SyncService` (which it extends), implementing `ReplicatedWorkspace` |
| `ReplicaLedger` | the fields, tags and conflicts of one entity under ledger, clock, replica and client |
| `SyncAccount` | the stored record of one device under overlapping calls, lost requests, crashes and another device's new key |
| `DurableWorkspace` | what the desktop promises about the workspace on its disk (abstract specification) |
| `WorkspaceStore` | the desktop store and the handlers that change it, implementing `DurableWorkspace` |
| `SavePipeline` | change sets, edits and saves of the renderer, over the projection the store loads |
| `WorkspaceOpening` | how a workspace gets there: opening, upgrade, migration, damage, recovery, backups, restart, reload; extends `SavePipeline` and states the properties of both |
| `ContentGraph` | documents of content types, their projection, the editor, patches, synchronized changes |
| `StudySession` | plan, session, review page, reviews, undo, library actions, midnight |
| `PlanningRequests` | refreshes of signals, the extension's worker, the planner's worker, the plan on the page |
| `ExtensionActivation` | installing, confirming, rolling back and removing an extension, one file operation at a time |
| `MC...` | values for the parameters and symmetry |
| `WorkspaceSyncProofs` | theorems about `SyncService` and `WorkspaceSync`: the service by itself; numbering, use of the service and edits in every environment; documents, snapshots, acknowledgements and refinement while devices take turns |
| `ReplicaLedgerProofs`, `SyncAccountProofs`, `WorkspaceStoreProofs`, `StudySessionProofs`, `PlanningRequestsProofs`, `ExtensionActivationProofs` | theorems about the module of that name |
| `WorkspaceOpeningProofs` | theorems about `WorkspaceOpening` and the saves of `SavePipeline` |

### SyncService

An operation is a pair `<<actor, sequence>>`; a cursor a function from actors to
numbers, 0 where the code has no entry. `AuthorizePush` is `push` up to its last
await, `Push` and `RejectPush` the quota check and the transaction after it;
every other handler runs without an await and is one action. `TryCompact` is
part of `Acknowledge` and `RevokeDevice`, as in the code. `ServiceCrash` forgets
requests in flight, nothing else: every table is in SQLite. Requests are not
restricted to what the shipped client sends: batches may repeat, skip or reorder
numbers and cursors are arbitrary.

### WorkspaceSync

A document is the set of operations whose effect it contains, because all
properties are about which changes are where. One action stands for the code
between two awaits on network or disk. `session` is what a running
synchronization has in memory and a crash loses; `workspace` and `config` are on
disk. The failure branch (`AfterFailure`) is the catch block: it writes
`client.state()` over the configuration of the session and leaves the workspace
alone. The baseline is then the captured one, except when the save transaction of a
mobile throws (`SaveFails`): the configuration has the baseline of the merged
document by then.

The switches `Established`, `Concurrent`, `EditsDuringSync`, `Faults`, `Reviews`,
`AnkiImports`, `ClientState` (operations on data that a desktop's commit never
takes from the merged document) and `Deletions` (operations whose tombstones it
does not look at) select which environment a run has. Some of them restrict the
environment for a reason given in section 5: the code does not keep its promises
without them.

### ReplicaLedger

`WorkspaceSync` treats an operation as an atom; here it has the values its author
wrote and saw, tags, a hybrid timestamp `<<wall time, counter, actor>>` and the
conflicts it resolves. Every synchronization makes a new client from the stored
baseline, as all hosts do, so the ledger of a session is seeded from a document
(`Seed`) and knows nothing of earlier sessions. `log` is what the service has
accepted, in the order of arrival; a device pulls it in pages.

### SyncAccount

`config` is the stored record, `calls` what each surface of the interface is
waiting for. An operation reads the whole record, awaits, and writes it back;
synchronizations and resolutions pass through the queue of the manager
(`syncQueue`), the operations on the account do not. `service` has the actors, keys and
watermarks of the account. A key is a number, a journaled result the version of
the workspace it stands for. A request may be lost before or after it took
effect. With `Alone = TRUE` an operation on the account begins only when no other call
is in progress, and nothing begins before it ends: synchronizations and resolutions
may still wait for each other. One mounted panel behaves like that; the managers
themselves do not see to it (section 5).

### WorkspaceStore

`disk` is the SQLite file: the snapshot row, the journal, the receipts of applied
patches and the media rows. `documentCache` and `projectionCache` are the two
caches of the main process, empty after a start. A note is a version number, the
deck of one collection an identifier; `patched` records which patches a document
contains, so that a lost patch is visible. `Replay` is the load: it yields no
outcome when an entry is refused, which in the code throws. Handlers run between
two awaits and are one action each; only `restoreBackup` waits in the middle
(`BeginRestore`, `FinishRestore`). A first `LoadWorkspace` stands for the `load()`
that every handler does when nothing is cached. One backup file stands for the
one a user may choose.

`DurableWorkspace` knows only the content a restart would load and the kept
copy. The mapping is the replay of the disk and of the backup file, so the
refinement says that a save is durable when it is acknowledged, that a
checkpoint or a restart changes nothing, and that only restoring and erasing
lose notes.

### SavePipeline and WorkspaceOpening

`data` is `dataRef`, `lastPersisted` and `inflight` are the state of
`src/lib/storage.ts`, `effect`, `skip`, `attempt`, `passive` and `status` that of
`AppContext` (`passive` is the attempt whose closure still has `current = true`).
`Awaited` edits (`AddItem`, `UpdateItem`) save themselves, the others wait for
`PassiveEffect`. A save in `inflight` passes from "sent" to its result in the
main process, in the order of the queue, and is then answered. `WorkspaceStore`
shows that the projection a save leaves is the one a restart loads, so `stored`
is that projection; a failed save leaves it alone.

`WorkspaceOpening` starts before there is a page. The database is sound, damaged
(SQLite does not open it, and it is set aside) or unreadable (it opens and does
not load); its schema is the first or the current one; the JSON file of earlier
releases is absent, sound, unreadable, or rejected only by the validation that
the migrating worker runs ("unchecked"). `OpenStored` and `OpenLegacy` show a
workspace, `OpenDamaged` and `OpenUnreadable` the recovery screen. A legacy workspace is shown at once
and migrated later by a worker (`QueueMigration`, `MigrationCommits`,
`MigrationAccepted`, `MigrationFails`), and saves wait for it in the queue.
`RestoreBackup`, `StartEmpty` and `ResetData` replace what is stored and keep it
in a backup or aside; `Reload` replaces the page, `Crash` everything in memory.
`truth` and `replaced` are history: the work a store that is never harmed would
hold, and what the user let be replaced.

`Overlap` names situations the passing run excludes and section 5 explains:
editing anything while an awaited save is in flight ("edit"), taking back a
change whose save is in flight ("undo"), reloading the window then ("reload"),
and a stop of the application while a recovery is pending ("recovery") or after
erasing ("reset").

### ContentGraph

A document maps numbers to content types, fields, templates, notes, cards and
reviews; the page holds items, their cards and a rendering per card. `Project`,
`Refresh`, `Patched`, `Normalize`, `Migrate` and `ValidDocument` are the pure functions of
`packages/compatibility-domain` and `src/lib/workspace-v4.ts`; the actions are the page's
edits and saves, the editor of content types (`Open`, `SendPatch`,
`CommitInBrowser`, `Adopt`), a change of another device (`Receive`) and a restart.
`desktop` chooses between the two applications. A desktop keeps the document in
its store, rebuilds the page from the answer to a patch and replays its journal at a
restart (`replayed`). In a browser the page carries the document (`doc`), each save
writes one made of the page beside it (`storedDoc`), and a reload takes what was
saved last; the examples carry none, so that loading them drops it. Schedules, names, decks and media are left out.
`Exposed` names the situations section 5 describes.

### StudySession

Moments stand for time, `DayLength` to a day. What FSRS knows of a card is
abstracted to its history: a forgotten card is due at the next moment, a
recalled one days later. The review page, its index and its stack live while it
is mounted; the session outlives it and is lost by a restart. `Recognized` says
whether a review made elsewhere has another device's id, `Entangled` whether
another device may review a card whose last review can still be undone here,
`Overnight` whether a session may be returned to on a later day than the one it
began on (`since`; history, not state of the code).

### PlanningRequests

`refreshes` are the calls of `refreshExtensionPlanningSignalsV2` in progress,
`pending` and `asked` the two ends of the extension's requests, `task` the
planning effect that is not aborted, `queue` the planner's worker. Versions of
the workspace and of the signals are numbers. Timeouts, late answers, errors and
crashes of either worker are actions.

### ExtensionActivation

`stateFile` and `recoveryFile` are the two registry files, `packages` the
directories. An operation of a handler is in `op` with the step it takes next, so
a crash or a failing file operation comes between any two renames or writes.
`renderer` is the window: it lists, activates, confirms or rolls back, and
reloads.

## 3. Runs

| Run | Instance | Shows |
|---|---|---|
| `service` | 2 devices, numbers up to 2, 1 push in flight, quota 3, 2 retained snapshots | all invariants and action properties of the service under arbitrary requests |
| `sync` | 1 desktop, 2 mobiles, numbers up to 2, pages of 2, pushes of 1, one fault anywhere but in a media transfer or a mobile's save | nothing acknowledged early, snapshots exact, baseline and store agree, no edit lost, and the refinement of `ReplicatedWorkspace` |
| `sync_hostile` | 1 desktop, 1 mobile, every kind of fault, concurrent synchronization, edits at any time, a quota of 3 operations | outbox and service never disagree on numbering and lose nothing |
| `sync_converges` | 2 mobiles, one fault of any kind but upload, download, save and commit | convergence under fairness |
| `store` | 2 notes, 3 revisions, 1 medium of the user and 1 of an extension, 1 key per kind of patch | caches, journal, receipts and media agree across every order of handlers, backups, restores and restarts; refinement of `DurableWorkspace` |
| `opening` | 2 notes, versions up to 3, 3 changes (edits, damages, recoveries), 1 failed save, 2 recoveries, crash or reload at any time | what is shown is what was saved, nothing acknowledged is lost, what cannot be opened is kept; no save brings an older version back; every attempt is answered |
| `ledger` | 2 devices, 1 field, 1 tag, 3 edits, 1 failed synchronization, equal clocks | equal documents for equal operations, no edit captured away, a resolution that arrives settles its conflict |
| `account` | 2 surfaces, 5 calls, 1 edit, 2 lost requests, failures or crashes | the record is never behind the service or the user, a journaled result is committed, nothing is overwritten |
| `study` | 3 cards of 2 notes, 2 days, 3 reviews, undos or library actions, 1 review made elsewhere | schedules are histories, daily limits and siblings hold, undo and page agree |
| `planning` | 2 batches of items, 1 change of the workspace, 1 command, retry, crash or error | the plan belongs to the stored signals, signals never go back, planning settles |
| `extensions` | 3 versions, one with frames, 3 changes of the user, 2 faults | the proven version stays installed until another one is confirmed; starting ends |
| `graph` | at most 2 items, 3 changes, desktop and browser, from nothing, version 3 and imports | the page can be stored, a patch is shown, a stale editor overwrites nothing |

The whole set takes about ten minutes; the largest runs have 1.7 million distinct
states (`sync_hostile`) and 1.1 million (`ledger`), the others 50 to 400 thousand,
`service` apart.

Bounds, by the names they have in the configurations:

* `MaxSequence` = 2 operations per actor are the least that make order, gaps and
  partial compaction visible; a page of two operations (`PullLimit`) and a push
  of one (`PushLimit`) make every loop of the client run more than once; three
  devices let one device be compacted over while a second one is behind. One
  fault (`MaxFaults`) is enough to interrupt every call at every point; the
  hostile run has concurrency as well. `MaxRequests` = 2 keeps a late push next
  to its retry.
* `MaxRevision` = 3 puts two entries in the journal, of either kind, before a
  checkpoint, a backup, a restore or a restart.
* `MaxEdits` = 3 puts a passive and two awaited saves in flight together, and
  `MaxAttempts` = 3 lets a failed one be retried; `MaxChanges` = 3 shares edits,
  damages and recoveries out, so that work can be damaged, restored and edited
  or erased and damaged again. `MaxVersion` only has to exceed what three edits
  can reach.
* `ledger`: three edits are two concurrent ones and a third that meets or
  resolves their conflict, with three values and their symmetry.
* `account`: five calls connect, disconnect and connect again between two
  synchronizations; symmetry exchanges the surfaces.
* `study`: `MaxSteps` = 3 entries forget, recall and undo one card, or study two
  siblings and a third card over midnight (`DayLength` = 1, `MaxTime` = 1).
* `planning`: two batches let signals change between them; one change makes two
  refreshes overlap; `MaxPending` = 2 is reached by two refreshes and a command.
* `extensions`: three versions are a proven one, an update and an update of the
  update; two faults interrupt an operation and its recovery.
* `graph`: `MaxChanges` = 3 adds to a type, uses what was added, and changes it
  again from the stale editor, with a restart or another device between.

Deadlock is checked for `service`. It is not checked elsewhere: users start what
happens there, and within the bounds the system may rightly stop.

## 4. Fairness

* `WorkspaceSync` asks for weak fairness of the running session and of the
  service, and strong fairness of starting a synchronization: a user who keeps
  pressing Sync now gets a turn although other devices synchronize too. Nothing
  is asked of faults, edits, revocation or disconnection. Convergence is stated
  for devices that stay active and connected.
* `WorkspaceOpening` asks that React runs the effects of a render, that the main
  process works on its queue and its migration, and that its answers arrive.
  `OutcomeReported` holds because edits are finite: each one may start another
  attempt, and only the latest reports.
* `PlanningRequests` asks that code which can go on does, and that a request is
  answered or its timer fires, for both workers. No fairness is asked of
  changes, commands, retries, late answers or crashes.
* `ExtensionActivation` asks that file operations end and that the window does
  what it has to do next; faults and the user are free.

## 5. Where code and documentation disagree, and what the runs leave out

The passing runs use environments in which the code keeps its promises. What was
excluded, and which parameter brings it back:

**Synchronization** (`sync`: devices take turns, `Concurrent = FALSE`, join an
account that has operations, `Established = TRUE`, do not edit while they
synchronize, `EditsDuringSync = FALSE`, do not touch client state,
`ClientState = {}`, and failures of an upload, a download or a mobile's save are
left to `sync_hostile`).

* A desktop acknowledges received changes of settings, goals, views, packs,
  trash and tombstones and does not store them: its commit keeps its own client
  state (`electron/workspace-store.ts:890`). `docs/sync-service.md:24`: "Each
  device acknowledges a cursor only after applying and durably storing it."
  `ClientState` non-empty breaks `AckedImpliesApplied`.
* Sync now skips the workspace commit if nothing was received
  (`electron/main.ts:659`), but a bootstrap from a snapshot counts nothing as
  received (`Established = FALSE`).
* After an interrupted push a review comes back by pull and the ledger refuses
  it, in every later synchronization (`packages/sync-protocol/src/index.ts:280`;
  `Reviews`). New edits after an interrupted push end in "Non-monotonic
  sequence" in the same way (`PulledIsApplicable`).
* A recovered desktop keeps its own workspace id and fails the check at the start
  of every later synchronization (`electron/sync-manager.ts:185`).
* An edit made while a synchronization or its commit is pending is lost
  (`EditsDuringSync = TRUE` breaks `EditsReachOutbox` in 11 steps). The sync-now
  handler reads the workspace before it awaits (`electron/main.ts:656`), the save
  queue is not held meanwhile, and `commitSynchronizedWorkspace`
  (`electron/workspace-store.ts:926`) stores the merged document whatever was
  saved since.
* A failed upload or download of media (`Faults` with "upload" or "download")
  comes after the cursor has moved: the catch block stores it and the document is
  not committed, which breaks `AckedImpliesApplied`. `sync_hostile` has these
  faults and checks what survives them.
* The save of a mobile can throw (SQLite, the validation of the document).
  `apps/mobile/src/sync.ts:85` has then put the baseline and the client of the
  merged document into the configuration, and the catch block (`:88`) stores them
  beside the old workspace. The next capture compares that workspace with the new
  baseline and publishes, as edits of this device, that everything received was
  undone. `docs/sync-service.md:34`: "Desktop and native clients write the encrypted
  operation journal and resulting Workspace v4 state in one local transaction before
  acknowledging a remote cursor." `Faults` with "save" breaks `StoresAgree` in 45
  steps, and `NoPhantomRevert` and `ImplementsReplication` with the capture that
  follows.
* With `Concurrent = TRUE` the client advances its cursor before it publishes a
  snapshot; if the service refuses the snapshot because another device was
  faster, the catch block stores the cursor without the document. The early
  return for Anki imports (`AnkiImports`) does the same.
* A push authorized before its device is revoked is stored after it
  (`docs/sync-service.md` says that revocation blocks writes).
* Synchronization brings deleted notes back (`Deletions`).

**Fields** (`ledger`: `Skew` equal, replicas compared only from the same seed).

* A ledger is seeded with the time of the entity for every field
  (`packages/sync-client/src/index.ts:161-178`), so a concurrent edit of another
  field can win or lose by it; `src/lib/sync-client.test.ts:12` merges fields
  independently. Tags of replicas seeded at different times diverge.
* A note that is deleted and created again across two synchronizations is
  published as an update, not as a restoration, and stays deleted elsewhere.
* A device whose clock is behind loses its own later edit.
* Lists of conflicts depend on the order in which operations arrive, already with
  three edits of three devices: what a ledger stands for agrees, what it asks does
  not, and `LedgerInv` leaves it out.
* The resolved ids are known to one client only (`packages/sync-client/src/index.ts:292`,
  `:354`), so a later synchronization may ask about a resolved conflict again;
  and a resolution that arrives for a deleted entity is not applied and leaves the
  conflict on the list. `ResolvedIsSettled` is about the synchronization that
  brings a resolution, of an entity that is there.

**The account** (`account`: `Alone = TRUE`).

* Only `synchronize` and `resolveConflict` pass through the queue of the manager.
  Replacing the key (`electron/sync-manager.ts:216`, `src/lib/browser-sync.ts:247`),
  connecting, disconnecting and deleting read the record, await the service and
  write, while a synchronization may be running in the same window: a panel
  disables its buttons while it is busy, but it may be closed and opened again, and
  a second surface knows nothing of the first. With `Alone = FALSE`
  `RecordIsCurrent` fails in 18 steps (a replaced key is written with the record
  from before a capture, whose operation is then numbered again) and
  `NothingOverwritten` as well; `AccountTypeOK` still holds, and is proved
  (`RecordStaysComplete`). `src/lib/browser-sync.ts:267`: "One
  coordinator per browser context prevents independent UI surfaces from racing
  IndexedDB state". Two tabs each have a coordinator, and are not modelled.
* A lost answer to the creation of an account leaves an account that can be
  neither used nor created again; a crash while a key is rotated can lose the
  key (`browser-sync.ts:250`).

**The store** (`store`: `Overlap = FALSE`, `Unfiled = {}`, `MaxDecks` = 0).

* The deck of a new collection gets a random identifier each time its change set
  is applied (`src/lib/workspace-v4.ts:260`). A journaled patch that names the
  first identifier is refused by the replay, and the workspace does not load
  until the journal is checkpointed away, which needs a loaded workspace;
  `docs/desktop-architecture.md:24` and `:30` describe the journal as replayable
  (`Unfiled` non-empty and `MaxDecks > 0` break `JournalReplays`).
* Extension media are missing from the cached projection until the next full
  projection (`electron/workspace-store.ts:1204`; `CacheIsDisk` leaves media
  aside). Handlers that run while `restoreBackup` waits fill the caches with the
  replaced workspace (`:1342`; `Overlap = TRUE`). A commit that fails leaves the
  document cache ahead of the disk (`:784`; transactions always commit in the
  model). An interrupted synchronization is resumed at startup before the
  journal was replayed (`electron/main.ts:790`).

**Saving and opening** (`opening`: `Overlap = {}`).

* A change set is computed from the last acknowledged state. If an edit takes
  back what a save in flight does, its change set says nothing about it: the
  first save stands and `lastPersisted` is wrong afterwards
  (`src/lib/storage.ts:160`; "undo").
* An edit made during an awaited save is skipped by the passive effect and not
  saved before the next edit, although the status returns to "saved" ("edit").
* A window that reloads while the queue works starts from a projection that is
  about to change, because loading does not wait for the queue ("reload").
* `electron/workspace-store.ts:180-182`: "Recovery remains blocked until the user
  explicitly exports, restores, or resets." The block is only in memory: after a
  stop the next start finds the new empty database and shows a first workspace,
  or migrates the legacy file again ("recovery" breaks `OpeningInv` in 7 steps).
* Nothing removes the legacy file. After erasing, a stop before the empty
  workspace is saved brings the legacy workspace back ("reset", 5 steps), and
  always when the migration has failed, because every save is then rejected
  until a restart (`electron/main.ts:142-143`, `:185`).
* A database that opens and does not load is left where it is, and the recovery
  screen can do nothing with it but restore a backup over it or erase it (both set a
  copy aside): the answer to the load names no source (`electron/main.ts:346`, `:358`),
  so "Export original data" is disabled (`src/lib/storage.ts:57`,
  `src/components/WorkspaceRecovery.tsx:67`). `OriginalIsKept` says where the work is
  in either case.
* `restoreBackup` leaves a deferred legacy projection in place; restoring over
  one that is not migrated is left out.

**Content types** (`graph`: `Exposed = {}`).

* "journal": after a field is added and a layout asks for it, a review, a save
  and a restart leave cards of that type without a rendering that fits, and
  editing the note throws. `src/lib/workspace-v4.ts:23-24`: "this projection is
  regenerated after each load/commit".
* "deletion": a note created, reviewed and deleted in one browser session leaves a
  review of an unknown card, and every later save fails
  (`packages/compatibility-domain/src/invariants.ts:190`);
  `src/lib/workspace-schema.ts:354`: "Review events intentionally survive
  permanent card deletion".
* "sync": a browser commits a synchronized workspace without its document
  (`src/components/SyncPanel.tsx:40-44`) and loses its content types.
* "examples": after the examples were loaded an adoption throws when the patch is already durable.
* Two devices that add fields to one type at the same time make a document that
  neither accepts.

**Study** (`study`: `Recognized = TRUE`, `Entangled = FALSE`, `Overnight = FALSE`).

* Two browsers of an account share one device id, so an undo can take the other
  one's review back (`src/state/AppContext.tsx:679`; `Recognized = FALSE` breaks
  `UndoFollowsPage`); `docs/audits/neo-anki-audit-remediation-2026-07-19.md:15`
  says undo is limited to the device.
* Two devices that undo one review make a log the invariants reject ("A review
  can be reversed only once."; `Entangled = TRUE`).
* A review made elsewhere arrives for a card that is there (`ReceiveReview`); one for a
  card in the trash, which stays in the log beside the card kept with the trash, is
  left out.
* Cards that were in the trash do not count towards the day's new cards
  (`NewLimitHonoured` leaves them out); an undo overwrites a manual suspension; a
  plan is not made again when only time has passed.
* A review page that is mounted again starts at the first card of its session
  without looking at it (`src/pages/ReviewPage.tsx:18`, `:34`). With
  `Overnight = TRUE`, `NewLimit` = 3 and `MaxSteps` = 4, a session of the cards A1,
  B, A2 answered A1 before midnight and the other two after it; left and opened
  again it asks for A1, which A2 has buried, and `SiblingsApart` fails in 9
  steps. `docs/audits/neo-anki-audit-remediation-2026-07-19.md:23`: "current review
  queues skip buried siblings".

**Planning and extensions** (`extensions`: one handler, `Reinstalls = FALSE`).

* A confirmed version that is installed again, and two handlers at once, each
  break `ProvenIsReplacedByConfirmation` (`electron/extension-manager.ts:177-181`,
  `:232`): confirmations and rollbacks name an extension, not a version.
  `docs/core-and-extensions.md:37`: "Same-digest reinstall is idempotent. Update/downgrade activation uses a
  recoverable state transition".
* A stop between the two renames of a downgrade loses the previous package
  (`ProvenIsKept` excepts `Displaced`).
* An answer that arrives after its timeout closes the extension's worker for the
  life of the window; one refused request ends a whole refresh of the signals.

## 6. Proofs

A theorem holds for every number of devices, callers, versions, edits and faults,
where a run has a few. Each one follows from an inductive invariant: it holds at
the start, one lemma per action shows that the action keeps it, and the property
follows from it. All rest on the named ASSUMEs of their modules: limits are
natural or positive numbers, batches are sequences of positive numbers, cursors
functions to naturals, a snapshot body is any set of operations, cards have ranks
and days a length, and the values that stand for "none" are not among the values
they replace (`NoneAssumption`, `NoEntryAssumption`, `ValueAssumption`, a conjunct of
`PipelineAssumption` and of `OpeningAssumption`). The hypotheses of a theorem, listed
below, are switches of the model; each names an environment outside of which section
5 shows the property to fail. Some of those environments the code does not prevent:
the theorems say what holds inside of them, not that the code stays there.

| Theorems | Property | Hypotheses | Inductive invariant |
|---|---|---|---|
| `TypeCorrectness`, `OperationsAreSuffix`, `HistoryIsServed`, `SequencesAreFresh`, `CompactionIsAcknowledged`, `CatchingUp` | `ServiceTypeOK`, `RetainedSuffix`, `NoHistoryLost`, `SequenceNeverReused`, `CompactionAcknowledged`, `CatchUpIsComplete` | none | `ServiceInv` |
| `LogsAreOrdered`, `ServiceIsUsed`, `OutboxesContinueTheLog` | `LogsAgree` | `Served` | `LogOrder` |
| `EditsAreCaptured` | `EditsReachOutbox` | `Served`, `~EditsDuringSync` | `LogOrder`, `EditsWait` |
| `BaselinesAreDocuments`, `AcknowledgedIsStored`, `SnapshotsAreExact`, `NothingIsReverted`, `DevicesReplicate` | `StoresAgree`, `AckedImpliesApplied`, `SnapshotIsExact`, `NoPhantomRevert`, `ImplementsReplication` | `Served`, `Orderly` | `Order` |
| `RecordStaysComplete` | `AccountTypeOK` (in `RecordIsCurrent`) | none | `OverlapInv` |
| `RecordStaysCurrent`, `JournalsAreCommitted` | `RecordIsCurrent`, `JournalIsCommitted` | `Alone`: no operation on the account overlaps another call | `AccountInv` |
| `CachesAreDisk`, `JournalsReplay`, `ReceiptsMeanApplied`, `StoresAreComplete`, `StoreIsDurable` | `CacheIsDisk`, `JournalReplays`, `ReceiptMeansApplied`, `StoreIsComplete`, `ImplementsDurability` | `~Overlap`, `Unfiled = {}` | `StoreInv` |
| `LedgerInvariance`, `ResolvedStaysSettled` | `LedgerInv`, `ResolvedIsSettled` | none | `ReplicaInv` |
| `CaptureKeepsEditsInvariance`; `ForemostKeepsEdits` | `CaptureKeepsEdits` | no clock is ahead of another one; none, of a device that no clock is ahead of | `ReplicaInv`, `CurrentInv` |
| `OpeningInvariance`, `SavesNeverRegress` | `OpeningInv`, `NoRegression` | `Overlap = {}` | `OpeningOrder` |
| `StudyInvariance` | `StudyInv` | `~Entangled` | `StudyOrder` |
| `UndoTakesBackTheAnswer` | `UndoFollowsPage` | `Recognized` | `StudyOrder` |
| `StudyGoesAsPlanned` | `StudyAsPlanned` | `Recognized`, `~Entangled`, `~Overnight` | `StudyOrder` |
| `PlansAreCurrent`, `SignalsAdvance` | `PlanningInv`, `SignalsNeverOlder` | none | `PlanningOrder` |
| `ProvenStays`, `OnlyConfirmationReplaces` | `ActivationInv`, `ProvenIsReplacedByConfirmation` | one handler (`Alone`), `~Reinstalls` | `ActivationOrder` |

**The service.** `RetainedSuffix` is inductive only together with `ClaimsWithinLog`
(otherwise compaction could pass the watermark) and `NoHistoryLost` only together
with `SnapshotCoversFloor` (otherwise a lagging client could be sent to a
snapshot behind the floor). `PageLeavesNothing` proves for every page size that a
page holds the earliest operations of each actor and its cursor goes no further.

**The devices, any environment.** `Served` says that the service's `Cursors` and
`Batches` include all that devices may send within `MaxSequence`; it bounds what
`SyncService` is asked, not what the devices do. `LogOrder` relates, per
device, stored client, pending commit, running session, requests on the way,
watermark and acknowledgement: what left the outbox was accepted, what was accepted
has a number below `next`, and no cursor is ahead of the log or behind the
acknowledgement. It does not depend on turns or on the kind of fault, and with it
every step of the composed system is a step of `SyncService` (`ServiceIsUsed`), so
that what is proved of the service holds among the devices. `EditsAreCaptured`
needs `EditsWait`: a device with edits that are not captured has nothing pending.

**The devices taking turns.** `Orderly` is the environment of the run `sync` for any
number of devices, operations and faults: devices join an account that has
synchronized operations (`Established`), take turns (`~Concurrent`), no upload
or download of media and no save of a mobile fails, and documents hold nothing that a desktop's commit
leaves out (`AnkiImports`, `ClientState`, `Deletions` empty). Pushes and pulls may
fail, answers may be lost or come late, hosts and service crash, devices are
revoked or disconnect. `Order` says what the properties need of each other: the
stored document is what the stored cursor covers and what the device wrote itself
(`StoresInOrder`), a pending commit holds more and continues its client
(`JournalInOrder`), a session has pulled what its cursor says, page by page, from
the log or from a snapshot that is exact (`PulledInOrder`), and what it has applied
contains everything stored (`AppliedInOrder`). `SnapshotIsExact` is not inductive
alone, because a snapshot is made from what an earlier snapshot began, nor
`AckedImpliesApplied`, because a failed session leaves a cursor in the
configuration. Without the hypothesis on failures it is false: the catch block stores
a cursor whose document is lost, or the baseline of a document that was not saved
(section 5). `DevicesReplicate` maps the
stored documents, the watermarks and the acknowledgements to
`ReplicatedWorkspace`: a capture authors, an accepted push publishes, a commit
or save learns, an acknowledgement confirms, everything else is unseen.

**The account.** With `Alone` one operation on the account is in progress at a time
and each call knows the record it will replace (`HoldsRecord`), across queued
synchronizations, lost requests, crashes and another device's new key. That nobody
overwrites a record is then the queue's doing, and is left to the run. Without
`Alone` a caller may hold an outdated record and put it back; `OverlapInv` says that
whatever it holds is still complete (`CallComplete`), since the service only hands
out further actors and keys, and that the queue serves one caller at a time, so that
the stored record stays well formed even then (`RecordStaysComplete`).

**The store.** What `Replay` computes is proved by induction over the journal.
The theorems of `NaturalsInduction` take an operator as parameter, which the
provers cannot instantiate; `BoundedInduction` derives, from the well-foundedness of
the naturals, induction as a fact about sets, and `UnfoldingIsUnique` makes the
recursive function one. (The proofs about ledgers and study sessions begin with the
same lemma.) `StoreInv` says that the
disk replays to one document and that caches, receipts and backup are about that
document; `StoreIsDurable` maps handler by handler to `DurableWorkspace`.

**Planning and extensions.** `PlanningOrder` says which versions a plan may have
read while signals are refreshed, and which answers may still come.
`ActivationOrder` says, for each step between two file operations, which packages
are in place and what the two registry files hold.

**The ledger.** `Stands` says what a ledger is in terms of sets: for every field and
tag it holds the latest of what contends, the value of the document it was made from
and the values of the operations applied. An operation that is applied keeps that
(one lemma for each kind), a batch by induction along it, and since `Newer` orders the
timestamps of distinct operations, what `Stands` for the same sets holds the same
values, in whatever order they came (`DocumentIsDetermined`). `ReplicaInv` adds that
identities and timestamps tell operations apart and that edits are later than what
their device has captured. `CurrentInv` says for one device that nothing it knows is
newer than its clock: that is all that a captured edit needs to win, so
`ForemostKeepsEdits` needs no assumption about the clocks of the others among
themselves.

**Saving and opening.** The saves without an answer are steps between what the
renderer believes to be stored (`lastPersisted`) and what it shows (`data`). An edit that
takes nothing back keeps the steps in order (`StepsInOrder`): along them a note gets
newer, comes and goes once. A change set computed from the first step then leads from
every step in between to its snapshot (`SavesLead`), so a save whose predecessors
failed stores the same as one whose predecessors succeeded, and what is stored is the
snapshot of the newest save that succeeded (`StoredIsStep`). `NoRegression` is the
order of the steps; `OpeningInv` also needs `StatusInOrder` (what is shown is stored, on
its way, about to be sent, or the user knows) and, without a page, `OffInv`,
`RecoveryInv` and `DiskInv`, which say where the user's work is.

**Study sessions.** `StudyOrder` is a conjunction of what the properties need of each
other. The log is in the order of time and undoes only what it holds (`LogInv`); nothing
is buried longer than until the next day (`BurialTimes`); each review that can be
undone knows the history before it, and only what can be undone has come after it
(`HistoryInv`), so taking the newest one back restores what `Told` says without it;
`Answers` links the stack of the page to the newest reviews that can be undone, in
their order (`PageInv`), which makes the undo of the log and the step back of the page
the same. The cards of a note stay apart because the siblings of what was studied today
are buried, also after an undo (`BurialInv`), and the page never sits on one
(`SeatInv`). The limit of new cards holds because what a session may still introduce
and what was introduced outside of it fit into the limit together (`Room`); a session is
cut from a plan that has room (`PlanLeavesRoom`), which rests on what sorting,
limiting, taking turns and avoiding adjacent siblings do to a sequence of cards
(`SortedHolds`, `WithinHolds`, `AvoidAdjacentHolds`, `BuildQueueHolds`), each by an
induction of its own. `StudyOrderInvariance` needs no hypothesis: the parts that need an
environment name it.

**Only model-checked.** The liveness properties `Convergence`, `OutcomeReported`,
`PlanningSettles` and `StartupEnds`: liveness and ENABLED are out of the prover's
reach. The properties of `ContentGraph`: there the invariant is about what
`Project`, `Refresh`, `Patched` and `Normalize` return for every document, each of which
needs its own theory of documents first, and the model numbers new cards and the
fields made of a text format by arithmetic that keeps them apart only within small
bounds (`NewCard`, `SideField`); a theorem needs fresh identifiers instead (section 7).

## 7. Plan

1. Proofs: the graph of `ContentGraph`, with fresh identifiers; `Orderly` without turns for devices whose
   snapshots are never refused; `StudyAsPlanned` with `Overnight` for a page that
   looks at the card it starts with.
2. Adoption of patches in `SavePipeline`: what was edited while a core patch was
   awaited is marked as stored (`src/state/AppContext.tsx:802`); imports that
   replace a profile.
3. `SnapshotStaging`: chunked uploads of snapshots and media, retention, quotas,
   maintenance; staged chunks are removed only by a successful commit
   (`packages/sync-service/src/index.ts:421`).
4. Failures of a store transaction (`electron/workspace-store.ts:784`), restore
   against other handlers (`:1342`), extension media (`:1204`), and the resume at
   startup composed with `WorkspaceStore` (`electron/main.ts:790`).
5. The second of two queued synchronizations, which carries the workspace read
   before the first one committed (`electron/sync-manager.ts:178`); recovery that
   enrolls a device before it finds a snapshot (`:168`); browser tabs; a
   snapshot download or upload that meets a compaction
   (`packages/sync-client/src/index.ts:348`, `:363`).

## 8. Not modelled

Cryptography (an operation is its own ciphertext), HTTP routing and limits, rate
limiting, FSRS arithmetic, text rendering, verification of packages and
catalogues, layout and navigation, diagnostics and scripts: pure computation over
large data, or presentation. Media are synchronized by the code and left out of
`WorkspaceSync`. Capabilities, secrets, frames and network access of extensions
are left out: every use of a capability asks the registry again. Of the store,
imports that replace a profile, import checkpoints, failing transactions and the
trimming of old backups are left out; of the planner, its recovery strategies and
statistics. Coalescing within one turn of the event loop is not modelled: a turn makes
one save. The service clock is assumed not to step back.
