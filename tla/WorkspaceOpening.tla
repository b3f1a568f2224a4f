-------------------------- MODULE WorkspaceOpening --------------------------
(***************************************************************************)
(* How a desktop comes to show a workspace, and what it keeps of the ones  *)
(* it cannot show: the opening of the database, the deferred migration of  *)
(* the JSON file of earlier releases by a worker, the recovery screen,     *)
(* backups, reset (electron/workspace-store.ts, electron/main.ts,          *)
(* electron/legacy-migration-worker.ts, src/lib/storage.ts), and on the    *)
(* page it opens the saves of SavePipeline.                                *)
(*                                                                         *)
(* Nothing ever removes the legacy file.  All backups are of one day, and  *)
(* fewer than are kept.                                                    *)
(***************************************************************************)
EXTENDS SavePipeline

CONSTANTS
    MaxHarms,      \* bound: damages to the database
    MaxRecoveries, \* bound: backups restored and workspaces erased
    MaxChanges     \* bound: edits, damages and recoveries together

ASSUME OpeningAssumption ==
    /\ {MaxHarms, MaxRecoveries, MaxChanges} \subseteq Nat /\ First # {}
    /\ None \notin {"sound", "unreadable", "unchecked"} \cup [error : {"database", "legacy"}, source : Workspace]

VARIABLES
    screen,     \* "off", or what the application shows: "usable" or "recovery"
    database,   \* "sound", "damaged" (it is not opened), "unreadable" (it is not loaded)
    schema,     \* of the database: "first" or "current"
    legacy,     \* the legacy file: None, "sound", "unreadable", or "unchecked" if only validation rejects it
    recovery,   \* the store's recoveryError and recoverySourcePath, or None
    deferred,   \* is what the store shows the legacy workspace?
    migration,  \* "idle", "running", "committed", "accepted" or "failed"
    backups,    \* the workspaces in backups
    aside,      \* the workspaces in copies of damaged and of earlier files
    truth,      \* the user's work: what a store that is never harmed would hold
    replaced,   \* what the user let a backup or an empty workspace replace
    harms, recoveries

mainVars == <<recovery, deferred, migration>>
diskVars == <<database, schema, legacy, backups, aside>>
pageVars == <<data, lastPersisted, inflight, effect, skip, attempt, passive, status>>
faultVars == <<edits, failures, harms, recoveries>>
vars == <<pipelineVars, mainVars, diskVars, screen, truth, replaced, harms, recoveries>>

\* The legacy file was made before the database.
Legacy == Filled

\* load: the cached projection; the legacy file is read once.
Projection == IF deferred THEN Legacy ELSE stored

\* adoptDesktopLoad: no workspace is an empty one, to be saved.
ShowsLoaded(loaded) == PageOpens(IF loaded = Absent THEN Empty ELSE loaded, loaded)

Init ==
    /\ database = "sound"
    /\ legacy \in {None, "sound", "unreadable", "unchecked"}
    /\ \/ stored \in {Absent, Filled} /\ schema = "current"
       \/ stored = Filled /\ schema = "first"
    /\ backups = {} /\ aside = {}
    /\ truth = IF stored = Absent /\ legacy # None THEN Legacy ELSE stored
    /\ replaced = {}
    /\ edits = 0 /\ failures = 0 /\ harms = 0 /\ recoveries = 0
    /\ screen = "off" /\ recovery = None /\ deferred = FALSE /\ migration = "idle"
    /\ NoPage

-----------------------------------------------------------------------------
(* Opening. *)

WithinBounds == edits + harms + recoveries < MaxChanges

\* While the application is not running, or by its last writes.
Harm ==
    /\ screen = "off" /\ database = "sound" /\ stored # Absent
    /\ WithinBounds /\ harms < MaxHarms /\ harms' = harms + 1
    /\ database' \in IF schema = "first" THEN {"damaged"} ELSE {"damaged", "unreadable"}
    /\ UNCHANGED <<pipelineVars, mainVars, screen, schema, legacy, backups, aside, truth, replaced, recoveries>>

\* Defect: the damaged file is deleted.
NothingAside(w) == aside' = aside

SetAside(w) == aside' = aside \cup {w}

\* Reads come to nothing: saving is blocked until the user restores or erases.
ShowsRecovery(error) ==
    /\ screen' = "recovery" /\ recovery' = error
    /\ UNCHANGED <<pageVars, deferred, migration>>

ShowsWorkspace(loaded) ==
    /\ screen' = "usable" /\ ShowsLoaded(loaded)
    /\ UNCHANGED inflight

\* openRecoverableDatabase: the damaged file is renamed and an empty database
\* takes its place; a backup could be older, and is not taken unasked.
OpenDamaged ==
    /\ screen = "off" /\ database = "damaged"
    /\ SetAside(stored)
    /\ stored' = Absent /\ database' = "sound" /\ schema' = "current"
    /\ ShowsRecovery([error |-> "database", source |-> stored])
    /\ UNCHANGED <<legacy, backups, truth, replaced, faultVars>>

\* The database is opened, and its document or its rows do not load.
OpenUnreadable ==
    /\ screen = "off" /\ database = "unreadable"
    /\ ShowsRecovery(None)
    /\ UNCHANGED <<stored, diskVars, truth, replaced, faultVars>>

\* initializeSchema, which may be cut short before it writes the version.
Upgrade ==
    /\ screen = "off" /\ database = "sound" /\ schema = "first"
    /\ SetAside(stored)
    /\ schema' \in {"first", "current"}
    /\ UNCHANGED <<pipelineVars, mainVars, screen, database, legacy, backups, truth, replaced, harms, recoveries>>

Opens == screen = "off" /\ database = "sound" /\ schema = "current"

OpenStored ==
    /\ Opens /\ (stored # Absent \/ legacy = None)
    /\ ShowsWorkspace(stored)
    /\ UNCHANGED <<stored, diskVars, deferred, recovery, migration, truth, replaced, faultVars>>

\* readDeferredLegacyData copies the file before it reads it.
OpenLegacy ==
    /\ Opens /\ stored = Absent /\ legacy # None
    /\ SetAside(Legacy)
    /\ IF legacy = "unreadable" THEN ShowsRecovery([error |-> "legacy", source |-> Legacy])
       ELSE deferred' = TRUE /\ ShowsWorkspace(Legacy) /\ UNCHANGED <<recovery, migration>>
    /\ UNCHANGED <<stored, database, schema, legacy, backups, truth, replaced, faultVars>>

-----------------------------------------------------------------------------
(* The migration of a legacy workspace, in a worker with a store of its own. *)

\* When the page has been usable for a moment, or a save needs it; once a run.
QueueMigration ==
    /\ deferred /\ migration = "idle"
    /\ migration' = "running"
    /\ UNCHANGED <<pipelineVars, diskVars, recovery, deferred, screen, truth, replaced, harms, recoveries>>

\* finishDeferredLegacyMigration: a workspace that is stored stays.
Materialized == IF stored = Absent THEN Legacy ELSE stored

MigrationCommits ==
    /\ migration = "running" /\ legacy = "sound"
    /\ stored' = Materialized
    /\ migration' = "committed"
    /\ UNCHANGED <<pageVars, diskVars, recovery, deferred, screen, truth, replaced, faultVars>>

MigrationAccepted ==
    /\ migration = "committed"
    /\ migration' = "accepted" /\ deferred' = FALSE
    /\ UNCHANGED <<pipelineVars, diskVars, recovery, screen, truth, replaced, harms, recoveries>>

\* Validation rejects the file, or the worker fails.
MigrationFails ==
    /\ migration = "running"
    /\ IF legacy = "unchecked" THEN UNCHANGED failures
       ELSE failures < MaxFailures /\ failures' = failures + 1
    /\ migration' = "failed"
    /\ UNCHANGED <<stored, pageVars, diskVars, recovery, deferred, screen, truth, replaced, edits, harms, recoveries>>

-----------------------------------------------------------------------------
(* Saving. *)

\* Saving is not blocked.
Edit ==
    /\ screen = "usable" /\ Edits
    /\ edits' # edits => WithinBounds
    /\ UNCHANGED <<mainVars, diskVars, screen, truth, replaced, harms, recoveries>>

\* Defect: saves do not wait for the migration.
WaitsForNothing == migration # "failed"

\* A save waits for the migration, and is rejected with it.
Migrated == ~deferred /\ migration # "failed"

\* Then comes the first backup of the day, whose failure nobody is told.
Commit(k) ==
    /\ Migrated /\ CommitSave(k)
    /\ truth' = AfterChanges(truth, inflight[k].change)
    /\ backups' \in IF backups = {} THEN {{}, {stored'}} ELSE {backups}
    /\ UNCHANGED <<mainVars, database, schema, legacy, aside, screen, replaced, harms, recoveries>>

Fail(k) ==
    /\ Migrated /\ FailSave(k)
    /\ UNCHANGED <<mainVars, diskVars, screen, truth, replaced, harms, recoveries>>

\* The migration is not tried again: until a restart it rejects every save.
Reject(k) ==
    /\ migration = "failed" /\ FirstInQueue(k)
    /\ inflight' = [inflight EXCEPT ![k].result = "failed"]
    /\ UNCHANGED <<stored, data, lastPersisted, effect, skip, attempt, passive, status, faultVars,
                   mainVars, diskVars, screen, truth, replaced>>

Answered ==
    /\ Answer
    /\ UNCHANGED <<mainVars, diskVars, screen, truth, replaced, harms, recoveries>>

-----------------------------------------------------------------------------
(* Recovery. *)

\* No save is in flight, and no edit is left whose effect has not run.
Flushed == inflight = <<>> /\ ~effect

\* Both wait for the saves.
Recovers ==
    /\ screen # "off" /\ Flushed
    /\ migration \notin {"running", "committed"}
    /\ WithinBounds /\ recoveries < MaxRecoveries /\ recoveries' = recoveries + 1
    /\ replaced' = replaced \cup {truth}
    /\ recovery' = None /\ database' = "sound"

\* Defect: nothing is backed up before a workspace is erased.
NoBackup == UNCHANGED <<backups, aside>>

\* createAutomaticBackup: a backup of what is not readable cannot be restored.
Backup ==
    IF stored = Absent THEN UNCHANGED <<backups, aside>>
    ELSE IF database = "unreadable" THEN SetAside(stored) /\ UNCHANGED backups
    ELSE backups' = backups \cup {stored} /\ UNCHANGED aside

\* adoptDesktopLoad: only a file that was set aside, or an old one, can be
\* exported; a load that throws names none, and the button is disabled.
CanExportOriginal == recovery # None

\* Restored over a legacy workspace that is not migrated, a backup is not seen
\* until a restart; that case is left out.
RestoreBackup(w) ==
    /\ w \in backups /\ ~deferred
    /\ Recovers /\ Backup
    /\ stored' = w /\ truth' = w
    /\ ShowsWorkspace(w)
    /\ UNCHANGED <<deferred, schema, legacy, migration, edits, failures, harms>>

\* The store's clear.
Erase == stored' = Absent /\ truth' = Absent /\ deferred' = FALSE

\* clearStoredData; a migration that has failed stays so.
Clear ==
    /\ Recovers /\ Backup /\ Erase
    /\ ShowsWorkspace(Absent)
    /\ UNCHANGED <<schema, legacy, migration, edits, failures, harms>>

StartEmpty == screen = "recovery" /\ Clear

\* The page saves its empty workspace, and reloads.
ResetData == screen = "usable" /\ Clear

\* The window reloads: the main process, done with the oldest saves, goes on
\* with its queue, and nobody waits for the answers.
Reload ==
    /\ screen = "usable"
    /\ (\E k \in DOMAIN inflight : inflight[k].result = "sent") => "reload" \in Overlap
    /\ inflight # <<>> \/ effect \/ status # "saved"
    /\ \E done \in 0 .. Len(inflight) :
          /\ \A k \in DOMAIN inflight : inflight[k].result = "sent" <=> k > done
          /\ inflight' = [k \in 1 .. Len(inflight) - done |-> [inflight[done + k] EXCEPT !.kind = "abandoned"]]
    /\ ShowsLoaded(Projection)
    /\ UNCHANGED <<stored, mainVars, diskVars, screen, truth, replaced, faultVars>>

\* Only the running application knows that the database was damaged, and only
\* its database that the legacy workspace was erased.
Forgets ==
    \/ screen = "recovery" /\ stored = Absent /\ recovery.error = "database" /\ "recovery" \notin Overlap
    \/ truth = Absent /\ stored = Absent /\ legacy \in {"sound", "unchecked"} /\ "reset" \notin Overlap

\* The application ends, with its queue.
Crash ==
    /\ screen # "off" /\ ~Forgets
    /\ screen' = "off" /\ recovery' = None /\ deferred' = FALSE /\ migration' = "idle"
    /\ inflight' = <<>> /\ PageOpens(Absent, Absent)
    /\ UNCHANGED <<stored, diskVars, truth, replaced, faultVars>>

Next ==
    \/ Harm \/ OpenDamaged \/ OpenUnreadable \/ Upgrade \/ OpenStored \/ OpenLegacy
    \/ QueueMigration \/ MigrationCommits \/ MigrationAccepted \/ MigrationFails
    \/ Edit \/ Answered
    \/ \E k \in DOMAIN inflight : Commit(k) \/ Fail(k) \/ Reject(k)
    \/ \E w \in backups : RestoreBackup(w)
    \/ StartEmpty \/ ResetData \/ Reload \/ Crash

Spec == Init /\ [][Next]_vars

\* Effects run, the main process and its worker do their work, answers arrive;
\* nothing is asked of users.
Fairness ==
    /\ WF_vars(PassiveEffect /\ Edit)
    /\ WF_vars(QueueMigration) /\ WF_vars(MigrationCommits \/ MigrationAccepted \/ MigrationFails)
    /\ WF_vars(\E k \in DOMAIN inflight : Commit(k) \/ Fail(k) \/ Reject(k))
    /\ WF_vars(Answered)

FairSpec == Spec /\ Fairness

-----------------------------------------------------------------------------
(* Properties. *)

OpeningTypeOK ==
    /\ screen \in {"off", "usable", "recovery"}
    /\ database \in {"sound", "damaged", "unreadable"} /\ schema \in {"first", "current"}
    /\ recovery \in [error : {"database", "legacy"}, source : Workspace] \cup {None} /\ deferred \in BOOLEAN
    /\ migration \in {"idle", "running", "committed", "accepted", "failed"}
    /\ backups \cup aside \cup replaced \cup {truth} \subseteq Workspace

\* With no save in flight the renderer is right about what is stored, or will be
\* before the next save, whatever failed before (storage.ts: the next change
\* set is computed from it).
PersistedIsStored == screen = "usable" /\ inflight = <<>> => lastPersisted = Projection

\* A user who is neither recovering nor told of a failure, and waits for
\* nothing, sees the work as it was last saved, whatever was opened, migrated,
\* restored or erased (AppContext.tsx: persistenceState; workspace-store.ts:
\* acknowledged writes can never overtake the migration).
SavedIsSeen == screen = "usable" /\ inflight = <<>> /\ ~effect /\ status # "failed" => data = truth

\* Work that was acknowledged is in some file, and so is what the user let a
\* backup or an empty workspace replace (workspace-store.ts: a damaged
\* workspace is never replaced silently).
NothingLost ==
    ({truth} \cup replaced) \ {Absent}
        \subseteq {stored} \cup backups \cup aside \cup (IF legacy = None THEN {} ELSE {Legacy})

\* While a user has to recover, the work as it was last saved is what the
\* recovery screen exports, or is still in the database that did not load, which
\* it does not export (WorkspaceRecovery.tsx: the original source has not been
\* overwritten).
OriginalIsKept == screen = "recovery" =>
    \/ truth = Absent
    \/ CanExportOriginal /\ truth = recovery.source
    \/ database = "unreadable" /\ truth = stored

\* What is shown is what was saved, and what was saved is kept.
OpeningInv ==
    /\ PipelineTypeOK /\ OpeningTypeOK
    /\ PersistedIsStored /\ SavedIsSeen /\ NothingLost /\ OriginalIsKept

\* A save never replaces a note by an older version of it (AppContext.tsx: a
\* stale render never enqueues a regressive snapshot; main.ts: the queue).
NoRegression ==
    [][Len(inflight') = Len(inflight) /\ inflight' # inflight =>
          \A i \in Items :
              LET latest(w) == {w.items[i], w.trash[i]} \ {0}
              IN  latest(stored) # {} /\ latest(stored)' # {} =>
                      \A before \in latest(stored), after \in latest(stored)' : after >= before]_vars

\* A user who is told "saving" is told the outcome, or starts again.
OutcomeReported == status = "saving" ~> status # "saving"
=============================================================================
