------------------------- MODULE ExtensionActivation -------------------------
(***************************************************************************)
(* The life of one installed extension: the registry file and the package  *)
(* directories of ExtensionManager, step by step between file operations,  *)
(* the renderer that starts the extension, confirms an activation that     *)
(* works and rolls back one that fails, the user who installs, disables    *)
(* and removes it, failing file operations, and a main process that stops  *)
(* anywhere. Capability handles are left out: every use of one asks the    *)
(* registry again.                                                         *)
(***************************************************************************)
EXTENDS Naturals, FiniteSets

CONSTANTS
    Versions,       \* packages of the extension, each with a digest of its own
    WithUi,         \* the versions that have interface frames
    None,           \* no entry, no version
    NoFile,         \* a registry file that does not exist
    Handlers,       \* operations of the manager that can be in progress at once
    Reinstalls,     \* whether a confirmed version is installed once more
    MaxChanges,     \* bound on what the user does
    MaxFaults       \* bound on failing operations and crashes

ASSUME VersionsAssumption == WithUi \subseteq Versions /\ None \notin Versions
ASSUME NoFileAssumption == NoFile # None
ASSUME HandlersAssumption == Handlers # {}
ASSUME ReinstallsAssumption == Reinstalls \in BOOLEAN
ASSUME BoundsAssumption == MaxChanges \in Nat /\ MaxFaults \in Nat

VARIABLES
    stateFile, recoveryFile,    \* state.json and state.recovery.json
    packages,                   \* versions whose package directory is in place
    op,                         \* what each handler is doing
    staged,                     \* packages the user has been shown for review
    renderer,                   \* how far the window has come, and what it runs
    changes, faults

disk == <<stateFile, recoveryFile, packages>>
bounds == <<changes, faults>>
vars == <<disk, op, staged, renderer, bounds>>

\* An entry of the registry; `previous` is what a rollback returns to.
Entry == [version : Versions, enabled : BOOLEAN, pending : BOOLEAN, previous : Versions \cup {None}]

ASSUME NoEntryAssumption == None \notin Entry /\ NoFile \notin Entry

\* Defect: a recovery file is preferred to the registry.
LoadedRecovery ==
    IF recoveryFile # NoFile THEN recoveryFile
    ELSE IF stateFile # NoFile THEN stateFile
    ELSE None

\* loadState, of this extension.
Loaded ==
    IF stateFile # NoFile THEN stateFile
    ELSE IF recoveryFile # NoFile THEN recoveryFile
    ELSE None

Idle == [kind |-> "idle"]
Free(h) == op[h] = Idle

\* A handler has loaded the registry and will store `next` in it.
Started(h, kind, by, step, next, version) ==
    op' = [op EXCEPT ![h] =
        [kind |-> kind, by |-> by, step |-> step, base |-> Loaded, next |-> next,
         version |-> version, hadCurrent |-> FALSE, displaced |-> FALSE]]

At(h, step) == ~Free(h) /\ op[h].step = step

(***************************************************************************)
(* The window. It waits for the operation it asked for ("activation") while *)
(* it starts; frames and the user ask while it runs. What a window that is  *)
(* gone has asked for ends without an answer ("nobody").                    *)
(***************************************************************************)

\* Defect: the window is reloaded whatever rollbackActivation has returned.
AnsweredReloading(asked, by, kind, outcome) ==
    IF by = "startup" /\ kind = "confirm"
    THEN [asked EXCEPT !.phase = IF outcome = "failed" THEN "failed" ELSE "running"]
    ELSE [asked EXCEPT !.phase = IF by = "nobody" \/ kind = "confirm" THEN @ ELSE "reload"]

\* What the window does with the end of an operation: a confirmation that fails
\* is an activation that failed; a rollback or a change of the user that took
\* place is followed by a reload.
Answered(asked, by, kind, outcome) ==
    CASE by = "startup" /\ kind = "confirm" /\ outcome = "failed" -> [asked EXCEPT !.phase = "failed"]
      [] by = "startup" /\ kind = "confirm" -> [asked EXCEPT !.phase = "running"]
      [] by = "startup" /\ kind = "rollback" ->
            [phase |-> IF outcome = "done" THEN "reload" ELSE "running", runs |-> None]
      [] by \in {"frame", "user"} /\ kind # "confirm" /\ outcome = "done" -> [asked EXCEPT !.phase = "reload"]
      [] OTHER -> asked

Ends(h, outcome) ==
    /\ op' = [op EXCEPT ![h] = Idle]
    /\ renderer' = Answered(renderer, op[h].by, op[h].kind, outcome)

(***************************************************************************)
(* The operations of ExtensionManager, up to the first file they change     *)
(***************************************************************************)

\* The interface is there while the extension is being started.
Usable == renderer.phase \in {"worker", "running"}

\* The user chooses a package, or the marketplace client has fetched one.
Stage(v) ==
    /\ Usable /\ v \notin staged
    /\ staged' = staged \cup {v}
    /\ UNCHANGED <<disk, op, renderer, bounds>>

\* The review is cancelled, or its token expires or is displaced by newer ones.
Discard(v) ==
    /\ v \in staged
    /\ staged' = staged \ {v}
    /\ UNCHANGED <<disk, op, renderer, bounds>>

SameDigest(v) == Loaded # None /\ Loaded.version = v /\ v \in packages

\* Defect: the version being replaced is kept although it was never confirmed.
KeptReplaced(entry) == IF entry = None THEN None ELSE entry.version

\* What the entry of a new version returns to: the version that one returns to
\* which it replaces, if it is still pending.
Kept(entry) ==
    IF entry = None THEN None
    ELSE IF entry.previous # None THEN entry.previous
    ELSE entry.version

BeginInstall(h, v) ==
    /\ Free(h) /\ Usable /\ changes < MaxChanges
    /\ v \in staged
    /\ ~Reinstalls => ~(SameDigest(v) /\ ~Loaded.pending)
    /\ IF SameDigest(v)
       THEN Started(h, "install", "user", "save", [Loaded EXCEPT !.enabled = TRUE, !.pending = TRUE], v)
       ELSE Started(h, "install", "user", "displace",
                    [version |-> v, enabled |-> TRUE, pending |-> TRUE, previous |-> Kept(Loaded)], v)
    /\ staged' = staged \ {v}
    /\ changes' = changes + 1
    /\ UNCHANGED <<disk, renderer, faults>>

BeginSetEnabled(h, enabled) ==
    /\ Free(h) /\ Usable /\ changes < MaxChanges
    /\ Loaded # None
    /\ Started(h, "setEnabled", "user", "save", [Loaded EXCEPT !.enabled = enabled], Loaded.version)
    /\ changes' = changes + 1
    /\ UNCHANGED <<disk, staged, renderer, faults>>

BeginUninstall(h) ==
    /\ Free(h) /\ Usable /\ changes < MaxChanges
    /\ Loaded # None
    /\ Started(h, "uninstall", "user", "save", None, Loaded.version)
    /\ changes' = changes + 1
    /\ UNCHANGED <<disk, staged, renderer, faults>>

\* Defect: the way back is not deleted.
ConfirmedKeeping(entry) == [entry EXCEPT !.pending = FALSE]

Confirmed(entry) == [entry EXCEPT !.pending = FALSE, !.previous = None]

RolledBack(entry) ==
    IF entry.previous = None THEN None
    ELSE [version |-> entry.previous, enabled |-> TRUE, pending |-> FALSE, previous |-> None]

\* confirmActivation and rollbackActivation, asked for by the window as it
\* starts or by a frame. They do nothing unless an activation is pending.
BeginSettling(h, kind, by, asked) ==
    LET next == IF kind = "confirm" THEN Confirmed(Loaded) ELSE RolledBack(Loaded)
    IN  /\ Free(h)
        /\ IF Loaded # None /\ Loaded.pending
           THEN /\ Started(h, kind, by, "save", next, Loaded.version)
                /\ renderer' = asked
           ELSE /\ renderer' = Answered(asked, by, kind, "nothing")
                /\ UNCHANGED op
        /\ UNCHANGED <<disk, staged, bounds>>

(***************************************************************************)
(* The steps of an operation                                               *)
(***************************************************************************)

Continues(h, step) == op' = [op EXCEPT ![h].step = step]

\* The package is unpacked next to the others; one that is in its place already
\* is moved aside.
Displace(h) ==
    /\ At(h, "displace")
    /\ op' = [op EXCEPT ![h] = [@ EXCEPT !.step = "place", !.displaced = op[h].version \in packages]]
    /\ packages' = packages \ {op[h].version}
    /\ UNCHANGED <<stateFile, recoveryFile, staged, renderer, bounds>>

Place(h) ==
    /\ At(h, "place")
    /\ packages' = packages \cup {op[h].version}
    /\ Continues(h, "save")
    /\ UNCHANGED <<stateFile, recoveryFile, staged, renderer, bounds>>

\* saveState: the temporary file is written and an old recovery file removed,
\* the registry becomes the recovery file, the temporary file the registry, and
\* the recovery file is removed.
WriteTemporary(h) ==
    /\ At(h, "save")
    /\ LET hadCurrent == stateFile # NoFile
       IN  /\ op' = [op EXCEPT ![h] = [@ EXCEPT !.hadCurrent = hadCurrent,
                                                !.step = IF hadCurrent THEN "rotate" ELSE "replace"]]
           /\ recoveryFile' = IF hadCurrent THEN NoFile ELSE recoveryFile
    /\ UNCHANGED <<stateFile, packages, staged, renderer, bounds>>

Rotate(h) ==
    /\ At(h, "rotate") /\ stateFile # NoFile
    /\ recoveryFile' = stateFile
    /\ stateFile' = NoFile
    /\ Continues(h, "replace")
    /\ UNCHANGED <<packages, staged, renderer, bounds>>

Replace(h) ==
    /\ At(h, "replace")
    /\ stateFile' = op[h].next
    /\ Continues(h, "forget")
    /\ UNCHANGED <<recoveryFile, packages, staged, renderer, bounds>>

Forget(h) ==
    /\ At(h, "forget")
    /\ recoveryFile' = NoFile
    /\ Continues(h, "clean")
    /\ UNCHANGED <<stateFile, packages, staged, renderer, bounds>>

\* Defect: a directory is removed although the stored entry names it, too.
UnneededAlways(o) ==
    CASE o.kind = "confirm" -> {o.base.previous}
      [] o.kind = "rollback" -> {o.base.version}
      [] o.kind = "uninstall" -> Versions
      [] OTHER -> {}

\* The directories the end of an operation removes: what was kept for a rollback,
\* what was rolled back, or all.
Unneeded(o) ==
    CASE o.kind = "confirm" -> {o.base.previous} \ {o.base.version}
      [] o.kind = "rollback" -> {o.base.version} \ {o.base.previous}
      [] o.kind = "uninstall" -> Versions
      [] OTHER -> {}

Clean(h) ==
    /\ At(h, "clean")
    /\ packages' = packages \ Unneeded(op[h])
    /\ Ends(h, "done")
    /\ UNCHANGED <<stateFile, recoveryFile, staged, bounds>>

\* A file operation throws. A registry that was moved out of the way is put
\* back, and so is a package.
Fails(h) ==
    /\ ~Free(h) /\ faults < MaxFaults
    /\ LET back == At(h, "replace") /\ op[h].hadCurrent /\ recoveryFile # NoFile /\ stateFile = NoFile
       IN  /\ stateFile' = IF back THEN recoveryFile ELSE stateFile
           /\ recoveryFile' = IF back THEN NoFile ELSE recoveryFile
    /\ packages' = IF op[h].displaced THEN packages \cup {op[h].version} ELSE packages
    /\ Ends(h, "failed")
    /\ faults' = faults + 1
    /\ UNCHANGED <<staged, changes>>

(***************************************************************************)
(* The window                                                              *)
(***************************************************************************)

\* The window lists what is installed and goes on with what is enabled.
ListExtensions ==
    /\ renderer.phase = "list"
    /\ renderer' = IF Loaded # None /\ Loaded.enabled
                   THEN [phase |-> "worker", runs |-> Loaded.version]
                   ELSE [phase |-> "running", runs |-> None]
    /\ UNCHANGED <<disk, op, staged, bounds>>

\* The worker's entry is read only from the package that is installed now.
Readable(v) == Loaded # None /\ Loaded.enabled /\ Loaded.version = v /\ v \in packages

\* The worker has reported that it is ready. Without frames that is all there is
\* to wait for; otherwise the frames have to be seen working, whenever the user
\* opens them.
WorkerReady(h) ==
    /\ renderer.phase = "worker" /\ Readable(renderer.runs)
    /\ IF renderer.runs \in WithUi
       THEN /\ renderer' = [renderer EXCEPT !.phase = "running"]
            /\ UNCHANGED <<disk, op, staged, bounds>>
       ELSE BeginSettling(h, "confirm", "startup", [renderer EXCEPT !.phase = "activation"])

\* The worker cannot be read, crashes, or is not ready in time; or confirming
\* the activation has failed.
WorkerFails(h) ==
    /\ renderer.phase \in {"worker", "failed"}
    /\ BeginSettling(h, "rollback", "startup", [renderer EXCEPT !.phase = "activation"])

\* All frames of the extension have become ready.
FramesReady(h) ==
    /\ renderer.phase = "running" /\ renderer.runs \in WithUi
    /\ BeginSettling(h, "confirm", "frame", renderer)

\* A frame reports an error or does not become ready in time.
FrameFails(h) ==
    /\ renderer.phase = "running" /\ renderer.runs \in WithUi
    /\ BeginSettling(h, "rollback", "frame", renderer)

Reload ==
    /\ renderer.phase = "reload"
    /\ renderer' = [phase |-> "list", runs |-> None]
    /\ UNCHANGED <<disk, op, staged, bounds>>

\* The pending saves of the workspace cannot be flushed: no reload.
ReloadFails ==
    /\ renderer.phase = "reload" /\ faults < MaxFaults
    /\ renderer' = [renderer EXCEPT !.phase = "running"]
    /\ faults' = faults + 1
    /\ UNCHANGED <<disk, op, staged, changes>>

\* The main process goes on with what a window has asked for that is gone.
Abandoned == op' = [h \in Handlers |-> IF Free(h) THEN Idle ELSE [op[h] EXCEPT !.by = "nobody"]]

\* The startup watchdog opens a window without extensions.
SafeMode ==
    /\ renderer.phase \in {"list", "worker"} /\ changes < MaxChanges
    /\ renderer' = [phase |-> "running", runs |-> None]
    /\ Abandoned
    /\ changes' = changes + 1
    /\ UNCHANGED <<disk, staged, faults>>

CloseWindow ==
    /\ renderer.phase # "closed" /\ changes < MaxChanges
    /\ renderer' = [phase |-> "closed", runs |-> None]
    /\ Abandoned
    /\ changes' = changes + 1
    /\ UNCHANGED <<disk, staged, faults>>

OpenWindow ==
    /\ renderer.phase = "closed"
    /\ renderer' = [phase |-> "list", runs |-> None]
    /\ UNCHANGED <<disk, op, staged, bounds>>

\* A package whose place is being taken by another copy of it.
Displaced == {op[h].version : h \in {i \in Handlers : At(i, "place") /\ op[i].displaced}}

\* The main process stops, but not while a package is out of its place.
Crash ==
    /\ faults < MaxFaults /\ Displaced = {}
    /\ op' = [h \in Handlers |-> Idle]
    /\ staged' = {}
    /\ renderer' = [phase |-> "list", runs |-> None]
    /\ faults' = faults + 1
    /\ UNCHANGED <<disk, changes>>

Init ==
    /\ stateFile = NoFile /\ recoveryFile = NoFile /\ packages = {}
    /\ op = [h \in Handlers |-> Idle]
    /\ staged = {}
    /\ renderer = [phase |-> "list", runs |-> None]
    /\ changes = 0 /\ faults = 0

Step(h) ==
    Displace(h) \/ Place(h) \/ WriteTemporary(h) \/ Rotate(h) \/ Replace(h) \/ Forget(h) \/ Clean(h)

Startup == ListExtensions \/ Reload \/ \E h \in Handlers : WorkerReady(h) \/ WorkerFails(h)

Next ==
    \/ Startup \/ ReloadFails \/ SafeMode \/ CloseWindow \/ OpenWindow \/ Crash
    \/ \E v \in Versions : Stage(v) \/ Discard(v)
    \/ \E h \in Handlers :
          \/ Step(h) \/ Fails(h) \/ FramesReady(h) \/ FrameFails(h)
          \/ \E v \in Versions : BeginInstall(h, v)
          \/ \E enabled \in BOOLEAN : BeginSetEnabled(h, enabled)
          \/ BeginUninstall(h)

Spec == Init /\ [][Next]_vars

\* File operations end, and the window does what it has to do next.
Fairness == WF_vars(Startup) /\ \A h \in Handlers : WF_vars(Step(h))

FairSpec == Spec /\ Fairness

(***************************************************************************)
(* Properties                                                              *)
(***************************************************************************)

Phases == {"list", "worker", "activation", "failed", "running", "reload", "closed"}

\* What the files, the handlers and the window hold; an entry has a way back
\* only while its activation is pending.
ActivationTypeOK ==
    /\ \A file \in {stateFile, recoveryFile} \ {NoFile, None} :
          file \in Entry /\ (file.previous # None => file.pending)
    /\ packages \subseteq Versions /\ staged \subseteq Versions
    /\ \A h \in Handlers : ~Free(h) => op[h].base \in Entry \cup {None} /\ op[h].next \in Entry \cup {None}
    /\ renderer.phase \in Phases /\ renderer.runs \in Versions \cup {None}

\* The version known to work: the installed one or, while its activation is
\* pending, the one a rollback returns to.
Proven(entry) ==
    IF entry = None THEN None
    ELSE IF entry.pending THEN entry.previous
    ELSE entry.version

\* The package of the version known to work is on the disk, whichever installs,
\* confirmations and rollbacks have run or were interrupted.
ProvenIsKept == Proven(Loaded) # None => Proven(Loaded) \in packages \cup Displaced

\* Registry, handlers and window are in order, and there is a package to fall back to.
ActivationInv == ActivationTypeOK /\ ProvenIsKept

\* The version known to work changes only when another one is confirmed or the
\* extension is removed: neither an update of an update, a failing operation, nor
\* a registry file left behind by an interrupted save makes the program forget it
\* (docs/core-and-extensions.md: "Update/downgrade activation uses a recoverable
\* state transition").
ProvenIsReplacedByConfirmation ==
    [][ Proven(Loaded) # None /\ Proven(Loaded)' # Proven(Loaded) =>
          \/ Loaded.pending /\ Loaded' = Confirmed(Loaded)
          \/ Loaded' = None /\ \E h \in Handlers : ~Free(h) /\ op[h].kind = "uninstall"
      ]_vars

\* Starting ends: no rollback and reload chase each other, however often the
\* worker fails.
StartupEnds == renderer.phase = "list" ~> renderer.phase \in {"running", "closed"}

=============================================================================
