--------------------------- MODULE WorkspaceSync ---------------------------
(***************************************************************************)
(* The devices of one account synchronizing a workspace through the sync   *)
(* service: the host coordinators (electron/sync-manager.ts and            *)
(* apps/mobile/src/sync.ts; src/lib/browser-sync.ts repeats the desktop    *)
(* one) around the shared client (packages/sync-client/src/index.ts) and   *)
(* the replica ledger (packages/sync-protocol/src/index.ts).               *)
(*                                                                         *)
(* A document is the set of operations whose effect it contains.  An edit  *)
(* becomes one operation when it is captured; the metadata operation that  *)
(* goes with it is part of it.  Between two service calls a device only    *)
(* touches its own state, so one action stands for the code from one await *)
(* on the network or the disk to the next.                                 *)
(*                                                                         *)
(* A device keeps its workspace and its sync configuration on disk: two    *)
(* stores on a desktop, one SQLite database on a mobile.  A session is     *)
(* what a running synchronization holds in memory and loses in a crash.    *)
(***************************************************************************)
EXTENDS SyncService, FiniteSetsExt

CONSTANTS
    Mobile,         \* the devices that run the mobile host, the others desktop
    FirstDevice,    \* the device that creates the account
    PushLimit,      \* operations in one push (2,000)
    PullLimit,      \* operations in one page of pull (10,000)
    MaxSequence,    \* bound: operations one device authors
    Faults,         \* the kinds of fault that may happen
    MaxFaults,      \* bound: how many of them
    Established,    \* do devices join only after the first one has synchronized edits?
    Concurrent,     \* may devices synchronize at the same time?
    EditsDuringSync,\* may the user edit while a synchronization or its commit is pending?
    Reviews,        \* the operations that record a review
    AnkiImports,    \* the operations that import an Anki package
    ClientState,    \* the operations on settings, goals, views, packs and the trash
    Deletions       \* the operations that delete notes or cards (tombstones)

ASSUME HostAssumption == Mobile \subseteq Devices /\ FirstDevice \in Devices
ASSUME LimitAssumption == {PushLimit, PullLimit, MaxSequence} \subseteq Nat \ {0} /\ MaxFaults \in Nat
ASSUME SwitchAssumption ==
    /\ Faults \subseteq {"push", "pull", "upload", "download", "commit",
                         "save", "acknowledge", "crash", "revoke", "disconnect"}
    /\ {Established, Concurrent, EditsDuringSync} \subseteq BOOLEAN
    /\ Reviews \cup AnkiImports \cup ClientState \cup Deletions \subseteq Operation
\* A snapshot is an encrypted document.
ASSUME BodyAssumption == Bodies = SUBSET (Devices \X (1 .. MaxSequence))

VARIABLES
    workspace,  \* per device: the stored document
    config,     \* per device: the stored sync configuration
    session,    \* per device: the synchronization in progress, if any
    reverts,    \* pairs <<o, p>>: applying operation o undoes operation p
    faults      \* faults that have happened

clientVars == <<workspace, config, session, reverts>>
vars == <<serviceVars, clientVars, faults>>

\* PortableSyncClientState: the outbox holds the operations numbered flushed + 1
\* to next - 1; snapshot tells whether snapshotCursor is defined.
NewClient == [next |-> 1, flushed |-> 0, cursor |-> NoCursor, snapshot |-> FALSE]

\* Defect: the newest operation goes first.
OutboxNewestFirst(client) == [i \in 1 .. client.next - 1 - client.flushed |-> client.next - i]

Outbox(client) == [i \in 1 .. client.next - 1 - client.flushed |-> client.flushed + i]

\* edits counts the changes made since the last capture; touched tells whether
\* the store rewrote the revision and time of the document since; account
\* whether its workspace id is the one of the account.
NewWorkspace(d) == [ops |-> {}, edits |-> 0, touched |-> FALSE, account |-> d = FirstDevice]

\* commits is empty or holds the pendingCommit journal entry.
NoConfig == [linked |-> FALSE, baseline |-> {}, client |-> NewClient, commits |-> {}]

Idle == [step |-> "idle", flow |-> "none", client |-> NewClient, first |-> 1, working |-> {},
         sent |-> 0, reached |-> NoCursor, pending |-> {}, received |-> FALSE]

Init ==
    /\ ServiceInit
    /\ workspace = [d \in Devices |-> NewWorkspace(d)]
    /\ config = [d \in Devices |-> NoConfig]
    /\ session = [d \in Devices |-> Idle]
    /\ reverts = {}
    /\ faults = 0

-----------------------------------------------------------------------------
(* Documents and the replica ledger *)

Covered(cursor) == UNION {{a} \X (1 .. cursor[a]) : a \in Devices}

\* The effect of applying operations to a document.
Merge(document, ops) == (document \cup ops) \ {p[2] : p \in {q \in reverts : q[1] \in ops}}

\* OperationLedger.apply refuses an operation numbered below one of the same
\* actor applied before it, and a review the document already holds.  The
\* ledger knows the operations captured in this session (first to next - 1).
LedgerRefuses(d, s) ==
    \E o \in s.pending :
        /\ ~(o[1] = d /\ o[2] >= s.first)
        /\ \/ o[1] = d /\ s.first < s.client.next
           \/ o \in Reviews /\ o \in s.working

-----------------------------------------------------------------------------
(* Steps of a session *)

At(d, step) == session[d].step = step

\* The devices take turns unless they may synchronize concurrently.
Turn(d) == At(d, "idle") /\ (Concurrent \/ \A x \in Devices : At(x, "idle"))

Fault(kind) ==
    /\ kind \in Faults
    /\ faults < MaxFaults
    /\ faults' = faults + 1

\* Defect: a failed session counts its outbox as sent.
AfterFailureForgetting(d) ==
    [config EXCEPT ![d].client = [session[d].client EXCEPT !.flushed = session[d].client.next - 1]]

\* What a failed session leaves of the configuration: the catch blocks of
\* synchronizeOnce, createAccount and recoverAccount.  finishPendingCommit runs
\* outside the try block.  The baseline is the captured one, unless it is the
\* save of a mobile that fails (SaveFails).
AfterFailure(d) ==
    IF session[d].flow = "create" \/ (session[d].flow = "recover" /\ config[d].commits = {})
    THEN [config EXCEPT ![d] = NoConfig]
    ELSE IF session[d].flow \in {"resume", "startup"}
         THEN config
         ELSE [config EXCEPT ![d].client = session[d].client]

Fail(d) ==
    /\ config' = AfterFailure(d)
    /\ session' = [session EXCEPT ![d] = Idle]
    /\ UNCHANGED <<workspace, reverts>>

\* A local edit, kept in the workspace store.
Edit(d) ==
    /\ config[d].linked
    /\ EditsDuringSync \/ (At(d, "idle") /\ config[d].commits = {})
    /\ config[d].client.next + workspace[d].edits <= MaxSequence
    /\ workspace' = [workspace EXCEPT ![d].edits = @ + 1]
    /\ UNCHANGED <<serviceVars, config, session, reverts, faults>>

\* createAccount: enroll, store the configuration with the workspace as the
\* baseline, start the first synchronization.
CreateAccount(d) ==
    /\ d = FirstDevice
    /\ EnrollFirstDevice(d)
    /\ config' = [config EXCEPT ![d] = [NoConfig EXCEPT !.linked = TRUE, !.baseline = workspace[d].ops]]
    /\ session' = [session EXCEPT ![d] =
          [Idle EXCEPT !.step = "push", !.flow = "create", !.working = workspace[d].ops]]
    /\ UNCHANGED <<workspace, reverts, faults>>

\* recoverAccount: the device is enrolled even if the probe then finds no
\* snapshot and the call throws.
RecoverAccount(d) ==
    /\ Turn(d)
    /\ ~config[d].linked
    /\ Established => config[FirstDevice].client.cursor # NoCursor
    /\ RecoverDevice(d)
    /\ IF manifests = <<>>
       THEN UNCHANGED <<config, session>>
       ELSE /\ config' = [config EXCEPT ![d] =
                  [NoConfig EXCEPT !.linked = TRUE, !.baseline = workspace[d].ops]]
            /\ session' = [session EXCEPT ![d] =
                  [Idle EXCEPT !.step = "push", !.flow = "recover", !.working = workspace[d].ops]]
    /\ UNCHANGED <<workspace, reverts, faults>>

\* What capture does with a stored document: the operations it creates, which
\* undo whatever the baseline has and the document has not.
Missing(d) == config[d].baseline \ workspace[d].ops

\* Defect: several changes become one operation.
CapturedOnce(d) ==
    IF workspace[d].edits > 0 \/ workspace[d].touched \/ Missing(d) # {} THEN 1 ELSE 0

Captured(d) ==
    IF workspace[d].edits > 0
    THEN workspace[d].edits
    ELSE IF workspace[d].touched \/ Missing(d) # {} THEN 1 ELSE 0

\* synchronizeOnce up to the first service call, without a pending commit: the
\* changes since the baseline become signed operations in the outbox, stored
\* with the new baseline before anything is sent.
Capture(d) ==
    LET client == config[d].client
        last == client.next + Captured(d) - 1
        document == workspace[d].ops \cup ({d} \X (client.next .. last))
        advanced == [client EXCEPT !.next = last + 1]
    IN  /\ Turn(d)
        /\ config[d].linked /\ config[d].commits = {}
        /\ workspace[d].account
        /\ last <= MaxSequence
        /\ reverts' = reverts \cup ({<<d, last>>} \X Missing(d))
        /\ workspace' = [workspace EXCEPT ![d] = [@ EXCEPT !.ops = document, !.edits = 0, !.touched = FALSE]]
        /\ config' = [config EXCEPT ![d] = [@ EXCEPT !.baseline = document, !.client = advanced]]
        /\ session' = [session EXCEPT ![d] =
              [Idle EXCEPT !.step = "push", !.flow = "sync", !.client = advanced,
                           !.first = client.next, !.working = document]]
        /\ UNCHANGED <<serviceVars, faults>>

\* synchronizeOnce with a pending commit: from Sync now ("resume") or at the
\* start of the application ("startup").
ResumeCommit(d, flow) ==
    /\ Turn(d)
    /\ config[d].linked
    /\ workspace[d].account
    /\ \E commit \in config[d].commits :
          session' = [session EXCEPT ![d] =
              [Idle EXCEPT !.step = "commit", !.flow = flow, !.client = commit.client,
                           !.working = commit.document, !.received = commit.received]]
    /\ UNCHANGED <<serviceVars, workspace, config, reverts, faults>>

-----------------------------------------------------------------------------
(* EncryptedWorkspaceSyncClient.synchronize *)

NextBatch(d) ==
    LET outbox == Outbox(session[d].client)
        upto == session[d].sent + PushLimit
    IN  SubSeq(outbox, session[d].sent + 1, IF upto < Len(outbox) THEN upto ELSE Len(outbox))

\* The next slice of the outbox is sent.
SendBatch(d) ==
    /\ At(d, "push")
    /\ NextBatch(d) # <<>>
    /\ AuthorizePush(d, NextBatch(d))
    /\ session' = [session EXCEPT ![d].step = "pushing"]
    /\ UNCHANGED <<workspace, config, reverts, faults>>

Awaited(d, r) == At(d, "pushing") /\ r = [device |-> d, batch |-> NextBatch(d)]

\* The service answers the push a client waits for.
PushSucceeds(d) ==
    /\ \E r \in requests : Awaited(d, r) /\ Push(r)
    /\ session' = [session EXCEPT ![d] =
          [@ EXCEPT !.step = "push", !.sent = session[d].sent + Len(NextBatch(d))]]
    /\ UNCHANGED <<workspace, config, reverts, faults>>

PushFails(d) ==
    /\ \E r \in requests : Awaited(d, r) /\ RejectPush(r)
    /\ Fail(d)
    /\ UNCHANGED faults

\* The connection fails before the request, after it, or the client gives up
\* waiting: the service may have handled the push, may still do so, or never.
PushInterrupted(d) ==
    /\ Fault("push")
    /\ \/ At(d, "push") /\ NextBatch(d) # <<>> /\ UNCHANGED serviceVars
       \/ At(d, "pushing") /\ UNCHANGED serviceVars
       \/ \E r \in requests : Awaited(d, r) /\ Push(r)
    /\ Fail(d)

\* The service handles a push nobody waits for any more.
LatePush ==
    /\ \E r \in requests : ~Awaited(r.device, r) /\ (Push(r) \/ RejectPush(r))
    /\ UNCHANGED <<clientVars, faults>>

\* Defect: the first answer empties the outbox.
EmptyOutboxEarly(d) ==
    /\ At(d, "push")
    /\ session[d].sent > 0 \/ NextBatch(d) = <<>>
    /\ session' = [session EXCEPT ![d].step = "pull",
                                  ![d].client.flushed = session[d].client.next - 1,
                                  ![d].reached = session[d].client.cursor]
    /\ UNCHANGED <<serviceVars, workspace, config, reverts, faults>>

\* Defect: off by one.
EmptyOutboxOneMore(d) ==
    /\ At(d, "push")
    /\ NextBatch(d) = <<>>
    /\ session' = [session EXCEPT ![d].step = "pull",
                                  ![d].client.flushed = session[d].client.next,
                                  ![d].reached = session[d].client.cursor]
    /\ UNCHANGED <<serviceVars, workspace, config, reverts, faults>>

\* Everything was sent: the outbox is emptied.
EmptyOutbox(d) ==
    LET s == session[d] IN
    /\ At(d, "push")
    /\ NextBatch(d) = <<>>
    /\ session' = [session EXCEPT ![d] =
          [s EXCEPT !.step = "pull",
                    !.client = [@ EXCEPT !.flushed = s.client.flushed + s.sent],
                    !.reached = s.client.cursor]]
    /\ UNCHANGED <<serviceVars, workspace, config, reverts, faults>>

Bootstraps(reached) ==
    /\ manifests # <<>>
    /\ reached = NoCursor \/ ~Dominates(reached, floor)

\* The operations to apply after a page with news; a bootstrap starts over.
Pulled(s, boot, news) == (IF boot THEN {} ELSE s.pending) \cup news

\* One page of pull, with the bootstrap from the latest snapshot of a client
\* that has no cursor yet or is behind the compaction floor.
PullPage(d) ==
    LET s == session[d]
        boot == Bootstraps(s.reached)
        from == IF boot THEN Latest.through ELSE s.reached
    IN  /\ At(d, "pull") /\ Active(d)
        /\ boot \/ Dominates(s.reached, floor)
        /\ \E page \in Pages(s.reached, PullLimit) :
              LET news == {o \in page : o[2] > from[o[1]]}
                  to == PageCursor(s.reached, page)
              IN  session' = [session EXCEPT ![d] =
                    [s EXCEPT !.step = IF Cardinality(page) < PullLimit THEN "apply" ELSE "pull",
                              !.working = IF boot THEN Latest.body ELSE s.working,
                              !.first = IF boot THEN s.client.next ELSE s.first,
                              !.pending = Pulled(s, boot, news),
                              !.received = s.received \/ news # {},
                              !.reached = [a \in Devices |-> Max({from[a], to[a]})]]]
        /\ UNCHANGED <<serviceVars, workspace, config, reverts, faults>>

\* applyBatch stages everything that was pulled, then the cursor advances; a
\* snapshot follows if anything was sent or received or none was ever stored.
ApplyBatch(d) ==
    LET s == session[d] IN
    /\ At(d, "apply")
    /\ ~LedgerRefuses(d, s)
    /\ session' = [session EXCEPT ![d] =
          [s EXCEPT !.working = Merge(s.working, s.pending),
                    !.pending = {},
                    !.client = [@ EXCEPT !.cursor = s.reached],
                    !.step = IF s.sent > 0 \/ s.received \/ ~s.client.snapshot
                             THEN "upload" ELSE "download"]]
    /\ UNCHANGED <<serviceVars, workspace, config, reverts, faults>>

ApplyFails(d) ==
    /\ At(d, "apply")
    /\ LedgerRefuses(d, session[d])
    /\ Fail(d)
    /\ UNCHANGED <<serviceVars, faults>>

\* Defect: the document before the pull goes out under the cursor after it.
UploadBaseline(d) ==
    /\ At(d, "upload")
    /\ CommitSnapshotManifest(d, session[d].client.cursor, config[d].baseline)
    /\ session' = [session EXCEPT ![d] =
          [session[d] EXCEPT !.step = "download", !.client = [@ EXCEPT !.snapshot = TRUE]]]
    /\ UNCHANGED <<workspace, config, reverts, faults>>

\* The document and its cursor are published as a snapshot.
UploadSnapshot(d) ==
    /\ At(d, "upload")
    /\ CommitSnapshotManifest(d, session[d].client.cursor, session[d].working)
    /\ session' = [session EXCEPT ![d] =
          [session[d] EXCEPT !.step = "download", !.client = [@ EXCEPT !.snapshot = TRUE]]]
    /\ UNCHANGED <<workspace, config, reverts, faults>>

\* The service refuses the manifest, by then outdated.
UploadFails(d) ==
    /\ At(d, "upload")
    /\ Active(d) /\ ~Committable(session[d].client.cursor)
    /\ Fail(d)
    /\ UNCHANGED <<serviceVars, faults>>

\* The upload breaks off, the answer may be lost after the manifest was stored.
UploadInterrupted(d) ==
    /\ At(d, "upload")
    /\ Fault("upload")
    /\ \/ UNCHANGED serviceVars
       \/ CommitSnapshotManifest(d, session[d].client.cursor, session[d].working)
    /\ Fail(d)

\* The service no longer knows the token of a revoked device.
Unauthorized(d) ==
    /\ \/ At(d, "push") /\ NextBatch(d) # <<>>
       \/ At(d, "pull")
       \/ At(d, "upload")
    /\ ~Active(d)
    /\ Fail(d)
    /\ UNCHANGED <<serviceVars, faults>>

\* Another call of the session fails: pull, media download, workspace commit.
StepFails(d) ==
    /\ \E kind \in {"pull", "download", "commit"} : At(d, kind) /\ Fault(kind)
    /\ Fail(d)
    /\ UNCHANGED serviceVars

-----------------------------------------------------------------------------
(* Making the result durable *)

\* Desktop: the result is journaled in the configuration file.
JournalCommit(d) ==
    LET s == session[d] IN
    /\ At(d, "download") /\ d \notin Mobile
    /\ config' = [config EXCEPT ![d].commits =
          {[document |-> s.working, client |-> s.client, received |-> s.received]}]
    /\ session' = [session EXCEPT ![d].step = "commit"]
    /\ UNCHANGED <<serviceVars, workspace, reverts, faults>>

\* Defect: a resumed commit is taken for done.
CommitsNotResumed(s) == s.flow = "recover" \/ (s.flow = "sync" /\ s.received)

\* The host's commit callback: createAccount passes none, Sync now skips it when
\* nothing was received.
Commits(s) == s.flow \in {"recover", "startup"} \/ (s.flow \in {"sync", "resume"} /\ s.received)

\* commitWorkspaceV4Import returns early when the document brings an Anki
\* package that the stored workspace already has.
AlreadyImported(d) == AnkiImports \cap session[d].working \cap workspace[d].ops # {}

\* What commitSynchronizedWorkspace stores: the active profile of the document
\* next to the client state of the device, without the tombstones of any note
\* or card of that profile.
Committed(d) ==
    (session[d].working \ (ClientState \cup Deletions)) \cup (workspace[d].ops \cap ClientState)

\* The desktop commits; workspace id and device id stay, revision and update
\* time change.
CommitWorkspace(d) ==
    /\ At(d, "commit")
    /\ workspace' = IF Commits(session[d]) /\ ~AlreadyImported(d)
                    THEN [workspace EXCEPT ![d] =
                             [@ EXCEPT !.ops = Committed(d), !.edits = 0, !.touched = TRUE]]
                    ELSE workspace
    /\ session' = [session EXCEPT ![d].step = "finish"]
    /\ UNCHANGED <<serviceVars, config, reverts, faults>>

\* Defect: the baseline stays behind.
FinishCommitOnly(d) ==
    /\ At(d, "finish")
    /\ config' = [config EXCEPT ![d] = [@ EXCEPT !.client = session[d].client, !.commits = {}]]
    /\ session' = [session EXCEPT ![d].step = "acknowledge"]
    /\ UNCHANGED <<serviceVars, workspace, reverts, faults>>

\* The configuration takes over the journaled result.
FinishCommit(d) ==
    /\ At(d, "finish")
    /\ config' = [config EXCEPT ![d] =
          [@ EXCEPT !.baseline = session[d].working, !.client = session[d].client, !.commits = {}]]
    /\ session' = [session EXCEPT ![d].step = "acknowledge"]
    /\ UNCHANGED <<serviceVars, workspace, reverts, faults>>

\* Defect: the document is stored as it was captured, before the pull.
SaveCapturedWorkspace(d) ==
    LET s == session[d] IN
    /\ At(d, "download") /\ d \in Mobile
    /\ workspace' = [workspace EXCEPT ![d] =
          [ops |-> config[d].baseline, edits |-> 0, touched |-> FALSE, account |-> TRUE]]
    /\ config' = [config EXCEPT ![d] = [@ EXCEPT !.baseline = s.working, !.client = s.client]]
    /\ session' = [session EXCEPT ![d].step = "acknowledge"]
    /\ UNCHANGED <<serviceVars, reverts, faults>>

\* Mobile: document and configuration are written in one transaction.
SaveWorkspaceAndConfig(d) ==
    LET s == session[d] IN
    /\ At(d, "download") /\ d \in Mobile
    /\ workspace' = [workspace EXCEPT ![d] =
          [ops |-> s.working, edits |-> 0, touched |-> FALSE, account |-> TRUE]]
    /\ config' = [config EXCEPT ![d] = [@ EXCEPT !.baseline = s.working, !.client = s.client]]
    /\ session' = [session EXCEPT ![d].step = "acknowledge"]
    /\ UNCHANGED <<serviceVars, reverts, faults>>

\* Mobile: the transaction fails after synchronizeOnce has put the new baseline
\* into the configuration, which its catch block stores: the baseline and the
\* client are those of a document the workspace did not become.
SaveFails(d) ==
    LET s == session[d] IN
    /\ At(d, "download") /\ d \in Mobile
    /\ Fault("save")
    /\ config' = IF s.flow = "sync"
                 THEN [config EXCEPT ![d] = [@ EXCEPT !.baseline = s.working, !.client = s.client]]
                 ELSE AfterFailure(d)
    /\ session' = [session EXCEPT ![d] = Idle]
    /\ UNCHANGED <<serviceVars, workspace, reverts>>

\* acknowledge, after everything is durable.
AcknowledgeSync(d) ==
    /\ At(d, "acknowledge")
    /\ Acknowledge(d, session[d].client.cursor)
    /\ session' = [session EXCEPT ![d] = Idle]
    /\ UNCHANGED <<workspace, config, reverts, faults>>

\* A refused or failed acknowledgement is only noted.
AcknowledgeRefused(d) ==
    /\ At(d, "acknowledge")
    /\ ~Active(d) \/ ~Acknowledgeable(d, session[d].client.cursor)
    /\ session' = [session EXCEPT ![d] = Idle]
    /\ UNCHANGED <<serviceVars, workspace, config, reverts, faults>>

AcknowledgeInterrupted(d) ==
    /\ At(d, "acknowledge")
    /\ Fault("acknowledge")
    /\ session' = [session EXCEPT ![d] = Idle]
    /\ UNCHANGED <<serviceVars, workspace, config, reverts>>

-----------------------------------------------------------------------------
(* Crashes and device management *)

\* The application stops: what the disk holds remains.
Crash(d) ==
    /\ ~At(d, "idle")
    /\ Fault("crash")
    /\ session' = [session EXCEPT ![d] = Idle]
    /\ UNCHANGED <<serviceVars, workspace, config, reverts>>

ServiceStops ==
    /\ ServiceCrash
    /\ Fault("push")
    /\ session' = [d \in Devices |-> IF At(d, "pushing") THEN Idle ELSE session[d]]
    /\ config' = [d \in Devices |-> IF At(d, "pushing") THEN AfterFailure(d)[d] ELSE config[d]]
    /\ UNCHANGED <<workspace, reverts>>

Revoke(owner, d) ==
    /\ config[owner].linked
    /\ Fault("revoke")
    /\ RevokeDevice(owner, d)
    /\ UNCHANGED clientVars

\* disconnect forgets the configuration; the service is not told.
Disconnect(d) ==
    /\ At(d, "idle") /\ config[d].linked
    /\ Fault("disconnect")
    /\ config' = [config EXCEPT ![d] = NoConfig]
    /\ UNCHANGED <<serviceVars, workspace, session, reverts>>

-----------------------------------------------------------------------------
\* The steps of a device that are not faults.
Progress(d) ==
    \/ SendBatch(d) \/ PushSucceeds(d) \/ PushFails(d) \/ EmptyOutbox(d)
    \/ PullPage(d) \/ ApplyBatch(d) \/ ApplyFails(d)
    \/ UploadSnapshot(d) \/ UploadFails(d) \/ Unauthorized(d)
    \/ JournalCommit(d) \/ CommitWorkspace(d) \/ FinishCommit(d)
    \/ SaveWorkspaceAndConfig(d) \/ AcknowledgeSync(d) \/ AcknowledgeRefused(d)

\* The synchronizations a user starts.
Start(d) ==
    \/ CreateAccount(d)
    \/ RecoverAccount(d)
    \/ Capture(d)
    \/ ResumeCommit(d, "resume")
    \/ ResumeCommit(d, "startup")

Disturbance(d) ==
    \/ PushInterrupted(d) \/ UploadInterrupted(d) \/ StepFails(d) \/ SaveFails(d)
    \/ AcknowledgeInterrupted(d) \/ Crash(d) \/ Disconnect(d)
    \/ \E x \in Devices : Revoke(d, x)

Next ==
    \/ \E d \in Devices : Edit(d) \/ Start(d) \/ Progress(d) \/ Disturbance(d)
    \/ LatePush
    \/ ServiceStops

Spec == Init /\ [][Next]_vars

-----------------------------------------------------------------------------
(* Properties *)

\* The records of a device: what its stores and its session may hold.
TypeOK ==
    LET Ops == Devices \X (1 .. MaxSequence)
        Client == [next : 1 .. MaxSequence + 1, flushed : 0 .. MaxSequence,
                   cursor : Cursor, snapshot : BOOLEAN]
        Commit == [document : SUBSET Ops, client : Client, received : BOOLEAN]
    IN  /\ workspace \in [Devices -> [ops : SUBSET Ops, edits : Nat, touched : BOOLEAN, account : BOOLEAN]]
        /\ \A d \in Devices :
              /\ config[d].baseline \subseteq Ops
              /\ config[d].client \in Client
              /\ config[d].commits \subseteq Commit
              /\ session[d].client \in Client
              /\ session[d].working \cup session[d].pending \subseteq Ops
              /\ session[d].reached \in Cursor
        /\ reverts \subseteq Ops \X Ops

\* A device acknowledges a cursor only when its stored workspace contains every
\* operation below it, or what undid the operation (docs/sync-service.md: "Each
\* device acknowledges a cursor only after applying and durably storing it").
AckedImpliesApplied ==
    \A d \in Devices :
        config[d].linked =>
            Covered(acknowledged[d]) \subseteq workspace[d].ops \cup {p[2] : p \in reverts}

\* A stored snapshot is the document its cursor claims, neither more nor less:
\* a device that bootstraps from it continues from the right operation
\* (UploadSnapshot of a document pulled page by page, while others push).
SnapshotIsExact ==
    \A i \in DOMAIN manifests :
        manifests[i].body = Covered(manifests[i].through) \ {p[2] : p \in reverts}

\* Between synchronizations the stored baseline is the stored workspace without
\* its uncaptured edits, although the two are written at different times: the
\* next capture sees the user's changes and nothing else.
BaselineIsWorkspace ==
    \A d \in Devices :
        (At(d, "idle") /\ config[d].linked /\ config[d].commits = {} /\ workspace[d].account)
            => config[d].baseline = workspace[d].ops

\* The state has its types, and between synchronizations the two stores of a
\* device agree.
StoresAgree == TypeOK /\ BaselineIsWorkspace

\* The operations a device publishes undo nothing the user did not undo: edits
\* only add, so a capture never finds an operation of the baseline missing.
NoPhantomRevert == reverts = {}

\* The service never refuses a push for its numbering, and an acknowledgement
\* never regresses: an outbox that survives crashes, lost answers and late
\* duplicates stays the continuation of the actor's sequence, and compaction
\* never overtakes it.
NumberingAgrees ==
    \A d \in Devices : Active(d) =>
        /\ At(d, "pushing") =>
              \A r \in requests : Awaited(d, r) =>
                  \E n \in 0 .. Len(r.batch) : Extends(d, r.batch, n)
        /\ At(d, "acknowledge") => Acknowledgeable(d, session[d].client.cursor)

\* Whatever fails, the stored outbox and the service together hold every captured
\* operation: what left the outbox was accepted, and what was accepted is never
\* numbered again.
NothingDropped ==
    \A d \in Devices : config[d].linked =>
        /\ config[d].client.flushed <= maxSequence[d]
        /\ maxSequence[d] < config[d].client.next

\* Client and service agree on what was sent, in both directions.
LogsAgree == NumberingAgrees /\ NothingDropped

\* Applying what was pulled never fails: a device meets neither an operation of
\* its own out of order nor a review it already has (docs/sync-service.md: "Sync
\* remains usable offline").
PulledIsApplicable ==
    \A d \in Devices : At(d, "apply") => ~LedgerRefuses(d, session[d])

\* A synchronization never drops a local edit: the only step that takes edits
\* out of the workspace store puts as many operations into the outbox.
EditsReachOutbox ==
    [][ \A d \in Devices :
          workspace'[d].edits < workspace[d].edits =>
              config'[d].client.next = config[d].client.next + workspace[d].edits
      ]_vars

\* The devices implement a replicated set of operations: every step of the
\* hosts, the client and the service authors, publishes, learns or confirms, and
\* nothing a workspace holds is ever lost.
Replicated == INSTANCE ReplicatedWorkspace WITH
    Ops <- Devices \X (1 .. MaxSequence),
    content <- [d \in Devices |-> workspace[d].ops],
    published <- Covered(maxSequence),
    confirmed <- [d \in Devices |-> Covered(acknowledged[d])]

ImplementsReplication == Replicated!AbstractSpec

\* Users keep starting synchronizations, also when the devices take turns; a
\* session that is running goes on; the service handles what it has received.
Fairness ==
    /\ \A d \in Devices : WF_vars(Progress(d)) /\ SF_vars(Start(d))
    /\ WF_vars(LatePush)

FairSpec == Spec /\ Fairness

\* Once edits and faults have stopped, every device of the account ends up with
\* every operation, whatever was interrupted before: no failure wedges the
\* client, and what was captured is eventually published.
Convergence ==
    \A d \in Devices :
        <>[](Active(d) /\ config[d].linked /\ workspace[d].account
             => /\ workspace[d].edits = 0
                /\ Outbox(config[d].client) = <<>>
                /\ workspace[d].ops = Covered(maxSequence))

=============================================================================
