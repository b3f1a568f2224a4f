----------------------------- MODULE SyncAccount -----------------------------
(***************************************************************************)
(* The stored sync configuration of one device and everything that writes   *)
(* it: synchronizations, which wait for each other in the manager's queue,   *)
(* and the account's operations, which do not. Every operation reads the    *)
(* whole record, awaits the service or the workspace, and writes it back.   *)
(* Several surfaces of the interface call the same manager; requests get    *)
(* lost on either way; the process may be killed between two steps; another *)
(* device may replace the recovery key.                                     *)
(***************************************************************************)
EXTENDS Naturals, Sequences

CONSTANTS
    Callers,        \* surfaces that may call the manager
    None,           \* no configuration, no journaled result, no key
    Alone,          \* TRUE: account operations overlap with no other call, which the managers do not ensure
    MaxCalls,       \* bound on calls
    MaxEdits,       \* bound on edits of the workspace
    MaxFaults       \* bound on lost requests, failed commits and crashes together

\* A result that waits for the workspace, and the stored record: the client's next
\* sequence number, what the service has of its operations, and the document the
\* next synchronization compares with.
Pending == [result : Nat, sent : Nat]
StoredRecord ==
    [actor : Nat, key : Nat, next : Nat, sent : Nat, baseline : Nat, pending : Pending \cup {None}]

ASSUME CallersAssumption == Callers # {} /\ None \notin Callers
ASSUME NoneAssumption == None \notin Nat \cup Pending \cup StoredRecord
ASSUME AloneAssumption == Alone \in BOOLEAN
ASSUME BoundsAssumption == MaxCalls \in Nat /\ MaxEdits \in Nat /\ MaxFaults \in Nat

VARIABLES
    config,         \* the stored record, or None
    syncQueue,      \* the callers waiting for the queue, the first one running
    calls,          \* what each caller does
    service,        \* the account at the service
    workspace,      \* version of the local workspace
    committed,      \* the last journaled result the workspace committed
    shown,          \* the recovery key the user was shown last
    made, faults    \* calls and faults so far

vars == <<config, syncQueue, calls, service, workspace, committed, shown, made, faults>>

\* One operation of a caller: the step it takes next, the workspace it was called
\* with, the record it holds, and the service's answer: what it has of the client's
\* operations, or the new key.
Call(op, step, read, record) == [op |-> op, step |-> step, read |-> read, record |-> record, answer |-> 0]
Idle == Call("none", "idle", 0, None)

Record(actor, key, document) ==
    [actor |-> actor, key |-> key, next |-> 1, sent |-> 0, baseline |-> document, pending |-> None]

At(c, step) == calls[c].step = step
Goes(c, step) == calls' = [calls EXCEPT ![c].step = step]

\* The caller has a new record, or an answer, and goes on.
Holds(c, r, step) == calls' = [calls EXCEPT ![c] = [@ EXCEPT !.record = r, !.step = step]]
Learns(c, answer, step) == calls' = [calls EXCEPT ![c] = [@ EXCEPT !.answer = answer, !.step = step]]

\* The caller writes its record and goes on.
Writes(c, r, step) == config' = r /\ Holds(c, r, step)

\* A fault may strike: the answer is lost, or the request is.
Faulty == faults < MaxFaults /\ faults' = faults + 1

Edit ==
    /\ workspace < MaxEdits
    /\ workspace' = workspace + 1
    /\ UNCHANGED <<config, syncQueue, calls, service, committed, shown, made, faults>>

(***************************************************************************)
(* Calls                                                                   *)
(***************************************************************************)

Synchronizing == {"sync", "resolve"}
Managing == {"create", "recover", "rotate", "disconnect", "delete"}

Free(c, op) ==
    /\ calls[c] = Idle /\ made < MaxCalls
    /\ Alone => \A d \in Callers : calls[d].op \in IF op \in Managing THEN {"none"} ELSE {"none"} \cup Synchronizing
    /\ made' = made + 1

\* synchronize with the workspace of now; the queue decides when it runs.
BeginSync(c) ==
    /\ Free(c, "sync")
    /\ calls' = [calls EXCEPT ![c] = Call("sync", "queued", workspace, None)]
    /\ syncQueue' = Append(syncQueue, c)
    /\ UNCHANGED <<config, service, workspace, committed, shown, faults>>

\* resolveConflict: the document it synchronizes is the workspace with the choice
\* applied, which the workspace has not committed.
BeginResolve(c) ==
    /\ config # None
    /\ Free(c, "resolve")
    /\ calls' = [calls EXCEPT ![c] = Call("resolve", "queued", MaxEdits + made + 1, None)]
    /\ syncQueue' = Append(syncQueue, c)
    /\ UNCHANGED <<config, service, workspace, committed, shown, faults>>

\* createAccount, recoverAccount: refused while there is a configuration.
BeginConnect(c) ==
    /\ config = None
    /\ \E op \in {"create", "recover"} :
          /\ op = "recover" => shown # None
          /\ Free(c, op)
          /\ calls' = [calls EXCEPT ![c] = Call(op, "enroll", workspace, None)]
    /\ UNCHANGED <<config, syncQueue, service, workspace, committed, shown, faults>>

\* rotateRecoveryBundle, deleteAccount: they hold the record they have read. The
\* browser replaces a key only for a user who has the current one.
BeginOnRecord(c) ==
    /\ config # None
    /\ \E op \in {"rotate", "delete"} :
          /\ op = "rotate" => shown = config.key
          /\ Free(c, op)
          /\ calls' = [calls EXCEPT ![c] = Call(op, "request", workspace, config)]
    /\ UNCHANGED <<config, syncQueue, service, workspace, committed, shown, faults>>

\* disconnect removes the configuration at once.
Disconnect(c) ==
    /\ config # None /\ Free(c, "disconnect")
    /\ config' = None
    /\ UNCHANGED <<calls, syncQueue, service, workspace, committed, shown, faults>>

Return(c) == calls' = [calls EXCEPT ![c] = Idle]
Lost(c) == Faulty /\ Return(c)

(***************************************************************************)
(* Connecting                                                              *)
(***************************************************************************)

\* The workspace id is new to the service, or the key is the account's: another
\* device is enrolled. It finds the snapshot of the first synchronization, since
\* no key is shown before that.
Enrolled(op) ==
    CASE op = "create" -> [service EXCEPT !.exists = TRUE, !.key = @ + 1, !.actors = @ + 1]
      [] op = "recover" -> [service EXCEPT !.actors = @ + 1]

Welcome(op) == IF op = "create" THEN ~service.exists ELSE service.exists /\ shown = service.key

Enroll(c) ==
    /\ At(c, "enroll")
    /\ LET op == calls[c].op
           new == Enrolled(op)
       IN  \/ /\ Welcome(op)
              /\ service' = new
              /\ \/ /\ Holds(c, Record(new.actors, new.key, calls[c].read), "store")
                    /\ UNCHANGED faults
                 \/ Lost(c)
           \/ /\ ~Welcome(op)
              /\ Return(c) /\ UNCHANGED <<service, faults>>
           \/ Lost(c) /\ UNCHANGED service
    /\ UNCHANGED <<config, syncQueue, workspace, committed, shown, made>>

\* The configuration is written, and the first synchronization is queued.
Store(c) ==
    /\ At(c, "store")
    /\ Writes(c, calls[c].record, "queued")
    /\ syncQueue' = Append(syncQueue, c)
    /\ UNCHANGED <<service, workspace, committed, shown, made, faults>>

(***************************************************************************)
(* synchronizeOnce                                                         *)
(***************************************************************************)

\* Defect: a synchronization does not wait for the one before it.
AnyTurn(c) == At(c, "queued")

\* The queue runs one synchronization at a time.
Turn(c) == At(c, "queued") /\ Head(syncQueue) = c

\* The synchronization that runs is over, and its caller learns that it has failed.
Leave == syncQueue' = Tail(syncQueue)
Failed(c) == Leave /\ IF calls[c].op = "sync" THEN Return(c) ELSE Goes(c, "failed")

ReadConfig(c) ==
    /\ Turn(c)
    /\ IF config = None
       THEN Failed(c)
       ELSE /\ Holds(c, config, IF config.pending = None THEN "capture" ELSE "resume")
            /\ UNCHANGED syncQueue
    /\ UNCHANGED <<config, service, workspace, committed, shown, made, faults>>

Captured(r, document) ==
    [r EXCEPT !.baseline = document, !.next = IF document = r.baseline THEN @ ELSE @ + 1]

\* Defect: the captured operation is kept in memory only.
CapturesInMemory(c) ==
    /\ At(c, "capture")
    /\ Holds(c, Captured(calls[c].record, calls[c].read), "exchange")
    /\ UNCHANGED <<config, syncQueue, service, workspace, committed, shown, made, faults>>

Capture(c) ==
    /\ At(c, "capture")
    /\ Writes(c, Captured(calls[c].record, calls[c].read), "exchange")
    /\ UNCHANGED <<syncQueue, service, workspace, committed, shown, made, faults>>

\* The service accepts the operations of the outbox once.
Pushed(r) ==
    [service EXCEPT !.received = @ + 1,
                    !.max[r.actor] = IF @ < r.next - 1 THEN r.next - 1 ELSE @]

Exchange(c) ==
    /\ At(c, "exchange")
    /\ LET r == calls[c].record
       IN  \/ /\ service.exists
              /\ service' = Pushed(r)
              /\ \/ /\ Learns(c, r.next - 1, "journal")
                    /\ UNCHANGED faults
                 \/ Faulty /\ Goes(c, "catch")
           \/ /\ Goes(c, "catch")
              /\ IF service.exists THEN Faulty ELSE UNCHANGED faults
              /\ UNCHANGED service
    /\ UNCHANGED <<config, syncQueue, workspace, committed, shown, made>>

\* pendingCommit: the result and the client's state are journaled together.
Journal(c) ==
    /\ At(c, "journal")
    /\ LET r == calls[c].record
       IN  Writes(c, [r EXCEPT !.pending = [result |-> service.received, sent |-> calls[c].answer]], "commit")
    /\ UNCHANGED <<syncQueue, service, workspace, committed, shown, made, faults>>

\* The workspace takes the journaled result, now or after a restart; on the desktop
\* only when something was received or a conflict resolved. A failure now is
\* caught; a failure of the commit that was left over is not.
Commit(c) ==
    /\ At(c, "commit") \/ At(c, "resume")
    /\ \/ /\ committed' = calls[c].record.pending.result
          /\ workspace' \in {calls[c].record.baseline} \cup (IF calls[c].op = "resolve" THEN {} ELSE {workspace})
          /\ Goes(c, "settle")
          /\ UNCHANGED <<syncQueue, faults>>
       \/ /\ Faulty
          /\ IF At(c, "commit") THEN Goes(c, "catch") /\ UNCHANGED syncQueue ELSE Failed(c)
          /\ UNCHANGED <<workspace, committed>>
    /\ UNCHANGED <<config, service, shown, made>>

Settle(c) ==
    /\ At(c, "settle")
    /\ LET r == calls[c].record
       IN  Writes(c, [r EXCEPT !.sent = r.pending.sent, !.pending = None], "acknowledge")
    /\ UNCHANGED <<syncQueue, service, workspace, committed, shown, made, faults>>

\* A failed acknowledgement is noted in the record; the call has succeeded, and
\* the key of a new account is shown.
Acknowledge(c) ==
    /\ At(c, "acknowledge")
    /\ Leave /\ Return(c)
    /\ shown' = IF calls[c].op = "create" THEN calls[c].record.key ELSE shown
    /\ \/ config' = config /\ UNCHANGED faults
       \/ config' = calls[c].record /\ Faulty
    /\ UNCHANGED <<service, workspace, committed, made>>

\* Defect: what is journaled is forgotten with the failure.
CatchesAll(c) ==
    /\ At(c, "catch")
    /\ config' = [calls[c].record EXCEPT !.pending = None]
    /\ Failed(c)
    /\ UNCHANGED <<service, workspace, committed, shown, made, faults>>

\* The client's state is written back, whatever has failed.
Catch(c) ==
    /\ At(c, "catch")
    /\ config' = calls[c].record
    /\ Failed(c)
    /\ UNCHANGED <<service, workspace, committed, shown, made, faults>>

\* What the caller does about the failure: a new account is forgotten, a recovery
\* unless its result is journaled, and a resolution is committed without the service.
Clears(c) ==
    \/ calls[c].op = "create"
    \/ calls[c].op = "recover" /\ (config = None \/ config.pending = None)

HandleFailure(c) ==
    /\ At(c, "failed")
    /\ config' = IF Clears(c) THEN None ELSE config
    /\ workspace' = IF calls[c].op = "resolve" /\ (config = None \/ config.pending = None) THEN calls[c].read ELSE workspace
    /\ Return(c)
    /\ UNCHANGED <<syncQueue, service, committed, shown, made, faults>>

(***************************************************************************)
(* The account                                                             *)
(***************************************************************************)

\* The service answers once the change is made.
Request(c) ==
    /\ At(c, "request")
    /\ LET changed == IF calls[c].op = "rotate" THEN [service EXCEPT !.key = @ + 1] ELSE [service EXCEPT !.exists = FALSE]
       IN  \/ /\ service.exists
              /\ service' = changed
              /\ \/ /\ Learns(c, changed.key, calls[c].op)
                    /\ UNCHANGED faults
                 \/ Lost(c)
           \/ /\ Return(c)
              /\ IF service.exists THEN Faulty ELSE UNCHANGED faults
              /\ UNCHANGED service
    /\ UNCHANGED <<config, syncQueue, workspace, committed, shown, made>>

\* Defect: the replaced key is not stored.
KeepsKey(c) ==
    /\ At(c, "rotate")
    /\ Goes(c, "show")
    /\ UNCHANGED <<config, syncQueue, service, workspace, committed, shown, made, faults>>

StoreKey(c) ==
    /\ At(c, "rotate")
    /\ Writes(c, [calls[c].record EXCEPT !.key = calls[c].answer], "show")
    /\ UNCHANGED <<syncQueue, service, workspace, committed, shown, made, faults>>

ShowKey(c) ==
    /\ At(c, "show")
    /\ shown' = calls[c].answer
    /\ Return(c)
    /\ UNCHANGED <<config, syncQueue, service, workspace, committed, made, faults>>

Remove(c) ==
    /\ At(c, "delete")
    /\ config' = None
    /\ Return(c)
    /\ UNCHANGED <<syncQueue, service, workspace, committed, shown, made, faults>>

(***************************************************************************)
(* Elsewhere                                                               *)
(***************************************************************************)

OtherDeviceRotates ==
    /\ service.exists /\ made < MaxCalls
    /\ service' = [service EXCEPT !.key = @ + 1]
    /\ made' = made + 1
    /\ UNCHANGED <<config, syncQueue, calls, workspace, committed, shown, faults>>

Crash ==
    /\ \E c \in Callers : calls[c] # Idle
    /\ Faulty
    /\ calls' = [c \in Callers |-> Idle] /\ syncQueue' = <<>>
    /\ UNCHANGED <<config, service, workspace, committed, shown, made>>

\* The device has never been connected.
Init ==
    /\ config = None /\ syncQueue = <<>> /\ calls = [c \in Callers |-> Idle]
    /\ service = [exists |-> FALSE, key |-> 0, actors |-> 0, received |-> 0,
                   max |-> [a \in 1 .. MaxCalls |-> 0]]
    /\ workspace = 0 /\ committed = 0 /\ shown = None /\ made = 0 /\ faults = 0

Step(c) ==
    \/ BeginSync(c) \/ BeginResolve(c) \/ BeginConnect(c) \/ BeginOnRecord(c) \/ Disconnect(c)
    \/ Enroll(c) \/ Store(c) \/ ReadConfig(c) \/ Capture(c) \/ Exchange(c) \/ Journal(c) \/ Commit(c)
    \/ Settle(c) \/ Acknowledge(c) \/ Catch(c) \/ HandleFailure(c)
    \/ Request(c) \/ StoreKey(c) \/ ShowKey(c) \/ Remove(c)

Next == Edit \/ OtherDeviceRotates \/ Crash \/ \E c \in Callers : Step(c)

Spec == Init /\ [][Next]_vars

(***************************************************************************)
(* Properties                                                              *)
(***************************************************************************)

Running == {"resume", "capture", "exchange", "journal", "commit", "settle", "acknowledge", "catch"}

\* The stored record is complete, and the first caller of the queue is the only
\* one that runs.
AccountTypeOK ==
    /\ config # None =>
        /\ config.actor \in 1 .. service.actors /\ config.key \in 1 .. service.key
        /\ config.sent < config.next
        /\ config.pending # None => config.pending.sent < config.next
    /\ \A c \in Callers : calls[c].step \in Running => syncQueue # <<>> /\ Head(syncQueue) = c

\* The record never numbers an operation again that the service has, which would
\* refuse every later synchronization of the device.
NumberingAhead ==
    config # None /\ service.exists => service.max[config.actor] < config.next

\* The stored key is never older than the one the user was shown: the browser
\* replaces the key only for a user who shows the stored one.
StoredKeyIsNotOlder ==
    config # None /\ shown # None => config.key >= shown

\* The record is right about the service and the user after every write: an
\* operation is stored before it is sent, and no queued call puts an older record back.
RecordIsCurrent == AccountTypeOK /\ NumberingAhead /\ StoredKeyIsNotOlder

\* A journaled result leaves the record when the workspace has committed it,
\* whatever fails or crashes in between, unless the device is disconnected.
JournalIsCommitted ==
    [][config # None /\ config' # None /\ config.pending # None /\ config'.pending # config.pending
        => committed = config.pending.result]_vars

\* Nobody overwrites a record, or writes one again that was removed, that has
\* changed since it was read: "One coordinator per browser context prevents
\* independent UI surfaces from racing IndexedDB state" (browser-sync.ts). With
\* Alone the queue has to see to it, for synchronizations and resolutions; the
\* operations on the account, which it does not serve, break it without.
NothingOverwritten ==
    [][config' # config /\ config' # None =>
        \A c \in Callers : calls'[c] # calls[c] => calls[c].record = config \/ (config = None /\ At(c, "store"))]_vars

=============================================================================
