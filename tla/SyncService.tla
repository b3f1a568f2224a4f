---------------------------- MODULE SyncService ----------------------------
(***************************************************************************)
(* One workspace held by the reference sync service                        *)
(* (packages/sync-service/src/index.ts): its device records, the encrypted *)
(* operations of every actor, the acknowledgements of the devices, the     *)
(* committed snapshot manifests and the compaction floor.                  *)
(*                                                                         *)
(* An operation is the pair <<actor, sequence>>: its idempotency key is    *)
(* "actor:sequence" and a client signs it once, so the ciphertext adds     *)
(* nothing.  A cursor maps every actor to a sequence number; 0 stands for  *)
(* a missing entry (the code reads `cursor[actor] || 0`).  A snapshot body *)
(* is ciphertext to the service, an element of Bodies.                     *)
(*                                                                         *)
(* Every handler runs on one thread and is atomic except push, which       *)
(* awaits signature verification between authorizing the device and        *)
(* opening its transaction: AuthorizePush and Push/RejectPush are separate *)
(* actions.                                                                *)
(***************************************************************************)
EXTENDS Integers, Sequences, FiniteSets

CONSTANTS
    Devices,            \* every actor id that may ever be enrolled
    Bodies,             \* the snapshot ciphertexts
    Batches,            \* the sequence-number batches a client may push
    Cursors,            \* the cursors a client may acknowledge or snapshot
    MaxDevices,         \* MAX_DEVICES_PER_WORKSPACE
    OperationQuota,     \* MAX_OPERATIONS_PER_WORKSPACE
    RetainedManifests,  \* MAX_SNAPSHOTS_PER_WORKSPACE
    MaxRequests         \* bound: pushes in flight at once

ASSUME BatchAssumption == Batches \subseteq Seq(Nat \ {0})
ASSUME CursorAssumption == Cursors \subseteq [Devices -> Nat]
ASSUME QuotaAssumption ==
    /\ MaxDevices \in Nat \ {0}
    /\ OperationQuota \in Nat
    /\ RetainedManifests \in Nat \ {0}
    /\ MaxRequests \in Nat

VARIABLES
    devices,        \* the devices table: "absent", "active" or "revoked"
    requests,       \* pushes authorized and still verifying signatures
    operations,     \* the operations table: the retained <<actor, sequence>>
    maxSequence,    \* the actor_sequences table
    acknowledged,   \* the device_acknowledgements table
    manifests,      \* the snapshot_manifests table in created_at order
    floor           \* the compaction_state table

serviceVars ==
    <<devices, requests, operations, maxSequence, acknowledged, manifests, floor>>

Cursor == [Devices -> Nat]
NoCursor == [a \in Devices |-> 0]
Operation == Devices \X (Nat \ {0})
Manifest == [through : Cursor, body : Bodies]
Request == [device : Devices, batch : Batches]

Active(d) == devices[d] = "active"
AccountExists == \E d \in Devices : devices[d] # "absent"
DeviceRecords(devs) == {d \in Devices : devs[d] # "absent"}

\* cursorDominates: every entry of the right cursor is reached by the left.
Dominates(left, right) == \A a \in Devices : left[a] >= right[a]

Latest == manifests[Len(manifests)]

ServiceInit ==
    /\ devices = [d \in Devices |-> "absent"]
    /\ requests = {}
    /\ operations = {}
    /\ maxSequence = NoCursor
    /\ acknowledged = [d \in Devices |-> NoCursor]
    /\ manifests = <<>>
    /\ floor = NoCursor

-----------------------------------------------------------------------------
(* Accounts and devices *)

\* enrollFirstDevice creates the account, the workspace and its first device.
\* An actor id is a fresh random id, so no earlier request carries it.
EnrollFirstDevice(d) ==
    /\ ~AccountExists
    /\ \A r \in requests : r.device # d
    /\ devices' = [devices EXCEPT ![d] = "active"]
    /\ UNCHANGED <<requests, operations, maxSequence, acknowledged, manifests, floor>>

AddDevice(d) ==
    /\ devices[d] = "absent"
    /\ \A r \in requests : r.device # d
    /\ Cardinality(DeviceRecords(devices)) < MaxDevices
    /\ devices' = [devices EXCEPT ![d] = "active"]
    /\ UNCHANGED <<requests, operations, maxSequence, acknowledged, manifests, floor>>

\* enrollDevice: an active device vouches for the new one.
EnrollDevice(owner, d) == Active(owner) /\ AddDevice(d)

\* recoverDevice: the account's recovery token does.
RecoverDevice(d) == AccountExists /\ AddDevice(d)

\* Defect: one acknowledgement is enough.
CompactableByAny(devs, acks) ==
    /\ manifests # <<>>
    /\ \E d \in Devices : devs[d] = "active" /\ Dominates(acks[d], Latest.through)
    /\ Dominates(Latest.through, floor)

\* tryCompact, run at the end of a revocation or an acknowledgement with the
\* device states and acknowledgements that call has just written.
Compactable(devs, acks) ==
    LET active == {d \in Devices : devs[d] = "active"} IN
    /\ manifests # <<>>
    /\ active # {}
    /\ \A d \in active : Dominates(acks[d], Latest.through)
    /\ Dominates(Latest.through, floor)

\* Defect: the operation after the snapshot cursor goes too.
TryCompactOneMore(devs, acks) ==
    IF Compactable(devs, acks)
    THEN /\ floor' = Latest.through
         /\ operations' = {o \in operations : o[2] > Latest.through[o[1]] + 1}
    ELSE UNCHANGED <<floor, operations>>

TryCompact(devs, acks) ==
    IF Compactable(devs, acks)
    THEN /\ floor' = Latest.through
         /\ operations' = {o \in operations : o[2] > Latest.through[o[1]]}
    ELSE UNCHANGED <<floor, operations>>

RevokeDevice(owner, d) ==
    /\ Active(owner)
    /\ d # owner
    /\ Active(d)
    /\ devices' = [devices EXCEPT ![d] = "revoked"]
    /\ TryCompact(devices', acknowledged)
    /\ UNCHANGED <<requests, maxSequence, acknowledged, manifests>>

\* deleteAccount cascades through every table of the workspace.
DeleteAccount(d) ==
    /\ Active(d)
    /\ devices' = [x \in Devices |-> "absent"]
    /\ operations' = {}
    /\ maxSequence' = NoCursor
    /\ acknowledged' = [x \in Devices |-> NoCursor]
    /\ manifests' = <<>>
    /\ floor' = NoCursor
    /\ UNCHANGED requests

-----------------------------------------------------------------------------
(* Operations *)

\* push up to its last await: the token was valid when the request arrived.
AuthorizePush(d, batch) ==
    /\ Active(d)
    /\ batch # <<>>
    /\ Cardinality(requests) < MaxRequests
    /\ requests' = requests \cup {[device |-> d, batch |-> batch]}
    /\ UNCHANGED <<devices, operations, maxSequence, acknowledged, manifests, floor>>

\* The sequence numbers of a batch that the operations table does not hold.
Fresh(d, batch) == {s \in {batch[i] : i \in DOMAIN batch} : <<d, s>> \notin operations}

\* Defect: the expected number comes from the operations table.
ExtendsRetained(d, batch, n) ==
    \E last \in {0} \cup {o[2] : o \in {p \in operations : p[1] = d}} :
        /\ \A o \in operations : o[1] = d => o[2] <= last
        /\ Fresh(d, batch) = last + 1 .. last + n

\* Defect: a number only has to be beyond the watermark.
ExtendsWithGaps(d, batch, n) ==
    /\ n = Cardinality(Fresh(d, batch))
    /\ \A s \in Fresh(d, batch) : s > maxSequence[d]

\* The batch passes `operation.sequence !== expected`: leaving out what is
\* already stored, it is the next n sequence numbers of the actor in order.
Extends(d, batch, n) ==
    /\ Fresh(d, batch) = (maxSequence[d] + 1) .. (maxSequence[d] + n)
    /\ \A i \in DOMAIN batch :
          (batch[i] \in Fresh(d, batch) /\ batch[i] # maxSequence[d] + 1)
             => \E j \in 1 .. i - 1 : batch[j] = batch[i] - 1

WithinQuota(d, batch) ==
    Cardinality(operations) + Cardinality(Fresh(d, batch)) <= OperationQuota

\* The operations table refers to the workspace: a deleted one refuses the rows.
Accepts(r, n) ==
    /\ devices[r.device] # "absent"
    /\ WithinQuota(r.device, r.batch)
    /\ Extends(r.device, r.batch, n)

\* push after its last await: quota check and one transaction.
Push(r) ==
    /\ r \in requests
    /\ \E n \in 0 .. Len(r.batch) :
          /\ Accepts(r, n)
          /\ maxSequence' = [maxSequence EXCEPT ![r.device] = @ + n]
    /\ operations' = operations \cup ({r.device} \X Fresh(r.device, r.batch))
    /\ requests' = requests \ {r}
    /\ UNCHANGED <<devices, acknowledged, manifests, floor>>

\* The same code when a check fails: the transaction is rolled back.
RejectPush(r) ==
    /\ r \in requests
    /\ \A n \in 0 .. Len(r.batch) : ~Accepts(r, n)
    /\ requests' = requests \ {r}
    /\ UNCHANGED <<devices, operations, maxSequence, acknowledged, manifests, floor>>

\* The process stops: SQLite keeps every table, the requests are forgotten.
ServiceCrash ==
    /\ requests # {}
    /\ requests' = {}
    /\ UNCHANGED <<devices, operations, maxSequence, acknowledged, manifests, floor>>

\* What pull serves beyond a cursor: the compaction floor is applied first.
EffectiveAfter(after) ==
    [a \in Devices |-> IF after[a] >= floor[a] THEN after[a] ELSE floor[a]]

Candidates(after) == {o \in operations : o[2] > EffectiveAfter(after)[o[1]]}

\* One page of at most `limit` rows in received_at order.  A push stores its
\* operations in sequence order, so a page holds the earliest ones of every
\* actor; which actors share the page depends on arrival times.
Pages(after, limit) ==
    LET rows == Candidates(after)
        size == IF Cardinality(rows) < limit THEN Cardinality(rows) ELSE limit
    IN  {page \in SUBSET rows :
            /\ Cardinality(page) = size
            /\ \A o \in page, p \in rows : (p[1] = o[1] /\ p[2] < o[2]) => p \in page}

\* Defect: the cursor of the whole history comes with its first page.
PageCursorOfAll(after, page) ==
    [a \in Devices |->
        LET reached == {EffectiveAfter(after)[a]} \cup {o[2] : o \in {p \in operations : p[1] = a}}
        IN  CHOOSE s \in reached : \A t \in reached : s >= t]

\* The cursor pull returns with a page.
PageCursor(after, page) ==
    [a \in Devices |->
        LET reached == {EffectiveAfter(after)[a]} \cup {o[2] : o \in {p \in page : p[1] = a}}
        IN  CHOOSE s \in reached : \A t \in reached : s >= t]

\* A cursor acknowledge accepts: per actor non-regressive and within the
\* actor's sequence.
Acknowledgeable(d, cursor) ==
    \A a \in Devices :
        cursor[a] # 0 => /\ cursor[a] >= acknowledged[d][a]
                         /\ cursor[a] <= maxSequence[a]

\* Defect: the new cursor replaces the stored one instead of updating it.
AcknowledgeReplacing(d, cursor) ==
    /\ Active(d)
    /\ Acknowledgeable(d, cursor)
    /\ acknowledged' = [acknowledged EXCEPT ![d] =
          [a \in {x \in Devices : cursor[x] # 0} |-> cursor[a]]]
    /\ TryCompact(devices, acknowledged')
    /\ UNCHANGED <<devices, requests, maxSequence, manifests>>

Acknowledge(d, cursor) ==
    /\ Active(d)
    /\ Acknowledgeable(d, cursor)
    /\ acknowledged' = [acknowledged EXCEPT ![d] =
          [a \in Devices |-> IF cursor[a] = 0 THEN acknowledged[d][a] ELSE cursor[a]]]
    /\ TryCompact(devices, acknowledged')
    /\ UNCHANGED <<devices, requests, maxSequence, manifests>>

-----------------------------------------------------------------------------
(* Snapshots *)

\* Defect: a snapshot may be older than what it follows.
CommittableOutdated(through) == Dominates(maxSequence, through)

\* The conditions commitSnapshotManifest puts on the cursor of a snapshot.
Committable(through) ==
    /\ Dominates(maxSequence, through)
    /\ Dominates(through, floor)
    /\ manifests # <<>> => Dominates(through, Latest.through)

\* The newest RetainedManifests of a list of manifests.
Retain(list) ==
    IF Len(list) <= RetainedManifests
    THEN list
    ELSE SubSeq(list, Len(list) - RetainedManifests + 1, Len(list))

\* commitSnapshotManifest: `created_at` is the service clock, taken not to
\* step back, so the manifest committed last is the latest one.
CommitSnapshotManifest(d, through, body) ==
    /\ Active(d)
    /\ Committable(through)
    /\ manifests' = Retain(Append(manifests, [through |-> through, body |-> body]))
    /\ UNCHANGED <<devices, requests, operations, maxSequence, acknowledged, floor>>

-----------------------------------------------------------------------------
ServiceNext ==
    \/ \E d \in Devices :
          \/ EnrollFirstDevice(d)
          \/ RecoverDevice(d)
          \/ DeleteAccount(d)
          \/ \E x \in Devices : EnrollDevice(d, x) \/ RevokeDevice(d, x)
          \/ \E batch \in Batches : AuthorizePush(d, batch)
          \/ \E cursor \in Cursors : Acknowledge(d, cursor)
          \/ \E through \in Cursors, body \in Bodies :
                CommitSnapshotManifest(d, through, body)
    \/ \E r \in requests : Push(r) \/ RejectPush(r)
    \/ ServiceCrash

ServiceSpec == ServiceInit /\ [][ServiceNext]_serviceVars

-----------------------------------------------------------------------------
(* Properties *)

\* Every table holds what its schema and its checks admit.
ServiceTypeOK ==
    /\ devices \in [Devices -> {"absent", "active", "revoked"}]
    /\ requests \subseteq Request
    /\ operations \subseteq Operation
    /\ maxSequence \in Cursor
    /\ acknowledged \in [Devices -> Cursor]
    /\ manifests \in Seq(Manifest)
    /\ floor \in Cursor

\* The operations table holds, for every actor, exactly the sequence numbers
\* above the compaction floor up to the actor's watermark: push leaves no hole
\* (retries and duplicates included) and tryCompact removes a prefix.
RetainedSuffix ==
    operations = UNION {{a} \X (floor[a] + 1 .. maxSequence[a]) : a \in Devices}

\* Whenever history has been compacted there is a snapshot to bootstrap from,
\* and the one pull hands out reaches the floor (tryCompact and the retention
\* of commitSnapshotManifest).
SnapshotCoversFloor ==
    floor # NoCursor => manifests # <<>> /\ Dominates(Latest.through, floor)

\* A device never acknowledges, and a snapshot never claims to cover, an
\* operation that was not accepted.
ClaimsWithinLog ==
    /\ \A d \in Devices : Dominates(maxSequence, acknowledged[d])
    /\ \A i \in DOMAIN manifests : Dominates(maxSequence, manifests[i].through)

\* The cursor a client continues from: its own, or the one of the latest
\* snapshot when it is behind the floor.
ResumePoint(after) ==
    IF Dominates(after, floor) THEN after ELSE Latest.through

\* A client at any cursor, a new one included, can still obtain every accepted
\* operation, from the snapshot it is sent to or from the operations that pull
\* serves beyond it, whatever was compacted and whichever snapshots were
\* dropped (docs/sync-service.md: "new or lagging clients are forced through
\* the retained encrypted bootstrap snapshot").
NoHistoryLost ==
    \A after \in Cursors :
        /\ Dominates(after, floor) \/ manifests # <<>>
        /\ \A a \in Devices :
              \A s \in (ResumePoint(after)[a] + 1) .. maxSequence[a] :
                  <<a, s>> \in operations

\* A page of pull moves the cursor over an operation only if the page contains
\* it or the floor covers it, for every page size and arrival order.
PullSkipsNothing ==
    \A after \in Cursors, limit \in 1 .. 2 :
        \A page \in Pages(after, limit), o \in operations :
            (o[2] > after[o[1]] /\ o[2] <= PageCursor(after, page)[o[1]]) => o \in page

\* A client at any cursor can catch up: the snapshot it may be sent to reaches the
\* floor, and the pages it pulls from there leave nothing out.
CatchUpIsComplete == SnapshotCoversFloor /\ PullSkipsNothing

\* History is compacted only under a committed snapshot that every device
\* still active has acknowledged (docs/sync-service.md: "Operations are
\* compacted only when a committed snapshot covers them and every active
\* device has acknowledged that snapshot cursor").
CompactionAcknowledged ==
    [][ floor' # floor /\ AccountExists'
        => /\ \E i \in DOMAIN manifests : manifests[i].through = floor'
           /\ \A d \in Devices : devices'[d] = "active" => Dominates(acknowledged'[d], floor')
      ]_serviceVars

\* A sequence number is accepted at most once in the life of a workspace: what
\* is stored is always new to its actor, even when the operation that used the
\* number has been compacted away ("Actor sequence watermarks survive
\* compaction").
SequenceNeverReused ==
    [][ \A o \in operations' \ operations : o[2] > maxSequence[o[1]] ]_serviceVars

\* docs/sync-service.md: "Revocation blocks future authentication and writes".
RevocationBlocksWrites ==
    [][ \A d \in Devices : devices[d] = "revoked" /\ devices'[d] = "revoked"
                              => maxSequence'[d] = maxSequence[d] ]_serviceVars
=============================================================================
