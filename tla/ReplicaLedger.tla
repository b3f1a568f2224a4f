--------------------------- MODULE ReplicaLedger ---------------------------
(***************************************************************************)
(* What synchronization does to the fields of one entity: the operation    *)
(* ledger and the hybrid timestamps (packages/sync-protocol/src/index.ts)  *)
(* under the replica and the client (packages/sync-client/src/index.ts).   *)
(* WorkspaceSync treats an operation as an atom; here it carries field     *)
(* values, the values its author saw, tags, a timestamp and the conflicts  *)
(* it resolves.                                                            *)
(*                                                                         *)
(* Every synchronization of every host makes a new client from the stored  *)
(* baseline.  Its ledger knows nothing of earlier ones: each value is      *)
(* stamped with the time of the entity it was stored in, and tombstones    *)
(* and resolved conflicts are forgotten.                                   *)
(*                                                                         *)
(* The devices start with the same synchronized document.  The service is  *)
(* the sequence of accepted operations in the order of their arrival.      *)
(***************************************************************************)
EXTENDS Integers, Sequences, FiniteSets

CONSTANTS
    Devices,        \* ranks of the actor ids in their lexical order; "bootstrap" is 0
    Fields,         \* the fields a user edits
    Tags,
    Values,
    NoValue,        \* what a field holds that is absent
    Skew,           \* how far the clock of a device is ahead
    MaxAhead,       \* how far ahead a remote timestamp may be (24 hours)
    Deletes,        \* may entities be deleted and created again?
    MaxEdits,       \* bound: edits and resolutions in a run
    MaxFailures     \* bound: synchronizations that fail

ASSUME DeviceAssumption == Devices \subseteq Nat \ {0} /\ IsFiniteSet(Devices)
ASSUME ValueAssumption == NoValue \notin Values \cup Nat /\ Values \cap Nat = {}
ASSUME FieldAssumption == {"id", "updatedAt"} \cap Fields = {}
ASSUME ClockAssumption == Skew \in [Devices -> Nat] /\ MaxAhead \in Nat
ASSUME BoundAssumption == {MaxEdits, MaxFailures} \subseteq Nat /\ Deletes \in BOOLEAN

VARIABLES
    now,        \* the time; every edit has a moment of its own
    workspace,  \* per device: the stored entity
    baseline,   \* per device: the entity as last captured or synchronized
    outbox,     \* per device: captured operations the service has not accepted
    log,        \* the operations the service has accepted
    cursor,     \* per device: the sequence reached, for every actor
    conflicts,  \* per device: the conflicts reported to the user
    session,    \* per device: the client of the synchronization in progress
    failures    \* synchronizations that have failed

vars == <<now, workspace, baseline, outbox, log, cursor, conflicts, session, failures>>

Names == Fields \cup {"id", "updatedAt"}

-----------------------------------------------------------------------------
(* Hybrid timestamps: <<wall time, counter, actor>> *)

Never == <<-1, 0, 0>>

\* Defect: the actor does not break ties.
NewerByTime(s, t) ==
    \/ s[1] > t[1]
    \/ s[1] = t[1] /\ s[2] > t[2]

\* compareHybridTimestamp(s, t) > 0
Newer(s, t) ==
    \/ s[1] > t[1]
    \/ s[1] = t[1] /\ s[2] > t[2]
    \/ s[1] = t[1] /\ s[2] = t[2] /\ s[3] > t[3]

Clock(d) == now + Skew[d]

\* The first tick of a clock made for this synchronization, which starts at 0.
Tick(d) == <<Clock(d), 0, d>>

\* HybridLogicalClock.receive refuses a timestamp too far in the future.  What
\* else it does is lost with the client: nothing ticks after a receive.
Ahead(d, stamp) == stamp[1] > Clock(d) + MaxAhead

-----------------------------------------------------------------------------
(* Entities and operations *)

NoEntity == [exists |-> FALSE, fields |-> [n \in Names |-> NoValue], tags |-> {}]

\* changes gives the new value of every changed field (NoValue for a removed
\* one), bases the value its author saw.
Upsert(old, new, resolves, actor, sequence, stamp) ==
    LET changed == {n \in Names : old.fields[n] # new.fields[n]}
    IN  [action |-> "upsert", actor |-> actor, sequence |-> sequence, stamp |-> stamp,
         changes |-> [n \in changed |-> new.fields[n]],
         bases |-> [n \in changed |-> old.fields[n]],
         added |-> new.tags \ old.tags, removed |-> old.tags \ new.tags,
         resolves |-> resolves]

Deletion(actor, sequence, stamp) ==
    [action |-> "delete", actor |-> actor, sequence |-> sequence, stamp |-> stamp,
     changes |-> <<>>, bases |-> <<>>, added |-> {}, removed |-> {}, resolves |-> {}]

\* createLocalOperations: no operation, or the one that turns old into new.  A
\* replica that has seen the deletion in this synchronization restores.
LocalOperations(l, old, new, resolves, actor, sequence, stamp) ==
    IF old = new
    THEN <<>>
    ELSE IF new.exists
         THEN <<[Upsert(old, new, resolves, actor, sequence, stamp) EXCEPT
                   !.action = IF ~old.exists /\ l.tombstone # Never THEN "restore" ELSE @]>>
         ELSE <<Deletion(actor, sequence, stamp)>>

-----------------------------------------------------------------------------
(* OperationLedger *)

EmptyLedger ==
    [known |-> FALSE, fields |-> [n \in Names |-> NoValue], stamps |-> [n \in Names |-> Never],
     tags |-> {}, tagStamps |-> [t \in Tags |-> Never], tombstone |-> Never,
     applied |-> {}, conflicts |-> {}, resolved |-> {}]

\* The document the ledger stands for; a tombstone hides the entity.
Document(l) ==
    IF l.known /\ l.tombstone = Never
    THEN [exists |-> TRUE, fields |-> l.fields, tags |-> l.tags]
    ELSE NoEntity

\* Defect: values get the time of the synchronization.
SeedNow(entity) ==
    LET stamp == <<now, 1, 0>>
    IN  IF ~entity.exists
        THEN EmptyLedger
        ELSE [EmptyLedger EXCEPT
                !.known = TRUE,
                !.fields = entity.fields,
                !.stamps = [n \in Names |-> IF entity.fields[n] = NoValue THEN Never ELSE stamp],
                !.tags = entity.tags,
                !.tagStamps = [t \in Tags |-> IF t \in entity.tags THEN stamp ELSE Never]]

\* WorkspaceSyncReplica.seed: every value of the document becomes an operation
\* of the actor "bootstrap" at the time the entity was changed last.
Seed(entity) ==
    LET stamp == <<entity.fields["updatedAt"], 1, 0>>
    IN  IF ~entity.exists
        THEN EmptyLedger
        ELSE [EmptyLedger EXCEPT
                !.known = TRUE,
                !.fields = entity.fields,
                !.stamps = [n \in Names |-> IF entity.fields[n] = NoValue THEN Never ELSE stamp],
                !.tags = entity.tags,
                !.tagStamps = [t \in Tags |-> IF t \in entity.tags THEN stamp ELSE Never]]

\* Conflicts are known by what they are about, not by who found them.  Those that
\* are worth telling the user of: another actor wrote the field, the editor had not
\* seen what it holds, and the two differ.
Conflict(l, op, n) ==
    [id |-> [field |-> n, base |-> op.bases[n], alternatives |-> {l.fields[n], op.changes[n]}],
     existing |-> l.fields[n], incoming |-> op.changes[n]]

Detected(l, op) ==
    {Conflict(l, op, n) : n \in {m \in DOMAIN op.changes \ {"updatedAt"} :
        /\ l.stamps[m] # Never /\ l.stamps[m][3] # op.actor
        /\ op.bases[m] # l.fields[m]
        /\ l.fields[m] # op.changes[m]}}

Winners(l, op) == {n \in DOMAIN op.changes : Newer(op.stamp, l.stamps[n])}
TagWinners(l, op) == {t \in op.added \cup op.removed : Newer(op.stamp, l.tagStamps[t])}

\* An upsert or a restore of an entity that is not hidden: last writer wins,
\* field by field and tag by tag.
Written(l, op) ==
    LET resolved == l.resolved \cup op.resolves
        found == {c \in Detected(l, op) : c.id \notin resolved}
        foundIds == {c.id : c \in found}
    IN  [l EXCEPT
           !.known = TRUE,
           !.tombstone = Never,
           !.resolved = resolved,
           !.conflicts = {c \in @ : c.id \notin op.resolves \cup foundIds} \cup found,
           !.fields = [n \in Names |-> IF n \in Winners(l, op) THEN op.changes[n] ELSE @[n]],
           !.stamps = [n \in Names |-> IF n \in Winners(l, op) THEN op.stamp ELSE @[n]],
           !.tags = (@ \cup (op.added \cap TagWinners(l, op))) \ (op.removed \cap TagWinners(l, op)),
           !.tagStamps = [t \in Tags |-> IF t \in TagWinners(l, op) THEN op.stamp ELSE @[t]]]

Duplicate(l, op) == <<op.actor, op.sequence>> \in l.applied

\* apply throws for a sequence that does not grow.
Refuses(l, op) ==
    /\ ~Duplicate(l, op)
    /\ \E a \in l.applied : a[1] = op.actor /\ a[2] >= op.sequence

\* Deletion wins over any operation but a later restore.
Hidden(l, op) ==
    /\ l.tombstone # Never
    /\ ~(op.action = "restore" /\ Newer(op.stamp, l.tombstone))

Apply(l, op) ==
    LET seen == [l EXCEPT !.applied = @ \cup {<<op.actor, op.sequence>>}]
    IN  IF Duplicate(l, op)
        THEN l
        ELSE IF op.action = "delete"
             THEN [seen EXCEPT !.known = TRUE,
                               !.tombstone = IF Newer(op.stamp, @) THEN op.stamp ELSE @]
             ELSE IF Hidden(l, op) THEN seen ELSE Written(seen, op)

ApplyAll(l, ops) ==
    LET after[n \in 0 .. Len(ops)] == IF n = 0 THEN l ELSE Apply(after[n - 1], ops[n])
    IN  after[Len(ops)]

\* Defect: the document is not validated.
BatchFailsUnvalidated(l, ops) ==
    \E i \in DOMAIN ops : Refuses(ApplyAll(l, SubSeq(ops, 1, i - 1)), ops[i])

\* applyBatch stages the operations on a copy of the ledger and throws, leaving
\* the replica as it was, if one is refused or the document they lead to is not
\* valid: an entity without an id is malformed.
BatchFails(l, ops) ==
    \/ \E i \in DOMAIN ops : Refuses(ApplyAll(l, SubSeq(ops, 1, i - 1)), ops[i])
    \/ LET entity == Document(ApplyAll(l, ops)) IN entity.exists /\ entity.fields["id"] = NoValue

-----------------------------------------------------------------------------
(* Devices *)

NoClient == [step |-> "idle", seed |-> NoEntity, ledger |-> EmptyLedger]

At(d, step) == session[d].step = step

\* The entity all devices have when a run begins.
Shared(value) ==
    [exists |-> TRUE, tags |-> {},
     fields |-> [n \in Names |-> IF n \in Fields THEN value ELSE 0]]

Init ==
    /\ now = 0
    /\ \E value \in Values :
          /\ workspace = [d \in Devices |-> Shared(value)]
          /\ baseline = [d \in Devices |-> Shared(value)]
    /\ outbox = [d \in Devices |-> <<>>]
    /\ log = <<>>
    /\ cursor = [d \in Devices |-> [a \in Devices |-> 0]]
    /\ conflicts = [d \in Devices |-> {}]
    /\ session = [d \in Devices |-> NoClient]
    /\ failures = 0

\* Everything a device does to the entity takes a moment of its own.
Touch(d) == now < MaxEdits /\ now' = now + 1
Stamped(d, entity) == [entity EXCEPT !.fields["updatedAt"] = Clock(d)']

\* An edit in the application, while no synchronization runs (WorkspaceSync has
\* the edits during one).
Edited(d, entity) ==
    /\ At(d, "idle")
    /\ Touch(d)
    /\ workspace' = [workspace EXCEPT ![d] = entity]
    /\ UNCHANGED <<baseline, outbox, log, cursor, conflicts, session, failures>>

SetField(d) ==
    /\ workspace[d].exists
    /\ \E f \in Fields, v \in Values :
          /\ workspace[d].fields[f] # v
          /\ Edited(d, Stamped(d, [workspace[d] EXCEPT !.fields[f] = v]))

ToggleTag(d) ==
    /\ workspace[d].exists
    /\ \E t \in Tags :
          Edited(d, Stamped(d, [workspace[d] EXCEPT
              !.tags = IF t \in @ THEN @ \ {t} ELSE @ \cup {t}]))

\* An import that replaces a profile removes what the new one does not have.
Delete(d) == Deletes /\ workspace[d].exists /\ Edited(d, NoEntity)

\* The entity comes back with its id: from a backup or a repeated import.
Recreate(d) ==
    /\ Deletes /\ ~workspace[d].exists
    /\ \E v \in Values : Edited(d, Stamped(d, Shared(v)))

\* The operations of a device the service has accepted.
Accepted(d) == Cardinality({i \in DOMAIN log : log[i].actor = d})

NextSequence(d) == 1 + Len(outbox[d]) + Accepted(d)

\* A new client captures the changes since the baseline, applies them to its own
\* replica and keeps them in the outbox.
Captured(d, entity, resolves) ==
    LET seeded == Seed(baseline[d])
        ops == LocalOperations(seeded, baseline[d], entity, resolves, d, NextSequence(d), Tick(d)')
    IN  /\ At(d, "idle")
        /\ workspace' = [workspace EXCEPT ![d] = entity]
        /\ baseline' = [baseline EXCEPT ![d] = entity]
        /\ outbox' = [outbox EXCEPT ![d] = @ \o ops]
        /\ conflicts' = [conflicts EXCEPT ![d] = {c \in @ : c.id \notin resolves}]
        /\ session' = [session EXCEPT ![d] =
              [step |-> "push", seed |-> baseline[d], ledger |-> ApplyAll(seeded, ops)]]
        /\ UNCHANGED <<log, cursor, failures>>

Capture(d) ==
    /\ UNCHANGED now
    /\ Captured(d, workspace[d], {})

\* resolveConflict: the choice of the user becomes a revision of the entity that
\* is synchronized at once and carries the id of the conflict.
Resolve(d) ==
    \E c \in conflicts[d] :
        /\ workspace[d].exists
        /\ Touch(d)
        /\ \E choice \in {c.existing, c.incoming} :
              Captured(d, Stamped(d, [workspace[d] EXCEPT !.fields[c.id.field] = choice]), {c.id})

Push(d) ==
    /\ At(d, "push")
    /\ log' = log \o outbox[d]
    /\ outbox' = [outbox EXCEPT ![d] = <<>>]
    /\ session' = [session EXCEPT ![d].step = "pull"]
    /\ UNCHANGED <<now, workspace, baseline, cursor, conflicts, failures>>

\* The operations past the cursor, in the order in which the service sends them.
Unseen(d) ==
    LET among[n \in 0 .. Len(log)] ==
            IF n = 0 THEN <<>>
            ELSE IF log[n].sequence > cursor[d][log[n].actor] THEN Append(among[n - 1], log[n])
            ELSE among[n - 1]
    IN  among[Len(log)]

Reached == [a \in Devices |-> Accepted(a)]

Refused(d) ==
    \/ \E i \in DOMAIN Unseen(d) : Ahead(d, Unseen(d)[i].stamp)
    \/ BatchFails(session[d].ledger, Unseen(d))

\* Defect: what others have resolved stays on the list.
PullKeeping(d) ==
    LET l == ApplyAll(session[d].ledger, Unseen(d))
        known == {c.id : c \in conflicts[d]}
    IN  /\ At(d, "pull")
        /\ ~Refused(d)
        /\ session' = [session EXCEPT ![d].step = "commit", ![d].ledger = l]
        /\ cursor' = [cursor EXCEPT ![d] = Reached]
        /\ conflicts' = [conflicts EXCEPT ![d] = @ \cup {c \in l.conflicts : c.id \notin known}]
        /\ UNCHANGED <<now, workspace, baseline, outbox, log, failures>>

\* The conflicts those operations resolve.
Resolved(d) == UNION {Unseen(d)[i].resolves : i \in DOMAIN Unseen(d)}

\* synchronize: what others did is applied as one batch; conflicts they resolved
\* leave the list of the user, new ones join it.
Pull(d) ==
    LET l == ApplyAll(session[d].ledger, Unseen(d))
        kept == {c \in conflicts[d] : c.id \notin Resolved(d)}
        known == {c.id : c \in kept}
    IN  /\ At(d, "pull")
        /\ ~Refused(d)
        /\ session' = [session EXCEPT ![d].step = "commit", ![d].ledger = l]
        /\ cursor' = [cursor EXCEPT ![d] = Reached]
        /\ conflicts' = [conflicts EXCEPT ![d] = kept \cup {c \in l.conflicts : c.id \notin known}]
        /\ UNCHANGED <<now, workspace, baseline, outbox, log, failures>>

PullFails(d) ==
    /\ At(d, "pull")
    /\ Refused(d)
    /\ session' = [session EXCEPT ![d] = NoClient]
    /\ UNCHANGED <<now, workspace, baseline, outbox, log, cursor, conflicts, failures>>

\* The host stores the document of the replica.
Commit(d) ==
    /\ At(d, "commit")
    /\ workspace' = [workspace EXCEPT ![d] = Document(session[d].ledger)]
    /\ baseline' = [baseline EXCEPT ![d] = Document(session[d].ledger)]
    /\ session' = [session EXCEPT ![d] = NoClient]
    /\ UNCHANGED <<now, outbox, log, cursor, conflicts, failures>>

\* The service cannot be reached: what was captured waits in the outbox.
Fail(d) ==
    /\ At(d, "push") \/ At(d, "pull")
    /\ failures < MaxFailures
    /\ failures' = failures + 1
    /\ session' = [session EXCEPT ![d] = NoClient]
    /\ UNCHANGED <<now, workspace, baseline, outbox, log, cursor, conflicts>>

Next ==
    \E d \in Devices :
        \/ SetField(d) \/ ToggleTag(d) \/ Delete(d) \/ Recreate(d)
        \/ Capture(d) \/ Resolve(d)
        \/ Push(d) \/ Pull(d) \/ PullFails(d) \/ Commit(d)
        \/ Fail(d)

Spec == Init /\ [][Next]_vars

-----------------------------------------------------------------------------
(* Properties *)

FieldValues == Values \cup {NoValue} \cup Nat

\* What stores, operations and ledgers hold.
LedgerTypeOK ==
    /\ now \in 0 .. MaxEdits
    /\ \A d \in Devices :
          /\ \A e \in {workspace[d], baseline[d], session[d].seed} :
                /\ \A n \in Names : e.fields[n] \in FieldValues
                /\ e.tags \subseteq Tags
                /\ e.exists => e.fields["id"] # NoValue
          /\ session[d].ledger.tags \subseteq Tags
          /\ cursor[d] \in [Devices -> 0 .. Len(log)]
          /\ \A c \in conflicts[d] : c.existing # c.incoming
    /\ \A i \in DOMAIN log :
          /\ log[i].action = "delete" => DOMAIN log[i].changes = {}
          /\ log[i].added \cap log[i].removed = {}

\* Two replicas made from the same document that have applied the same
\* operations stand for the same document, in whatever order the operations
\* arrived.
ReplicasAgree ==
    \A d, e \in Devices :
        LET r == session[d]
            s == session[e]
        IN  (r.step # "idle" /\ s.step # "idle" /\ r.seed = s.seed
             /\ r.ledger.applied = s.ledger.applied)
            => Document(r.ledger) = Document(s.ledger)

\* What replicas hold has its types, and it does not depend on the order in which
\* they were told (sync-protocol: OperationLedger.apply).
LedgerInv == LedgerTypeOK /\ ReplicasAgree

\* A device does not argue with its user: when it has captured an edit its own
\* replica stands for the edited document, although every value of the baseline
\* has a timestamp the edit must beat.
CaptureKeepsEdits ==
    \A d \in Devices : At(d, "push") => Document(session[d].ledger) = workspace[d]

\* Nobody is asked about a conflict by the synchronization that brings its
\* resolution, in whatever order the operations that raise and resolve it come,
\* unless the entity is deleted.
ResolvedIsSettled ==
    [][\A d \in Devices :
          At(d, "pull") /\ At(d, "commit")' /\ session'[d].ledger.tombstone = Never =>
              {c.id : c \in conflicts'[d]} \cap Resolved(d) = {}]_vars

=============================================================================
