------------------------- MODULE WorkspaceSyncProofs -------------------------
(***************************************************************************)
(* Proofs about the service and the devices that use it, for any number of *)
(* devices, edits and faults, and any quota and retention limits.  First   *)
(* the sync service by itself: it never loses accepted history.  Then      *)
(* WorkspaceSync: the outbox of a device and the service agree on every    *)
(* operation whatever fails and whoever synchronizes at the same time      *)
(* (LogOrder), the devices use the service as SyncService says, and edits  *)
(* reach the outbox.  While they take turns (Orderly), their documents,    *)
(* snapshots and acknowledgements are right about each other, and they     *)
(* implement a replicated set of operations.                               *)
(***************************************************************************)
EXTENDS WorkspaceSync, FiniteSetTheorems, SequenceTheorems, WellFoundedInduction, TLAPS

-----------------------------------------------------------------------------
(* Extremes of sets of naturals as facts about sets, which first-order     *)
(* provers can use: the theorems of NaturalsInduction quantify over        *)
(* predicates, those of WellFoundedInduction about relations do not.       *)

Less == {p \in Nat \X Nat : p[1] < p[2]}

\* Every set of naturals has a least element.
LEMMA LeastNatural ==
    ASSUME NEW T, T \subseteq Nat, T # {}
    PROVE  \E m \in T : \A n \in T : m <= n
<1>1. IsWellFoundedOn(Less, Nat)
  BY NatLessThanWellFounded DEF OpToRel, Less
<1>2. PICK m \in T : \A n \in T : <<n, m>> \notin Less
  BY <1>1, WFMin
<1>3. ASSUME NEW n \in T PROVE m <= n
  <2>1. m \in Nat /\ n \in Nat
    OBVIOUS
  <2>2. ~(n < m)
    BY <1>2, <2>1 DEF Less
  <2> QED
    BY <2>1, <2>2
<1> QED
  BY <1>3

\* A set of naturals with an upper bound has a greatest element.
LEMMA GreatestNatural ==
    ASSUME NEW T, T \subseteq Nat, T # {}, NEW bound \in Nat, \A n \in T : n <= bound
    PROVE  \E m \in T : \A n \in T : m >= n
<1> DEFINE distances == {bound - n : n \in T}
<1>1. distances \subseteq Nat /\ distances # {}
  <2>1. ASSUME NEW n \in T PROVE bound - n \in Nat
    <3>1. n \in Nat /\ n <= bound
      OBVIOUS
    <3> QED
      BY <3>1
  <2> QED
    BY <2>1
<1>2. PICK d \in distances : \A e \in distances : d <= e
  BY <1>1, LeastNatural
<1>3. PICK m \in T : d = bound - m
  OBVIOUS
<1>4. ASSUME NEW n \in T PROVE m >= n
  <2>1. bound - m <= bound - n
    BY <1>2, <1>3
  <2> QED
    BY <2>1
<1> QED
  BY <1>4

(* The inductive invariant.  RetainedSuffix is what the properties need; a  *)
(* compaction step preserves it only if the snapshot it compacts to lies    *)
(* within the log (ClaimsWithinLog), and NoHistoryLost needs the latest     *)
(* snapshot to reach the floor (SnapshotCoversFloor).                       *)
ServiceInv ==
    /\ ServiceTypeOK
    /\ RetainedSuffix
    /\ SnapshotCoversFloor
    /\ ClaimsWithinLog

-----------------------------------------------------------------------------
(* Lemmas about the operators *)

\* Retention keeps a sublist of the manifests and always keeps the newest one.
LEMMA RetainKeepsLatest ==
    ASSUME NEW S, NEW list \in Seq(S), list # <<>>
    PROVE  /\ Retain(list) \in Seq(S)
           /\ Retain(list) # <<>>
           /\ Retain(list)[Len(Retain(list))] = list[Len(list)]
           /\ \A i \in DOMAIN Retain(list) : \E j \in DOMAIN list : Retain(list)[i] = list[j]
<1>1. Len(list) \in Nat \ {0} /\ RetainedManifests \in Nat \ {0}
  BY QuotaAssumption
<1>2. CASE Len(list) <= RetainedManifests
  BY <1>1, <1>2 DEF Retain
<1>3. CASE ~(Len(list) <= RetainedManifests)
  <2> DEFINE first == Len(list) - RetainedManifests + 1
  <2>1. first \in 1 .. Len(list) /\ Retain(list) = SubSeq(list, first, Len(list))
    BY <1>1, <1>3 DEF Retain
  <2>2. /\ SubSeq(list, first, Len(list)) \in Seq(S)
        /\ Len(SubSeq(list, first, Len(list))) = RetainedManifests
        /\ \A i \in 1 .. RetainedManifests :
              SubSeq(list, first, Len(list))[i] = list[first + i - 1]
    BY <1>1, <2>1, SubSeqProperties
  <2>3. \A i \in 1 .. RetainedManifests : first + i - 1 \in 1 .. Len(list)
    BY <1>1, <1>3
  <2>4. Retain(list)[RetainedManifests] = list[Len(list)]
    BY <1>1, <2>1, <2>2
  <2>5. ASSUME NEW i \in DOMAIN Retain(list)
        PROVE  \E j \in DOMAIN list : Retain(list)[i] = list[j]
    <3>1. i \in 1 .. RetainedManifests
      BY <1>1, <2>1, <2>2
    <3>2. first + i - 1 \in DOMAIN list
      BY <3>1, <2>3
    <3> QED
      BY <3>1, <3>2, <2>1, <2>2
  <2>6. Retain(list) \in Seq(S) /\ Len(Retain(list)) = RetainedManifests
    BY <2>1, <2>2
  <2>7. Retain(list) # <<>>
    BY <1>1, <2>6
  <2> QED
    BY <2>4, <2>5, <2>6, <2>7
<1> QED
  BY <1>2, <1>3

\* A batch that extends the log stores exactly the next n sequence numbers, so
\* the stored operations of the actor stay contiguous.
LEMMA PushKeepsSuffix ==
    ASSUME ServiceTypeOK, RetainedSuffix, ClaimsWithinLog,
           NEW d \in Devices, NEW batch, NEW n \in Nat,
           Extends(d, batch, n), Dominates(maxSequence, floor)
    PROVE  operations \cup ({d} \X Fresh(d, batch))
             = UNION {{a} \X (floor[a] + 1 .. [maxSequence EXCEPT ![d] = @ + n][a]) : a \in Devices}
<1> DEFINE new == [maxSequence EXCEPT ![d] = @ + n]
<1>1. Fresh(d, batch) = (maxSequence[d] + 1) .. (maxSequence[d] + n)
  BY DEF Extends
<1>2. \A a \in Devices : maxSequence[a] \in Nat /\ floor[a] \in Nat /\ floor[a] <= maxSequence[a]
  BY DEF ServiceTypeOK, Cursor, Dominates
<1>3. new[d] = maxSequence[d] + n /\ \A a \in Devices \ {d} : new[a] = maxSequence[a]
  BY DEF ServiceTypeOK, Cursor
<1>4. floor[d] + 1 .. new[d] = (floor[d] + 1 .. maxSequence[d]) \cup Fresh(d, batch)
  BY <1>1, <1>2, <1>3
<1> QED
  BY <1>3, <1>4 DEF RetainedSuffix

\* Compaction to a snapshot within the log removes a prefix of every actor's
\* operations: what is left is again the suffix above the new floor.
LEMMA CompactKeepsSuffix ==
    ASSUME ServiceTypeOK, RetainedSuffix,
           NEW through \in Cursor, Dominates(through, floor)
    PROVE  {o \in operations : o[2] > through[o[1]]}
             = UNION {{a} \X (through[a] + 1 .. maxSequence[a]) : a \in Devices}
<1>1. \A a \in Devices : /\ through[a] \in Nat /\ floor[a] \in Nat /\ maxSequence[a] \in Nat
                         /\ floor[a] <= through[a]
  BY DEF ServiceTypeOK, Cursor, Dominates
<1>2. \A a \in Devices : \A s \in Int :
         (s \in floor[a] + 1 .. maxSequence[a] /\ s > through[a])
            <=> s \in through[a] + 1 .. maxSequence[a]
  BY <1>1
<1> QED
  BY <1>1, <1>2 DEF RetainedSuffix

\* The manifests of the table, the latest one among them, carry cursors.
LEMMA ManifestsHaveCursors ==
    ASSUME ServiceTypeOK, NEW i \in DOMAIN manifests
    PROVE  manifests[i] \in Manifest /\ manifests[i].through \in Cursor
<1>1. manifests \in Seq(Manifest)
  BY DEF ServiceTypeOK
<1>2. manifests[i] \in Manifest
  BY <1>1
<1> QED
  BY <1>2 DEF Manifest

\* The latest snapshot is one of those published.
LEMMA LatestIsManifest ==
    ASSUME ServiceTypeOK, manifests # <<>>
    PROVE  /\ Len(manifests) \in DOMAIN manifests
           /\ Latest \in Manifest
           /\ Latest.through \in Cursor
<1>1. manifests \in Seq(Manifest)
  BY DEF ServiceTypeOK
<1>2. Len(manifests) \in DOMAIN manifests
  BY <1>1
<1>3. Latest \in Manifest
  BY <1>1, <1>2 DEF Latest
<1>4. Latest.through \in Cursor
  BY <1>3 DEF Manifest
<1> QED
  BY <1>2, <1>3, <1>4

\* The floor lies within the log: it was a snapshot's cursor.
LEMMA FloorWithinLog ==
    ASSUME ServiceInv
    PROVE  Dominates(maxSequence, floor)
<1> USE DEF ServiceInv
<1>1. CASE floor = NoCursor
  BY <1>1 DEF ServiceTypeOK, Cursor, Dominates, NoCursor
<1>2. CASE floor # NoCursor
  <2>1. /\ manifests # <<>>
        /\ Dominates(Latest.through, floor)
    BY <1>2 DEF SnapshotCoversFloor
  <2>2. Dominates(maxSequence, Latest.through) /\ Latest.through \in Cursor
    BY <2>1, LatestIsManifest DEF ClaimsWithinLog, Latest
  <2> QED
    BY <2>1, <2>2 DEF ServiceTypeOK, Cursor, Dominates
<1> QED
  BY <1>1, <1>2

-----------------------------------------------------------------------------
(* The invariant holds initially *)

\* The invariant holds in a new service.
LEMMA InitEstablishesInv == ServiceInit => ServiceInv
<1> SUFFICES ASSUME ServiceInit PROVE ServiceInv
  OBVIOUS
<1>1. ServiceTypeOK
  BY DEF ServiceInit, ServiceTypeOK, Cursor, NoCursor
<1>2. RetainedSuffix
  BY DEF ServiceInit, RetainedSuffix, NoCursor
<1>3. SnapshotCoversFloor
  BY DEF ServiceInit, SnapshotCoversFloor
<1>4. ClaimsWithinLog
  BY DEF ServiceInit, ClaimsWithinLog, Dominates, NoCursor
<1> QED
  BY <1>1, <1>2, <1>3, <1>4 DEF ServiceInv

-----------------------------------------------------------------------------
(* Every action preserves the invariant *)

\* The compaction at the end of a revocation or an acknowledgement.
LEMMA TryCompactPreserves ==
    ASSUME ServiceInv, NEW devs, NEW acks, TryCompact(devs, acks),
           UNCHANGED <<maxSequence, manifests>>
    PROVE  /\ floor' \in Cursor
           /\ operations' \subseteq Operation
           /\ RetainedSuffix'
           /\ SnapshotCoversFloor'
<1> USE DEF ServiceInv
<1>1. CASE Compactable(devs, acks)
  <2>1. /\ manifests # <<>>
        /\ Latest.through \in Cursor
        /\ Dominates(Latest.through, floor)
    BY <1>1, LatestIsManifest DEF Compactable
  <2>2. /\ floor' = Latest.through
        /\ operations' = {o \in operations : o[2] > Latest.through[o[1]]}
    BY <1>1 DEF TryCompact
  <2>3. floor' \in Cursor /\ operations' \subseteq Operation
    BY <2>1, <2>2 DEF ServiceTypeOK
  <2>4. RetainedSuffix'
    BY <2>1, <2>2, CompactKeepsSuffix DEF RetainedSuffix
  <2>5. SnapshotCoversFloor'
    <3>1. Dominates(Latest.through, Latest.through)
      BY <2>1 DEF Dominates, Cursor
    <3> QED
      BY <2>1, <2>2, <3>1 DEF SnapshotCoversFloor, Latest, Dominates
  <2> QED
    BY <2>3, <2>4, <2>5
<1>2. CASE ~Compactable(devs, acks)
  <2>1. UNCHANGED <<floor, operations, maxSequence, manifests>>
    BY <1>2 DEF TryCompact
  <2> QED
    BY <2>1 DEF ServiceTypeOK, RetainedSuffix, SnapshotCoversFloor, Latest, Dominates
<1> QED
  BY <1>1, <1>2

\* Accounts and devices: enrollment touches only the devices table, deletion
\* empties every table.
LEMMA DeviceStepPreserves ==
    ASSUME ServiceInv, NEW d \in Devices,
           EnrollFirstDevice(d) \/ AddDevice(d) \/ DeleteAccount(d)
    PROVE  ServiceInv'
<1> USE DEF ServiceInv
<1>1. CASE EnrollFirstDevice(d) \/ AddDevice(d)
  <2>1. /\ devices' = [devices EXCEPT ![d] = "active"]
        /\ UNCHANGED <<requests, operations, maxSequence, acknowledged, manifests, floor>>
    BY <1>1 DEF EnrollFirstDevice, AddDevice
  <2>2. ServiceTypeOK'
    BY <2>1 DEF ServiceTypeOK
  <2> QED
    BY <2>1, <2>2 DEF RetainedSuffix, SnapshotCoversFloor, ClaimsWithinLog, Latest, Dominates
<1>2. CASE DeleteAccount(d)
  <2>1. ServiceTypeOK'
    BY <1>2 DEF DeleteAccount, ServiceTypeOK, Cursor, NoCursor
  <2>2. RetainedSuffix'
    BY <1>2 DEF DeleteAccount, RetainedSuffix, NoCursor
  <2>3. SnapshotCoversFloor' /\ ClaimsWithinLog'
    BY <1>2 DEF DeleteAccount, SnapshotCoversFloor, ClaimsWithinLog, Dominates, NoCursor
  <2> QED
    BY <2>1, <2>2, <2>3
<1> QED
  BY <1>1, <1>2

\* Revoking a device keeps the invariant.
LEMMA RevokePreserves ==
    ASSUME ServiceInv, NEW owner \in Devices, NEW d \in Devices, RevokeDevice(owner, d)
    PROVE  ServiceInv'
<1> USE DEF ServiceInv
<1>1. /\ devices' = [devices EXCEPT ![d] = "revoked"]
      /\ TryCompact(devices', acknowledged)
      /\ UNCHANGED <<requests, maxSequence, acknowledged, manifests>>
  BY DEF RevokeDevice
<1>2. /\ floor' \in Cursor
      /\ operations' \subseteq Operation
      /\ RetainedSuffix'
      /\ SnapshotCoversFloor'
  BY <1>1, TryCompactPreserves
<1>3. ServiceTypeOK'
  BY <1>1, <1>2 DEF ServiceTypeOK
<1>4. ClaimsWithinLog'
  BY <1>1 DEF ClaimsWithinLog, Dominates
<1> QED
  BY <1>2, <1>3, <1>4

\* An acknowledgement keeps the invariant.
LEMMA AcknowledgePreserves ==
    ASSUME ServiceInv, NEW d \in Devices, NEW cursor \in Cursors, Acknowledge(d, cursor)
    PROVE  ServiceInv'
<1> USE DEF ServiceInv
<1> DEFINE next == [a \in Devices |-> IF cursor[a] = 0 THEN acknowledged[d][a] ELSE cursor[a]]
<1>1. /\ acknowledged' = [acknowledged EXCEPT ![d] = next]
      /\ TryCompact(devices, acknowledged')
      /\ UNCHANGED <<devices, requests, maxSequence, manifests>>
  BY DEF Acknowledge, Acknowledgeable
<1>2. cursor \in Cursor
  BY CursorAssumption DEF Cursor
<1>3. next \in Cursor /\ Dominates(maxSequence, next)
  <2>1. next \in Cursor
    BY <1>2 DEF ServiceTypeOK, Cursor
  <2>2. \A a \in Devices : cursor[a] # 0 => cursor[a] <= maxSequence[a]
    BY DEF Acknowledge, Acknowledgeable
  <2>3. Dominates(maxSequence, next)
    BY <2>2 DEF ServiceTypeOK, ClaimsWithinLog, Dominates, Cursor
  <2> QED
    BY <2>1, <2>3
<1>4. /\ floor' \in Cursor
      /\ operations' \subseteq Operation
      /\ RetainedSuffix'
      /\ SnapshotCoversFloor'
  BY <1>1, TryCompactPreserves
<1>5. ServiceTypeOK'
  BY <1>1, <1>3, <1>4 DEF ServiceTypeOK
<1>6. ClaimsWithinLog'
  <2>1. \A x \in Devices : Dominates(maxSequence, acknowledged'[x])
    BY <1>1, <1>3 DEF ServiceTypeOK, ClaimsWithinLog
  <2> QED
    BY <1>1, <2>1 DEF ClaimsWithinLog, Dominates
<1> QED
  BY <1>4, <1>5, <1>6

\* A push keeps the invariant.
LEMMA PushPreserves ==
    ASSUME ServiceInv, NEW r \in requests, Push(r)
    PROVE  ServiceInv'
<1> USE DEF ServiceInv
<1> DEFINE d == r.device
           fresh == Fresh(r.device, r.batch)
<1>1. r \in Request /\ d \in Devices /\ r.batch \in Seq(Nat \ {0})
  BY BatchAssumption DEF ServiceTypeOK, Request
<1>2. PICK n \in 0 .. Len(r.batch) :
         /\ Extends(r.device, r.batch, n)
         /\ maxSequence' = [maxSequence EXCEPT ![r.device] = @ + n]
  BY DEF Push, Accepts
<1>3. n \in Nat
  BY <1>1, <1>2
<1>4. /\ operations' = operations \cup ({r.device} \X fresh)
      /\ requests' = requests \ {r}
      /\ UNCHANGED <<devices, acknowledged, manifests, floor>>
  BY DEF Push
<1>5. maxSequence' \in Cursor /\ Dominates(maxSequence', maxSequence)
  BY <1>1, <1>2, <1>3 DEF ServiceTypeOK, Cursor, Dominates
<1>6. fresh \subseteq Nat \ {0}
  BY <1>1 DEF Fresh
<1>7. ServiceTypeOK'
  <2>1. operations' \subseteq Operation
    BY <1>1, <1>4, <1>6 DEF ServiceTypeOK, Operation
  <2> QED
    BY <1>4, <1>5, <2>1 DEF ServiceTypeOK
<1>8. RetainedSuffix'
  BY <1>1, <1>2, <1>3, <1>4, FloorWithinLog, PushKeepsSuffix DEF RetainedSuffix
<1>9. SnapshotCoversFloor'
  BY <1>4 DEF SnapshotCoversFloor, Latest, Dominates
<1>10. ClaimsWithinLog'
  <2>1. \A x \in Devices : Dominates(maxSequence', acknowledged'[x])
    BY <1>4, <1>5 DEF ServiceTypeOK, ClaimsWithinLog, Dominates, Cursor
  <2>2. ASSUME NEW i \in DOMAIN manifests PROVE Dominates(maxSequence', manifests[i].through)
    <3>1. manifests[i].through \in Cursor
      BY ManifestsHaveCursors
    <3> QED
      BY <1>5, <3>1 DEF ServiceTypeOK, ClaimsWithinLog, Dominates, Cursor
  <2> QED
    BY <1>4, <2>1, <2>2 DEF ClaimsWithinLog, Dominates
<1> QED
  BY <1>7, <1>8, <1>9, <1>10

\* Steps that only send or lose requests keep the invariant.
LEMMA RequestStepPreserves ==
    ASSUME ServiceInv,
           requests' \subseteq Request,
           UNCHANGED <<devices, operations, maxSequence, acknowledged, manifests, floor>>
    PROVE  ServiceInv'
BY DEF ServiceInv, ServiceTypeOK, RetainedSuffix, SnapshotCoversFloor, ClaimsWithinLog,
       Latest, Dominates

\* Committing a snapshot keeps the invariant.
LEMMA CommitSnapshotPreserves ==
    ASSUME ServiceInv, NEW d \in Devices, NEW through \in Cursors, NEW body \in Bodies,
           CommitSnapshotManifest(d, through, body)
    PROVE  ServiceInv'
<1> USE DEF ServiceInv
<1> DEFINE new == [through |-> through, body |-> body]
           list == Append(manifests, new)
<1>1. /\ manifests' = Retain(list)
      /\ UNCHANGED <<devices, requests, operations, maxSequence, acknowledged, floor>>
      /\ Committable(through)
  BY DEF CommitSnapshotManifest
<1>2. new \in Manifest /\ through \in Cursor
  BY CursorAssumption DEF Manifest, Cursor
<1>3. /\ list \in Seq(Manifest)
      /\ list # <<>>
      /\ list[Len(list)] = new
      /\ \A j \in DOMAIN list :
            list[j] = new \/ (j \in DOMAIN manifests /\ list[j] = manifests[j])
  <2>1. manifests \in Seq(Manifest)
    BY DEF ServiceTypeOK
  <2>2. /\ list \in Seq(Manifest)
        /\ list # <<>>
        /\ Len(list) = Len(manifests) + 1
        /\ \A j \in 1 .. Len(manifests) : list[j] = manifests[j]
        /\ list[Len(manifests) + 1] = new
    BY <1>2, <2>1, AppendProperties
  <2>3. ASSUME NEW j \in DOMAIN list
        PROVE  list[j] = new \/ (j \in DOMAIN manifests /\ list[j] = manifests[j])
    <3>1. CASE j = Len(manifests) + 1
      BY <2>2, <3>1
    <3>2. CASE j # Len(manifests) + 1
      BY <2>1, <2>2, <2>3, <3>2
    <3> QED
      BY <3>1, <3>2
  <2>4. list[Len(list)] = new
    BY <2>1, <2>2
  <2> HIDE DEF list, new
  <2> QED
    BY <2>2, <2>3, <2>4
<1>4. /\ manifests' \in Seq(Manifest)
      /\ manifests' # <<>>
      /\ Latest' = new
      /\ \A i \in DOMAIN manifests' : \E j \in DOMAIN list : manifests'[i] = list[j]
  BY <1>1, <1>3, RetainKeepsLatest DEF Latest
<1>5. ServiceTypeOK'
  BY <1>1, <1>4 DEF ServiceTypeOK
<1>6. RetainedSuffix'
  BY <1>1 DEF RetainedSuffix
<1>7. SnapshotCoversFloor'
  BY <1>1, <1>4 DEF SnapshotCoversFloor, Committable, Dominates
<1>8. ClaimsWithinLog'
  <2>1. \A x \in Devices : Dominates(maxSequence', acknowledged'[x])
    BY <1>1 DEF ClaimsWithinLog, Dominates
  <2>2. ASSUME NEW i \in DOMAIN manifests' PROVE Dominates(maxSequence, manifests'[i].through)
    BY <1>1, <1>3, <1>4 DEF ClaimsWithinLog, Committable
  <2> QED
    BY <1>1, <2>1, <2>2 DEF ClaimsWithinLog, Dominates
<1> QED
  BY <1>5, <1>6, <1>7, <1>8

\* Every step keeps the invariant.
LEMMA NextPreservesInv == ServiceInv /\ [ServiceNext]_serviceVars => ServiceInv'
<1> SUFFICES ASSUME ServiceInv, [ServiceNext]_serviceVars PROVE ServiceInv'
  OBVIOUS
<1>1. CASE UNCHANGED serviceVars
  BY <1>1, RequestStepPreserves DEF serviceVars, ServiceInv, ServiceTypeOK
<1>2. ASSUME NEW d \in Devices, EnrollFirstDevice(d) \/ RecoverDevice(d) \/ DeleteAccount(d)
      PROVE  ServiceInv'
  BY <1>2, DeviceStepPreserves DEF RecoverDevice
<1>3. ASSUME NEW d \in Devices, NEW x \in Devices, EnrollDevice(d, x)
      PROVE  ServiceInv'
  BY <1>3, DeviceStepPreserves DEF EnrollDevice
<1>4. ASSUME NEW d \in Devices, NEW x \in Devices, RevokeDevice(d, x)
      PROVE  ServiceInv'
  BY <1>4, RevokePreserves
<1>5. ASSUME NEW d \in Devices, NEW batch \in Batches, AuthorizePush(d, batch)
      PROVE  ServiceInv'
  <2>1. [device |-> d, batch |-> batch] \in Request
    BY DEF Request
  <2> QED
    BY <1>5, <2>1, RequestStepPreserves DEF AuthorizePush, ServiceInv, ServiceTypeOK
<1>6. ASSUME NEW d \in Devices, NEW cursor \in Cursors, Acknowledge(d, cursor)
      PROVE  ServiceInv'
  BY <1>6, AcknowledgePreserves
<1>7. ASSUME NEW d \in Devices, NEW through \in Cursors, NEW body \in Bodies,
             CommitSnapshotManifest(d, through, body)
      PROVE  ServiceInv'
  BY <1>7, CommitSnapshotPreserves
<1>8. ASSUME NEW r \in requests, Push(r) PROVE ServiceInv'
  BY <1>8, PushPreserves
<1>9. ASSUME NEW r \in requests, RejectPush(r) PROVE ServiceInv'
  BY <1>9, RequestStepPreserves DEF RejectPush, ServiceInv, ServiceTypeOK
<1>10. CASE ServiceCrash
  BY <1>10, RequestStepPreserves DEF ServiceCrash
<1> QED
  BY <1>1, <1>2, <1>3, <1>4, <1>5, <1>6, <1>7, <1>8, <1>9, <1>10 DEF ServiceNext

-----------------------------------------------------------------------------
(* The theorems *)

\* The inductive invariant holds in every reachable state of the service.
THEOREM ServiceInvariance == ServiceSpec => []ServiceInv
<1>1. ServiceInit => ServiceInv
  BY InitEstablishesInv
<1>2. ServiceInv /\ [ServiceNext]_serviceVars => ServiceInv'
  BY NextPreservesInv
<1> QED
  BY <1>1, <1>2, PTL DEF ServiceSpec

\* Type correctness of the service's tables.
THEOREM TypeCorrectness == ServiceSpec => []ServiceTypeOK
<1>1. ServiceInv => ServiceTypeOK
  BY DEF ServiceInv
<1> QED
  BY <1>1, ServiceInvariance, PTL

\* The operations table is, for every actor, the contiguous run of sequence
\* numbers between the compaction floor and the watermark: push never leaves a
\* hole and tryCompact never removes more than the floor says.
THEOREM OperationsAreSuffix == ServiceSpec => []RetainedSuffix
<1>1. ServiceInv => RetainedSuffix
  BY DEF ServiceInv
<1> QED
  BY <1>1, ServiceInvariance, PTL

\* No accepted operation is ever out of a client's reach: whatever cursor a
\* client asks from, pull serves it directly or sends it to a snapshot from
\* which everything later is still retained.
THEOREM HistoryIsServed == ServiceSpec => []NoHistoryLost
<1>1. ServiceInv => NoHistoryLost
  <2> SUFFICES ASSUME ServiceInv, NEW after \in Cursors
               PROVE  /\ Dominates(after, floor) \/ manifests # <<>>
                      /\ \A a \in Devices :
                            \A s \in (ResumePoint(after)[a] + 1) .. maxSequence[a] :
                                <<a, s>> \in operations
    BY DEF NoHistoryLost
  <2> USE DEF ServiceInv
  <2>1. after \in Cursor /\ floor \in Cursor /\ maxSequence \in Cursor
    BY CursorAssumption DEF ServiceTypeOK, Cursor
  <2>2. CASE Dominates(after, floor)
    <3>1. ResumePoint(after) = after
      BY <2>2 DEF ResumePoint
    <3> QED
      BY <2>1, <2>2, <3>1 DEF RetainedSuffix, Dominates, Cursor
  <2>3. CASE ~Dominates(after, floor)
    <3>1. floor # NoCursor
      BY <2>1, <2>3 DEF Dominates, NoCursor, Cursor
    <3>2. manifests # <<>> /\ Dominates(Latest.through, floor) /\ Latest.through \in Cursor
      BY <3>1, LatestIsManifest DEF SnapshotCoversFloor
    <3>3. ResumePoint(after) = Latest.through
      BY <2>3 DEF ResumePoint
    <3>4. ASSUME NEW a \in Devices, NEW s \in (Latest.through[a] + 1) .. maxSequence[a]
          PROVE  <<a, s>> \in operations
      <4>1. s \in floor[a] + 1 .. maxSequence[a]
        BY <2>1, <3>2, <3>4 DEF Dominates, Cursor
      <4> QED
        BY <4>1 DEF RetainedSuffix
    <3> QED
      BY <3>2, <3>3, <3>4
  <2> QED
    BY <2>2, <2>3
<1> QED
  BY <1>1, ServiceInvariance, PTL

\* The cursor returned with a page is, for every actor, the effective start or
\* the number of an operation in the page, whichever is the greatest.
LEMMA PageCursorIsReached ==
    ASSUME ServiceInv, NEW after \in Cursor, NEW page, page \subseteq operations, NEW a \in Devices
    PROVE  /\ PageCursor(after, page)[a]
                 \in {EffectiveAfter(after)[a]} \cup {o[2] : o \in {p \in page : p[1] = a}}
           /\ \A s \in {EffectiveAfter(after)[a]} \cup {o[2] : o \in {p \in page : p[1] = a}} :
                 PageCursor(after, page)[a] >= s
<1> DEFINE start == EffectiveAfter(after)[a]
           reached == {start} \cup {o[2] : o \in {p \in page : p[1] = a}}
<1>1. /\ start \in Nat
      /\ maxSequence[a] \in Nat
      /\ EffectiveAfter(after)[a] = IF after[a] >= floor[a] THEN after[a] ELSE floor[a]
  BY DEF ServiceInv, ServiceTypeOK, Cursor, EffectiveAfter
<1>2. ASSUME NEW o \in page, o[1] = a
      PROVE  o[2] \in Nat /\ o[2] <= maxSequence[a]
  <2>1. PICK x \in Devices : o \in {x} \X (floor[x] + 1 .. maxSequence[x])
    BY DEF ServiceInv, RetainedSuffix
  <2>2. floor[x] \in Nat /\ maxSequence[x] \in Nat
    BY DEF ServiceInv, ServiceTypeOK, Cursor
  <2> QED
    BY <1>2, <2>1, <2>2
<1> DEFINE bound == start + maxSequence[a]
<1>3. reached \subseteq Nat /\ reached # {} /\ bound \in Nat /\ \A s \in reached : s <= bound
  BY <1>1, <1>2
<1>4. \E s \in reached : \A t \in reached : s >= t
  <2> HIDE DEF reached, bound
  <2> QED
    BY <1>3, GreatestNatural
<1>5. PageCursor(after, page)[a] = CHOOSE s \in reached : \A t \in reached : s >= t
  BY DEF PageCursor
<1> HIDE DEF reached
<1>6. PageCursor(after, page)[a] \in reached /\ \A s \in reached : PageCursor(after, page)[a] >= s
  BY <1>4, <1>5
<1> QED
  BY <1>6 DEF reached

\* A page holds every operation its cursor moves over.
LEMMA PageLeavesNothing ==
    ASSUME ServiceInv, NEW after \in Cursor, NEW limit, NEW page \in Pages(after, limit), NEW o \in operations,
           o[2] > after[o[1]], o[2] <= PageCursor(after, page)[o[1]]
    PROVE  o \in page
<1> DEFINE a == o[1]
           rows == Candidates(after)
<1>1. /\ page \subseteq rows
      /\ \A p, q \in rows : (p \in page /\ q[1] = p[1] /\ q[2] < p[2]) => q \in page
  BY DEF Pages
<1>2. /\ a \in Devices
      /\ o[2] \in floor[a] + 1 .. maxSequence[a]
      /\ o = <<a, o[2]>>
  BY DEF ServiceInv, RetainedSuffix
<1>3. floor[a] \in Nat /\ maxSequence[a] \in Nat /\ after[a] \in Nat
  BY <1>2 DEF ServiceInv, ServiceTypeOK, Cursor
<1>4. EffectiveAfter(after)[a] = IF after[a] >= floor[a] THEN after[a] ELSE floor[a]
  BY <1>2 DEF EffectiveAfter
<1>5. o[2] > EffectiveAfter(after)[a]
  BY <1>2, <1>3, <1>4
<1>6. o \in rows
  BY <1>5 DEF Candidates
<1>7. page \subseteq operations
  BY <1>1 DEF Candidates
<1>8. PageCursor(after, page)[a]
         \in {EffectiveAfter(after)[a]} \cup {p[2] : p \in {q \in page : q[1] = a}}
  BY <1>2, <1>3, <1>7, PageCursorIsReached
<1>9. PageCursor(after, page)[a] # EffectiveAfter(after)[a]
  BY <1>2, <1>3, <1>4, <1>5
<1>10. PICK p \in page : p[1] = a /\ PageCursor(after, page)[a] = p[2]
  BY <1>8, <1>9
<1>11. p[2] \in floor[a] + 1 .. maxSequence[a] /\ p = <<a, p[2]>>
  BY <1>7, <1>10 DEF ServiceInv, RetainedSuffix
<1>12. CASE o[2] = p[2]
  BY <1>2, <1>11, <1>12
<1>13. CASE o[2] < p[2]
  BY <1>1, <1>6, <1>10, <1>13
<1> QED
  BY <1>2, <1>3, <1>10, <1>11, <1>12, <1>13

\* A client at any cursor catches up: the snapshot it may be sent to reaches the
\* floor, and no page of pull moves its cursor over an operation the page leaves
\* out, whatever the size of the page and the order of arrival.
THEOREM CatchingUp == ServiceSpec => []CatchUpIsComplete
<1>1. ServiceInv => CatchUpIsComplete
  BY PageLeavesNothing, CursorAssumption DEF ServiceInv, CatchUpIsComplete, PullSkipsNothing, Cursor
<1> QED
  BY <1>1, ServiceInvariance, PTL

\* A sequence number is accepted once: only push stores operations, and it
\* stores those above the watermark, which compaction does not lower.
THEOREM SequencesAreFresh == ServiceSpec => SequenceNeverReused
<1>1. ServiceInv /\ [ServiceNext]_serviceVars
        => [\A o \in operations' \ operations : o[2] > maxSequence[o[1]]]_serviceVars
  <2> SUFFICES ASSUME ServiceInv, ServiceNext, NEW o \in operations' \ operations
               PROVE  o[2] > maxSequence[o[1]]
    OBVIOUS
  <2>1. ASSUME NEW r \in requests, Push(r) PROVE o[2] > maxSequence[o[1]]
    <3>1. r.device \in Devices /\ r.batch \in Seq(Nat \ {0})
      BY BatchAssumption DEF ServiceInv, ServiceTypeOK, Request
    <3>2. PICK n \in 0 .. Len(r.batch) : Extends(r.device, r.batch, n)
      BY <2>1 DEF Push, Accepts
    <3>3. o \in {r.device} \X Fresh(r.device, r.batch)
      BY <2>1 DEF Push
    <3>4. o[1] = r.device /\ o[2] \in (maxSequence[r.device] + 1) .. (maxSequence[r.device] + n)
      BY <3>2, <3>3 DEF Extends
    <3>5. maxSequence[r.device] \in Nat /\ n \in Nat
      BY <3>1, <3>2 DEF ServiceInv, ServiceTypeOK, Cursor
    <3> QED
      BY <3>4, <3>5
  <2>2. CASE operations' \subseteq operations
    BY <2>2
  <2>3. \A d, x \in Devices : RevokeDevice(d, x) => operations' \subseteq operations
    BY DEF RevokeDevice, TryCompact
  <2>4. \A d \in Devices, cursor \in Cursors :
           Acknowledge(d, cursor) => operations' \subseteq operations
    BY DEF Acknowledge, Acknowledgeable, TryCompact
  <2>5. \A d, x \in Devices :
           EnrollFirstDevice(d) \/ RecoverDevice(d) \/ EnrollDevice(d, x) \/ DeleteAccount(d)
             => operations' \subseteq operations
    BY DEF EnrollFirstDevice, RecoverDevice, EnrollDevice, AddDevice, DeleteAccount
  <2>6. \A d \in Devices, batch \in Batches, through \in Cursors, body \in Bodies :
           AuthorizePush(d, batch) \/ CommitSnapshotManifest(d, through, body)
             => operations' \subseteq operations
    BY DEF AuthorizePush, CommitSnapshotManifest
  <2>7. (\E r \in requests : RejectPush(r)) \/ ServiceCrash => operations' \subseteq operations
    BY DEF RejectPush, ServiceCrash
  <2> QED
    <3>1. CASE \E r \in requests : Push(r)
      BY <2>1, <3>1
    <3>2. CASE ~\E r \in requests : Push(r)
      <4>1. operations' \subseteq operations
        <5>1. CASE (\E r \in requests : RejectPush(r)) \/ ServiceCrash
          BY <2>7, <5>1
        <5>2. CASE \E d \in Devices, x \in Devices :
                     \/ EnrollFirstDevice(d) \/ RecoverDevice(d) \/ DeleteAccount(d)
                     \/ EnrollDevice(d, x) \/ RevokeDevice(d, x)
          BY <2>3, <2>5, <5>2
        <5>3. CASE \E d \in Devices, cursor \in Cursors : Acknowledge(d, cursor)
          BY <2>4, <5>3
        <5>4. ASSUME NEW d \in Devices, NEW batch \in Batches, AuthorizePush(d, batch)
              PROVE  operations' \subseteq operations
          BY <5>4 DEF AuthorizePush
        <5>5. ASSUME NEW d \in Devices, NEW through \in Cursors, NEW body \in Bodies,
                     CommitSnapshotManifest(d, through, body)
              PROVE  operations' \subseteq operations
          BY <5>5 DEF CommitSnapshotManifest
        <5> QED
          BY <3>2, <5>1, <5>2, <5>3, <5>4, <5>5 DEF ServiceNext
      <4> QED
        BY <4>1
    <3> QED
      BY <3>1, <3>2
<1> QED
  BY <1>1, ServiceInvariance, PTL DEF ServiceSpec, SequenceNeverReused

\* Compaction follows a committed snapshot and the acknowledgements of every
\* device that is active when it happens.
THEOREM CompactionIsAcknowledged == ServiceSpec => CompactionAcknowledged
<1> DEFINE Claim == floor' # floor /\ AccountExists'
              => /\ \E i \in DOMAIN manifests : manifests[i].through = floor'
                 /\ \A d \in Devices :
                       devices'[d] = "active" => Dominates(acknowledged'[d], floor')
<1>1. ASSUME ServiceInv, NEW devs, NEW acks, TryCompact(devs, acks), floor' # floor
      PROVE  /\ \E i \in DOMAIN manifests : manifests[i].through = floor'
             /\ \A d \in Devices : devs[d] = "active" => Dominates(acks[d], floor')
  <2>1. Compactable(devs, acks) /\ floor' = Latest.through
    BY <1>1 DEF TryCompact
  <2>2. Len(manifests) \in DOMAIN manifests
    BY <1>1, <2>1, LatestIsManifest DEF Compactable, ServiceInv
  <2> QED
    BY <2>1, <2>2 DEF Compactable, Latest
<1>2. ServiceInv /\ [ServiceNext]_serviceVars => [Claim]_serviceVars
  <2> SUFFICES ASSUME ServiceInv, ServiceNext, floor' # floor, AccountExists'
               PROVE  Claim
    OBVIOUS
  <2>1. ASSUME NEW d \in Devices, NEW x \in Devices, RevokeDevice(d, x) PROVE Claim
    BY <1>1, <2>1 DEF RevokeDevice
  <2>2. ASSUME NEW d \in Devices, NEW cursor \in Cursors, Acknowledge(d, cursor) PROVE Claim
    BY <1>1, <2>2 DEF Acknowledge, Acknowledgeable
  <2>3. ASSUME NEW d \in Devices, DeleteAccount(d) PROVE FALSE
    BY <2>3 DEF DeleteAccount, AccountExists
  <2>4. ASSUME NEW d \in Devices, NEW x \in Devices,
               EnrollFirstDevice(d) \/ RecoverDevice(d) \/ EnrollDevice(d, x)
        PROVE  FALSE
    BY <2>4 DEF EnrollFirstDevice, RecoverDevice, EnrollDevice, AddDevice
  <2>5. ASSUME NEW d \in Devices, NEW batch \in Batches, AuthorizePush(d, batch) PROVE FALSE
    BY <2>5 DEF AuthorizePush
  <2>6. ASSUME NEW d \in Devices, NEW through \in Cursors, NEW body \in Bodies,
               CommitSnapshotManifest(d, through, body)
        PROVE  FALSE
    BY <2>6 DEF CommitSnapshotManifest
  <2>7. ASSUME NEW r \in requests, Push(r) \/ RejectPush(r) PROVE FALSE
    BY <2>7 DEF Push, RejectPush
  <2>8. ~ServiceCrash
    BY DEF ServiceCrash
  <2> HIDE DEF Claim
  <2> QED
    BY <2>1, <2>2, <2>3, <2>4, <2>5, <2>6, <2>7, <2>8 DEF ServiceNext
<1> QED
  BY <1>2, ServiceInvariance, PTL DEF ServiceSpec, CompactionAcknowledged

-----------------------------------------------------------------------------
(* The outbox of a device and the service *)

\* The service has a cursor and a batch for whatever the devices send.
Served ==
    /\ [Devices -> 0 .. MaxSequence] \subseteq Cursors
    /\ \A low \in 0 .. MaxSequence, n \in 1 .. MaxSequence :
          low + n <= MaxSequence => [i \in 1 .. n |-> low + i] \in Batches

-----------------------------------------------------------------------------
(* The state of a device *)

Ops == Devices \X (1 .. MaxSequence)

Client == [next : 1 .. MaxSequence + 1, flushed : 0 .. MaxSequence, cursor : Cursor, snapshot : BOOLEAN]

Commit == [document : SUBSET Ops, client : Client, received : BOOLEAN]

Config == [linked : BOOLEAN, baseline : SUBSET Ops, client : Client, commits : SUBSET Commit]

Document == [ops : SUBSET Ops, edits : Nat, touched : BOOLEAN, account : BOOLEAN]

Flows == {"none", "create", "recover", "sync", "resume", "startup"}

Sending == {"push", "pushing"}

Pulling == {"pull", "apply"}

Applied == {"upload", "download", "commit", "finish", "acknowledge"}

Session == [step : {"idle"} \cup Sending \cup Pulling \cup Applied, flow : Flows, client : Client,
            first : Nat, working : SUBSET Ops, sent : Nat, reached : Cursor, pending : SUBSET Ops,
            received : BOOLEAN]

Types ==
    /\ workspace \in [Devices -> Document]
    /\ config \in [Devices -> Config]
    /\ session \in [Devices -> Session]
    /\ reverts \subseteq Ops \X Ops

-----------------------------------------------------------------------------
(* The outbox and the service.  What is said of a device is said of its      *)
(* stored configuration c, its synchronization s, the service's watermarks   *)
(* max and what it has acknowledged, ack.                                    *)

\* What a client has sent was accepted and what was accepted is never numbered
\* again; it confirms nothing it has not sent or the service has not got.
InLine(max, ack, d, client) ==
    /\ client.flushed <= max[d] /\ max[d] < client.next
    /\ client.cursor[d] <= client.flushed
    /\ Dominates(client.cursor, ack)
    /\ Dominates(max, client.cursor)

\* The stored configuration, with the client of a pending commit.
ConfigInLine(max, ack, d, c) ==
    /\ c.linked => InLine(max, ack, d, c.client)
    /\ \A commit \in c.commits :
          /\ InLine(max, ack, d, commit.client)
          /\ commit.client.next = c.client.next /\ commit.client.flushed = commit.client.next - 1
    /\ c.commits # {} => c.linked /\ d \notin Mobile

\* The client of a synchronization: it numbers as the stored one does, counts
\* what was sent, and pulls forward.
SessionInLine(max, ack, d, c, s) ==
    /\ s.step # "idle" => c.linked /\ s.client.next = c.client.next /\ InLine(max, ack, d, s.client)
    /\ s.step \in Sending => s.client.flushed + s.sent <= max[d]
    /\ s.step \in Pulling \cup Applied => s.client.flushed = s.client.next - 1
    /\ s.step \in Pulling => Dominates(s.reached, s.client.cursor) /\ Dominates(max, s.reached)
    /\ s.step = "acknowledge" => c.client = s.client /\ c.commits = {}

DeviceInLine(max, ack, d, c, s) == ConfigInLine(max, ack, d, c) /\ SessionInLine(max, ack, d, c, s)

\* The service's records of a device; compaction stays behind what it has sent.
RecordInLine(d) ==
    /\ devices[d] = "absent" =>
          /\ ~config[d].linked /\ config[d].commits = {} /\ At(d, "idle")
          /\ maxSequence[d] = 0 /\ acknowledged[d] = NoCursor
    /\ Active(d) => floor[d] <= acknowledged[d][d]
    /\ maxSequence[d] <= MaxSequence

\* Pushes on the way carry numbers their device has given.
RequestInLine(r) ==
    \A i \in DOMAIN r.batch :
        /\ r.batch[i] <= MaxSequence
        /\ config[r.device].linked => r.batch[i] < config[r.device].client.next

LogOrder ==
    /\ ServiceInv /\ Types
    /\ \A d \in Devices :
          DeviceInLine(maxSequence, acknowledged[d], d, config[d], session[d]) /\ RecordInLine(d)
    /\ \A r \in requests : RequestInLine(r)

-----------------------------------------------------------------------------
(* Lemmas about the records *)

\* The cursors of the service, and those of a client.
LEMMA ServiceTypes ==
    ASSUME ServiceInv
    PROVE  /\ maxSequence \in Cursor /\ floor \in Cursor /\ NoCursor \in Cursor
           /\ \A d \in Devices : maxSequence[d] \in Nat /\ floor[d] \in Nat /\ NoCursor[d] = 0
           /\ \A d \in Devices : acknowledged[d] \in Cursor /\ acknowledged[d][d] \in Nat
           /\ \A d \in Devices : devices[d] \in {"absent", "active", "revoked"}
           /\ MaxSequence \in Nat \ {0} /\ PushLimit \in Nat \ {0} /\ PullLimit \in Nat \ {0}
  BY LimitAssumption DEF ServiceInv, ServiceTypeOK, Cursor, NoCursor

\* The fields of a replica state.
LEMMA ClientTypes ==
    ASSUME NEW client \in Client
    PROVE  /\ client.next \in 1 .. MaxSequence + 1 /\ client.flushed \in 0 .. MaxSequence
           /\ client.cursor \in Cursor /\ client.snapshot \in BOOLEAN
           /\ \A a \in Devices : client.cursor[a] \in Nat
           /\ client.next \in Nat /\ client.next - 1 \in 0 .. MaxSequence /\ client.flushed \in Nat
  BY LimitAssumption DEF Client, Cursor

\* The fields of what a device stores.
LEMMA DeviceTypes ==
    ASSUME Types, NEW d \in Devices
    PROVE  /\ workspace[d] \in Document /\ workspace[d].ops \subseteq Ops /\ workspace[d].edits \in Nat
           /\ workspace[d].touched \in BOOLEAN /\ workspace[d].account \in BOOLEAN
           /\ config[d] \in Config /\ config[d].linked \in BOOLEAN /\ config[d].baseline \subseteq Ops
           /\ config[d].client \in Client
           /\ \A commit \in config[d].commits :
                 /\ commit \in Commit /\ commit.client \in Client
                 /\ commit.document \subseteq Ops /\ commit.received \in BOOLEAN
           /\ session[d] \in Session /\ session[d].client \in Client /\ session[d].flow \in Flows
           /\ session[d].working \subseteq Ops /\ session[d].pending \subseteq Ops
           /\ session[d].sent \in Nat /\ session[d].reached \in Cursor /\ session[d].first \in Nat
           /\ session[d].received \in BOOLEAN
           /\ session[d].step \in {"idle"} \cup Sending \cup Pulling \cup Applied
<1>1. workspace[d] \in Document /\ config[d] \in Config /\ session[d] \in Session
  BY DEF Types
<1>2. /\ workspace[d].ops \subseteq Ops /\ workspace[d].edits \in Nat
      /\ workspace[d].touched \in BOOLEAN /\ workspace[d].account \in BOOLEAN
  BY <1>1 DEF Document
<1>3. /\ config[d].linked \in BOOLEAN /\ config[d].baseline \subseteq Ops
      /\ config[d].client \in Client /\ config[d].commits \subseteq Commit
  BY <1>1 DEF Config
<1>4. \A commit \in Commit : commit.client \in Client /\ commit.document \subseteq Ops /\ commit.received \in BOOLEAN
  BY DEF Commit
<1>5. /\ session[d].client \in Client /\ session[d].flow \in Flows
      /\ session[d].working \subseteq Ops /\ session[d].pending \subseteq Ops
      /\ session[d].sent \in Nat /\ session[d].reached \in Cursor /\ session[d].first \in Nat
      /\ session[d].received \in BOOLEAN
      /\ session[d].step \in {"idle"} \cup Sending \cup Pulling \cup Applied
  BY <1>1 DEF Session
<1> QED
  BY <1>1, <1>2, <1>3, <1>4, <1>5

\* A device that has nothing yet.
LEMMA FreshTypes ==
    /\ NewClient \in Client /\ NewClient.next = 1 /\ NewClient.flushed = 0 /\ NewClient.cursor = NoCursor
    /\ Idle \in Session /\ Idle.step = "idle" /\ Idle.flow = "none" /\ Idle.client = NewClient /\ Idle.sent = 0
    /\ Idle.first = 1 /\ Idle.working = {} /\ Idle.reached = NoCursor /\ Idle.pending = {} /\ Idle.received = FALSE
    /\ NoConfig \in Config /\ NoConfig.linked = FALSE /\ NoConfig.baseline = {} /\ NoConfig.client = NewClient
    /\ NoConfig.commits = {}
    /\ \A d \in Devices :
          /\ NewWorkspace(d) \in Document /\ NewWorkspace(d).ops = {} /\ NewWorkspace(d).edits = 0
          /\ NewWorkspace(d).account = (d = FirstDevice)
<1>1. NoCursor \in Cursor
  BY DEF NoCursor, Cursor
<1>2. /\ NewClient \in Client /\ NewClient.next = 1 /\ NewClient.flushed = 0 /\ NewClient.cursor = NoCursor
  BY <1>1, LimitAssumption DEF NewClient, Client
<1>3. /\ Idle.step = "idle" /\ Idle.flow = "none" /\ Idle.client = NewClient /\ Idle.sent = 0
      /\ Idle.first = 1 /\ Idle.working = {} /\ Idle.reached = NoCursor /\ Idle.pending = {} /\ Idle.received = FALSE
      /\ Idle \in Session
  BY <1>1, <1>2 DEF Idle, Session, Flows
<1>4. /\ NoConfig.linked = FALSE /\ NoConfig.baseline = {} /\ NoConfig.client = NewClient
      /\ NoConfig.commits = {} /\ NoConfig \in Config
  BY <1>2 DEF NoConfig, Config
<1>5. ASSUME NEW d \in Devices
      PROVE  /\ NewWorkspace(d) \in Document /\ NewWorkspace(d).ops = {} /\ NewWorkspace(d).edits = 0
             /\ NewWorkspace(d).account = (d = FirstDevice)
  <2>1. PICK account \in BOOLEAN : account = (d = FirstDevice)
    OBVIOUS
  <2>2. NewWorkspace(d) = [ops |-> {}, edits |-> 0, touched |-> FALSE, account |-> account]
    BY <2>1 DEF NewWorkspace
  <2> QED
    BY <2>1, <2>2 DEF Document
<1> QED
  BY <1>2, <1>3, <1>4, <1>5

\* The next slice of the outbox is a run of numbers, and empty when all was sent.
LEMMA NextBatchIs ==
    ASSUME ServiceInv, Types, NEW d \in Devices,
           NEW low, low = session[d].client.flushed + session[d].sent, low <= session[d].client.next - 1
    PROVE  \E n \in Nat :
              /\ NextBatch(d) = [i \in 1 .. n |-> low + i] /\ NextBatch(d) \in Seq(Nat \ {0})
              /\ Len(NextBatch(d)) = n /\ low + n <= session[d].client.next - 1
              /\ n = 0 <=> low = session[d].client.next - 1
              /\ n = 0 <=> NextBatch(d) = <<>>
<1>1. PICK client \in Client, sent \in Nat : client = session[d].client /\ sent = session[d].sent
  BY DeviceTypes
<1>2. /\ client.next \in Nat \ {0} /\ client.flushed \in Nat /\ PushLimit \in Nat \ {0} /\ low \in Nat
      /\ low = client.flushed + sent /\ low <= client.next - 1
  BY <1>1, ClientTypes, ServiceTypes
<1>3. PICK length \in Nat : length = client.next - 1 - client.flushed
  BY <1>2
<1>4. PICK upto \in Nat : upto = IF sent + PushLimit < length THEN sent + PushLimit ELSE length
  BY <1>2, <1>3
<1>5. PICK n \in Nat : n = upto - sent
  BY <1>2, <1>3, <1>4
<1>6. /\ upto <= length /\ sent <= length
      /\ n = 0 <=> low = client.next - 1
      /\ low + n <= client.next - 1
  BY <1>2, <1>3, <1>4, <1>5
<1>7. PICK outbox \in Seq(Nat \ {0}) :
         outbox = Outbox(client) /\ Len(outbox) = length /\ \A i \in 1 .. length : outbox[i] = client.flushed + i
  <2>1. PICK run : run = [i \in 1 .. length |-> client.flushed + i]
    OBVIOUS
  <2>2. \A i \in 1 .. length : run[i] = client.flushed + i /\ run[i] \in Nat \ {0}
    BY <1>2, <2>1
  <2>3. run \in [1 .. length -> Nat \ {0}]
    BY <2>1, <2>2
  <2>4. run \in Seq(Nat \ {0}) /\ Len(run) = length
    BY <2>3
  <2>5. Outbox(client) = run
    BY <1>3, <2>1 DEF Outbox
  <2> QED
    BY <2>2, <2>4, <2>5
<1>8. NextBatch(d) = SubSeq(outbox, sent + 1, upto)
  BY <1>1, <1>4, <1>7 DEF NextBatch
<1>9. /\ NextBatch(d) \in Seq(Nat \ {0}) /\ Len(NextBatch(d)) = n
      /\ \A i \in 1 .. n : NextBatch(d)[i] = low + i
  <2>1. \A i \in sent + 1 .. upto : i \in 1 .. Len(outbox)
    BY <1>6, <1>7
  <2>2. sent + 1 \in Int /\ upto \in Int
    OBVIOUS
  <2>3. /\ NextBatch(d) \in Seq(Nat \ {0})
        /\ Len(NextBatch(d)) = IF sent + 1 <= upto THEN upto - (sent + 1) + 1 ELSE 0
        /\ \A i \in 1 .. upto - (sent + 1) + 1 : NextBatch(d)[i] = outbox[sent + 1 + i - 1]
    BY <1>7, <1>8, <2>1, <2>2, SubSeqProperties
  <2>4. Len(NextBatch(d)) = n
    BY <1>5, <2>3
  <2>5. ASSUME NEW i \in 1 .. n
        PROVE  NextBatch(d)[i] = low + i
    <3>1. sent + 1 + i - 1 = sent + i /\ sent + i \in 1 .. length /\ i \in 1 .. upto - (sent + 1) + 1
      BY <1>5, <1>6
    <3>2. NextBatch(d)[i] = outbox[sent + i]
      BY <2>3, <3>1
    <3> QED
      BY <1>2, <1>7, <3>1, <3>2
  <2> QED
    BY <2>3, <2>4, <2>5
<1>10. NextBatch(d) = [i \in 1 .. n |-> low + i]
  BY <1>9
<1>11. n = 0 <=> NextBatch(d) = <<>>
  BY <1>9
<1> QED
  BY <1>1, <1>6, <1>9, <1>10, <1>11

-----------------------------------------------------------------------------
(* The outbox and the service: what keeps a device in line *)

\* A client stays in line while the log grows, but not beyond its numbers.
LEMMA StaysInLine ==
    ASSUME NEW max \in Cursor, NEW later \in Cursor, Dominates(later, max), NEW ack \in Cursor,
           NEW d \in Devices, NEW client \in Client, InLine(max, ack, d, client), later[d] < client.next
    PROVE  InLine(later, ack, d, client)
<1>1. \A a \in Devices : max[a] \in Nat /\ later[a] \in Nat /\ later[a] >= max[a]
  BY DEF Cursor, Dominates
<1>2. client.flushed \in Nat /\ \A a \in Devices : client.cursor[a] \in Nat
  BY ClientTypes
<1> QED
  BY <1>1, <1>2 DEF InLine, Dominates

\* So does the device.
LEMMA DeviceStaysInLine ==
    ASSUME NEW max \in Cursor, NEW later \in Cursor, Dominates(later, max), NEW ack \in Cursor,
           NEW d \in Devices, NEW c \in Config, NEW s \in Session, DeviceInLine(max, ack, d, c, s),
           c.linked => later[d] < c.client.next
    PROVE  DeviceInLine(later, ack, d, c, s)
<1>1. /\ c.client \in Client /\ s.client \in Client /\ \A commit \in c.commits : commit.client \in Client
      /\ s.client.flushed \in Nat /\ s.sent \in Nat /\ s.reached \in Cursor
  BY ClientTypes DEF Config, Commit, Session
<1>2. \A a \in Devices : max[a] \in Nat /\ later[a] \in Nat /\ later[a] >= max[a] /\ s.reached[a] \in Nat
  BY <1>1 DEF Cursor, Dominates
<1>3. c.linked => InLine(later, ack, d, c.client)
  BY <1>1, StaysInLine DEF DeviceInLine, ConfigInLine
<1>4. ASSUME NEW commit \in c.commits
      PROVE  /\ InLine(later, ack, d, commit.client)
             /\ commit.client.next = c.client.next /\ commit.client.flushed = commit.client.next - 1
  <2>1. c.linked /\ commit \in Commit /\ commit.client \in Client
    BY <1>1 DEF DeviceInLine, ConfigInLine, Config
  <2> QED
    BY <2>1, StaysInLine DEF DeviceInLine, ConfigInLine
<1>5. ConfigInLine(later, ack, d, c)
  BY <1>3, <1>4 DEF DeviceInLine, ConfigInLine
<1>6. s.step # "idle" => InLine(later, ack, d, s.client)
  BY <1>1, StaysInLine DEF DeviceInLine, SessionInLine
<1>7. s.step \in Sending => s.client.flushed + s.sent <= later[d]
  BY <1>1, <1>2 DEF DeviceInLine, SessionInLine
<1>8. s.step \in Pulling => Dominates(later, s.reached)
  BY <1>1, <1>2 DEF DeviceInLine, SessionInLine, Dominates
<1>9. SessionInLine(later, ack, d, c, s)
  BY <1>6, <1>7, <1>8 DEF DeviceInLine, SessionInLine
<1> QED
  BY <1>5, <1>9 DEF DeviceInLine

\* A crash or the end of a synchronization leaves the stored configuration.
LEMMA StopsInLine ==
    ASSUME NEW max, NEW ack, NEW d, NEW c, NEW s, DeviceInLine(max, ack, d, c, s)
    PROVE  DeviceInLine(max, ack, d, c, Idle)
  BY FreshTypes DEF DeviceInLine, SessionInLine, Sending, Pulling, Applied

\* What a failed synchronization leaves.
Failed(c, s) ==
    IF s.flow = "create" \/ (s.flow = "recover" /\ c.commits = {}) THEN NoConfig
    ELSE IF s.flow \in {"resume", "startup"} THEN c
    ELSE [c EXCEPT !.client = s.client]

\* A failed session is a session.
LEMMA FailedTypes ==
    ASSUME NEW c \in Config, NEW s \in Session
    PROVE  /\ Failed(c, s) \in Config
           /\ Failed(c, s) = NoConfig \/ Failed(c, s) = c
              \/ (Failed(c, s).linked = c.linked /\ Failed(c, s).client = s.client
                  /\ Failed(c, s).commits = c.commits /\ Failed(c, s).baseline = c.baseline)
<1>1. PICK kept : kept = [c EXCEPT !.client = s.client]
  OBVIOUS
<1>2. s.client \in Client
  BY DEF Session
<1>3. kept \in Config /\ kept.linked = c.linked /\ kept.client = s.client /\ kept.commits = c.commits /\ kept.baseline = c.baseline
  BY <1>1, <1>2 DEF Config
<1>4. CASE Failed(c, s) = kept
  BY <1>3, <1>4
<1>5. CASE Failed(c, s) # kept
  BY <1>1, <1>5, FreshTypes DEF Failed
<1> QED
  BY <1>4, <1>5

\* A failed session that was in line with the log still is.
LEMMA FailsInLine ==
    ASSUME NEW max, NEW ack, NEW d, NEW c \in Config, NEW s \in Session,
           DeviceInLine(max, ack, d, c, s), s.step # "idle"
    PROVE  /\ DeviceInLine(max, ack, d, Failed(c, s), Idle)
           /\ Failed(c, s).linked => c.linked /\ Failed(c, s).client.next = c.client.next
<1>1. CASE Failed(c, s) = NoConfig
  BY <1>1, FreshTypes DEF DeviceInLine, ConfigInLine, SessionInLine, Sending, Pulling, Applied
<1>2. CASE Failed(c, s) = c
  BY <1>2, StopsInLine
<1>3. CASE /\ Failed(c, s).linked = c.linked /\ Failed(c, s).client = s.client
           /\ Failed(c, s).commits = c.commits
  <2>1. ConfigInLine(max, ack, d, Failed(c, s))
    BY <1>3 DEF DeviceInLine, ConfigInLine, SessionInLine
  <2>2. SessionInLine(max, ack, d, Failed(c, s), Idle)
    BY FreshTypes DEF SessionInLine, Sending, Pulling, Applied
  <2>3. Failed(c, s).linked => c.linked /\ Failed(c, s).client.next = c.client.next
    BY <1>3 DEF DeviceInLine, SessionInLine
  <2> QED
    BY <2>1, <2>2, <2>3 DEF DeviceInLine
<1> QED
  BY <1>1, <1>2, <1>3, FailedTypes

\* What is known of a device.
LEMMA DeviceFacts ==
    ASSUME LogOrder, NEW d \in Devices
    PROVE  /\ ServiceInv /\ Types /\ config[d] \in Config /\ session[d] \in Session /\ workspace[d] \in Document
           /\ maxSequence \in Cursor /\ acknowledged[d] \in Cursor
           /\ DeviceInLine(maxSequence, acknowledged[d], d, config[d], session[d]) /\ RecordInLine(d)
           /\ config[d].linked => devices[d] # "absent"
           /\ ~At(d, "idle") => config[d].linked /\ devices[d] # "absent"
<1>1. ServiceInv /\ Types
  BY DEF LogOrder
<1>2. DeviceInLine(maxSequence, acknowledged[d], d, config[d], session[d]) /\ RecordInLine(d)
  BY DEF LogOrder
<1>3. config[d] \in Config /\ session[d] \in Session /\ workspace[d] \in Document
  BY <1>1, DeviceTypes
<1>4. maxSequence \in Cursor /\ acknowledged[d] \in Cursor
  BY <1>1, ServiceTypes
<1>5. config[d].linked => devices[d] # "absent"
  BY <1>2 DEF RecordInLine
<1>6. ~At(d, "idle") => config[d].linked /\ devices[d] # "absent"
  BY <1>2 DEF RecordInLine, DeviceInLine, SessionInLine, At
<1> QED
  BY <1>1, <1>2, <1>3, <1>4, <1>5, <1>6

\* A device takes a step of its own after the service has taken one, or not.
LEMMA Moves ==
    ASSUME LogOrder, ServiceInv', Types', NEW d \in Devices, NEW c \in Config, NEW s \in Session,
           config' = [config EXCEPT ![d] = c], session' = [session EXCEPT ![d] = s],
           \A x \in Devices : DeviceInLine(maxSequence', acknowledged'[x], x, config[x], session[x]),
           DeviceInLine(maxSequence', acknowledged'[d], d, c, s),
           \/ c.linked => config[d].linked /\ c.client.next >= config[d].client.next
           \/ \A r \in requests : r.device # d,
           devices'[d] # "absent",
           \A x \in Devices : devices'[x] = "absent" =>
              devices[x] = "absent" /\ maxSequence'[x] = maxSequence[x] /\ acknowledged'[x] = acknowledged[x],
           \A x \in Devices : Active(x)' => floor'[x] <= acknowledged'[x][x],
           \A x \in Devices : maxSequence'[x] <= MaxSequence,
           \A r \in requests' \ requests : RequestInLine(r)'
    PROVE  LogOrder'
<1>1. Types /\ ServiceInv
  BY DEF LogOrder
<1>2. /\ config'[d] = c /\ session'[d] = s
      /\ \A x \in Devices \ {d} : config'[x] = config[x] /\ session'[x] = session[x]
  BY <1>1 DEF Types
<1>3. ASSUME NEW x \in Devices
      PROVE  DeviceInLine(maxSequence', acknowledged'[x], x, config'[x], session'[x])
  BY <1>2
<1>4. ASSUME NEW x \in Devices
      PROVE  RecordInLine(x)'
  <2>1. RecordInLine(x)
    BY DEF LogOrder
  <2> QED
    BY <1>2, <2>1 DEF RecordInLine, At
<1>5. ASSUME NEW r \in requests' PROVE RequestInLine(r)'
  <2>1. CASE r \notin requests
    BY <2>1
  <2>2. CASE r \in requests
    <3>1. RequestInLine(r)
      BY <2>2 DEF LogOrder
    <3>2. r.device \in Devices /\ \A i \in DOMAIN r.batch : r.batch[i] \in Nat
      <4>1. r.device \in Devices /\ r.batch \in Seq(Nat \ {0})
        BY <1>1, <2>2, BatchAssumption DEF ServiceInv, ServiceTypeOK, Request
      <4> QED
        BY <4>1
    <3>3. c.client.next \in Nat /\ config[d].client.next \in Nat
      BY <1>1, DeviceTypes, ClientTypes DEF Config
    <3>4. CASE r.device # d
      BY <1>2, <3>1, <3>2, <3>4 DEF RequestInLine
    <3>5. CASE r.device = d
      BY <1>2, <3>1, <3>2, <3>3, <3>5 DEF RequestInLine
    <3> QED
      BY <3>4, <3>5
  <2> QED
    BY <2>1, <2>2
<1> QED
  BY <1>3, <1>4, <1>5 DEF LogOrder

\* The service has not changed.
LEMMA SameService ==
    ASSUME UNCHANGED serviceVars
    PROVE  /\ devices' = devices /\ requests' = requests /\ operations' = operations
           /\ maxSequence' = maxSequence /\ acknowledged' = acknowledged /\ manifests' = manifests
           /\ floor' = floor
           /\ ServiceInv => ServiceInv'
           /\ \A d \in Devices : Active(d)' <=> Active(d)
<1>1. /\ devices' = devices /\ requests' = requests /\ operations' = operations
      /\ maxSequence' = maxSequence /\ acknowledged' = acknowledged /\ manifests' = manifests
      /\ floor' = floor
  BY DEF serviceVars
<1>2. ServiceInv => ServiceInv'
  BY NextPreservesInv
<1> QED
  BY <1>1, <1>2 DEF Active

\* A device does something of its own.
LEMMA LocalStep ==
    ASSUME LogOrder, UNCHANGED serviceVars, NEW d \in Devices, NEW c \in Config, NEW s \in Session,
           config' = [config EXCEPT ![d] = c], session' = [session EXCEPT ![d] = s],
           workspace' \in [Devices -> Document], reverts' \subseteq Ops \X Ops,
           DeviceInLine(maxSequence, acknowledged[d], d, c, s),
           c.linked => config[d].linked /\ c.client.next >= config[d].client.next,
           devices[d] # "absent"
    PROVE  LogOrder'
<1>1. Types'
  BY DEF LogOrder, Types
<1>2. \A x \in Devices : DeviceInLine(maxSequence, acknowledged[x], x, config[x], session[x]) /\ RecordInLine(x)
  BY DEF LogOrder
<1>3. ServiceInv'
  BY SameService DEF LogOrder
<1> QED
  BY <1>1, <1>2, <1>3, SameService, Moves DEF RecordInLine

\* A device goes on with its synchronization.
LEMMA SessionStep ==
    ASSUME LogOrder, NEW d \in Devices, config[d].linked, NEW s \in Session,
           UNCHANGED <<serviceVars, workspace, config, reverts>>, session' = [session EXCEPT ![d] = s],
           DeviceInLine(maxSequence, acknowledged[d], d, config[d], s)
    PROVE  LogOrder'
<1>1. /\ config[d] \in Config /\ devices[d] # "absent" /\ Types /\ config[d].client.next \in Nat
  BY DeviceFacts, DeviceTypes, ClientTypes
<1>2. config' = [config EXCEPT ![d] = config[d]]
  BY <1>1 DEF Types
<1>3. workspace' \in [Devices -> Document] /\ reverts' \subseteq Ops \X Ops
  BY <1>1 DEF Types
<1>4. UNCHANGED serviceVars
  OBVIOUS
<1>5. config[d].linked => config[d].linked /\ config[d].client.next >= config[d].client.next
  BY <1>1
<1> QED
  BY <1>1, <1>2, <1>3, <1>4, <1>5, LocalStep

\* A synchronization ends.
LEMMA Ends ==
    ASSUME LogOrder, NEW d \in Devices, ~At(d, "idle"),
           UNCHANGED <<serviceVars, workspace, config, reverts>>, session' = [session EXCEPT ![d] = Idle]
    PROVE  LogOrder'
  BY DeviceFacts, StopsInLine, FreshTypes, SessionStep

\* A synchronization fails.
LEMMA FailureIs ==
    ASSUME Types, NEW d \in Devices, Fail(d)
    PROVE  /\ config' = [config EXCEPT ![d] = Failed(config[d], session[d])]
           /\ session' = [session EXCEPT ![d] = Idle]
           /\ workspace' = workspace /\ reverts' = reverts
<1>1. AfterFailure(d) = [config EXCEPT ![d] = Failed(config[d], session[d])]
  BY DEF AfterFailure, Failed, Types
<1> QED
  BY <1>1 DEF Fail

\* A session that fails keeps the log in order.
LEMMA FailKeeps ==
    ASSUME LogOrder, NEW d \in Devices, ~At(d, "idle"), Fail(d), UNCHANGED serviceVars
    PROVE  LogOrder'
<1>1. /\ config' = [config EXCEPT ![d] = Failed(config[d], session[d])]
      /\ session' = [session EXCEPT ![d] = Idle]
      /\ workspace' = workspace /\ reverts' = reverts
  BY FailureIs DEF LogOrder
<1>2. /\ config[d] \in Config /\ session[d] \in Session /\ session[d].step # "idle" /\ devices[d] # "absent"
      /\ DeviceInLine(maxSequence, acknowledged[d], d, config[d], session[d])
      /\ config[d].client.next \in Nat
  BY DeviceFacts, DeviceTypes, ClientTypes DEF At
<1>3. PICK c \in Config : c = Failed(config[d], session[d])
  BY <1>2, FailedTypes
<1>4. /\ DeviceInLine(maxSequence, acknowledged[d], d, c, Idle)
      /\ c.linked => config[d].linked /\ c.client.next = config[d].client.next
  BY <1>2, <1>3, FailsInLine
<1>5. workspace' \in [Devices -> Document] /\ reverts' \subseteq Ops \X Ops
  BY <1>1 DEF LogOrder, Types
<1>6. c.linked => config[d].linked /\ c.client.next >= config[d].client.next
  BY <1>2, <1>4
<1>7. config' = [config EXCEPT ![d] = c] /\ Idle \in Session
  BY <1>1, <1>3, FreshTypes
<1> QED
  BY <1>1, <1>2, <1>4, <1>5, <1>6, <1>7, LocalStep

-----------------------------------------------------------------------------
(* The outbox and the service: what a device does *)

\* An edit of the user keeps the log in order: it reaches no outbox yet.
LEMMA EditKeeps ==
    ASSUME LogOrder, NEW d \in Devices, Edit(d)
    PROVE  LogOrder'
<1>1. /\ Types /\ config[d].linked /\ devices[d] # "absent" /\ config[d] \in Config /\ session[d] \in Session
      /\ DeviceInLine(maxSequence, acknowledged[d], d, config[d], session[d]) /\ config[d].client.next \in Nat
      /\ workspace[d] \in Document /\ workspace[d].edits \in Nat
  BY DeviceFacts, DeviceTypes, ClientTypes DEF Edit
<1>2. PICK document : document = [workspace[d] EXCEPT !.edits = @ + 1]
  OBVIOUS
<1>3. document \in Document
  BY <1>1, <1>2 DEF Document
<1>4. workspace' = [workspace EXCEPT ![d] = document]
  BY <1>2 DEF Edit
<1>5. workspace' \in [Devices -> Document] /\ reverts' \subseteq Ops \X Ops
  BY <1>1, <1>3, <1>4 DEF Types, Edit
<1>6. config' = [config EXCEPT ![d] = config[d]] /\ session' = [session EXCEPT ![d] = session[d]]
  BY <1>1 DEF Types, Edit
<1>7. UNCHANGED serviceVars
  BY DEF Edit
<1>8. config[d].linked => config[d].linked /\ config[d].client.next >= config[d].client.next
  BY <1>1
<1> QED
  BY <1>1, <1>5, <1>6, <1>7, <1>8, LocalStep

\* The captured operations get the next numbers.
Captures(d, last, document, advanced) ==
    /\ last + 1 >= config[d].client.next /\ last <= MaxSequence
    /\ last = config[d].client.next + Captured(d) - 1
    /\ Missing(d) # {} => last \in 1 .. MaxSequence
    /\ document = workspace[d].ops \cup ({d} \X (config[d].client.next .. last))
    /\ advanced.next = last + 1 /\ advanced.flushed = config[d].client.flushed
    /\ advanced.cursor = config[d].client.cursor
    /\ workspace' = [workspace EXCEPT ![d] = [@ EXCEPT !.ops = document, !.edits = 0, !.touched = FALSE]]
    /\ config' = [config EXCEPT ![d] = [@ EXCEPT !.baseline = document, !.client = advanced]]
    /\ session' = [session EXCEPT ![d] =
          [Idle EXCEPT !.step = "push", !.flow = "sync", !.client = advanced,
                       !.first = config[d].client.next, !.working = document]]
    /\ reverts' = reverts \cup ({<<d, last>>} \X Missing(d))
    /\ workspace[d].edits > 0 => Captured(d) = workspace[d].edits

\* What a capture does to the session, field by field.
LEMMA CaptureIs ==
    ASSUME LogOrder, NEW d \in Devices, Capture(d)
    PROVE  \E last \in Nat, document \in SUBSET Ops, advanced \in Client : Captures(d, last, document, advanced)
<1>1. /\ Types /\ config[d].client \in Client /\ config[d].client.next \in Nat \ {0} /\ config[d].client.flushed \in Nat
      /\ workspace[d].ops \subseteq Ops /\ workspace[d].edits \in Nat
  BY DeviceFacts, DeviceTypes, ClientTypes
<1>2. PICK captured \in Nat : captured = Captured(d)
  BY <1>1 DEF Captured
<1>3. PICK last \in Nat : last = config[d].client.next + captured - 1
  BY <1>1
<1>4. last <= MaxSequence /\ last + 1 >= config[d].client.next
  BY <1>1, <1>2, <1>3 DEF Capture
<1>5. PICK advanced : advanced = [config[d].client EXCEPT !.next = last + 1]
  OBVIOUS
<1>6. /\ advanced \in Client /\ advanced.next = last + 1 /\ advanced.flushed = config[d].client.flushed
      /\ advanced.cursor = config[d].client.cursor
  <2>1. last + 1 \in 1 .. MaxSequence + 1
    BY <1>4, LimitAssumption
  <2> QED
    BY <1>1, <1>5, <2>1 DEF Client
<1>7. PICK document : document = workspace[d].ops \cup ({d} \X (config[d].client.next .. last))
  OBVIOUS
<1>8. document \subseteq Ops
  <2>1. config[d].client.next .. last \subseteq 1 .. MaxSequence
    BY <1>1, <1>3, <1>4, LimitAssumption
  <2> QED
    BY <1>1, <1>7, <2>1 DEF Ops
<1>9. /\ workspace' = [workspace EXCEPT ![d] = [@ EXCEPT !.ops = document, !.edits = 0, !.touched = FALSE]]
      /\ config' = [config EXCEPT ![d] = [@ EXCEPT !.baseline = document, !.client = advanced]]
      /\ session' = [session EXCEPT ![d] =
            [Idle EXCEPT !.step = "push", !.flow = "sync", !.client = advanced,
                         !.first = config[d].client.next, !.working = document]]
      /\ reverts' = reverts \cup ({<<d, last>>} \X Missing(d))
  BY <1>2, <1>3, <1>5, <1>7 DEF Capture
<1>10. workspace[d].edits > 0 => Captured(d) = workspace[d].edits
  BY DEF Captured
<1>11. Missing(d) # {} => last \in 1 .. MaxSequence
  <2>1. Missing(d) # {} => captured # 0
    BY <1>1, <1>2 DEF Captured
  <2> QED
    BY <1>1, <1>3, <1>4, <2>1
<1>12. Captures(d, last, document, advanced)
  BY <1>2, <1>3, <1>4, <1>6, <1>7, <1>9, <1>10, <1>11 DEF Captures
<1> QED
  BY <1>6, <1>8, <1>12

\* A capture numbers its operations after those of the outbox.
LEMMA CaptureKeeps ==
    ASSUME LogOrder, NEW d \in Devices, Capture(d)
    PROVE  LogOrder'
<1>1. /\ Types /\ config[d].linked /\ devices[d] # "absent" /\ config[d] \in Config
      /\ DeviceInLine(maxSequence, acknowledged[d], d, config[d], session[d])
      /\ config[d].client.next \in Nat /\ config[d].client.flushed \in Nat /\ config[d].commits = {}
      /\ workspace[d] \in Document /\ maxSequence[d] \in Nat
  BY DeviceFacts, DeviceTypes, ClientTypes, ServiceTypes DEF Capture
<1>2. PICK last \in Nat, document \in SUBSET Ops, advanced \in Client : Captures(d, last, document, advanced)
  BY CaptureIs
<1>3. PICK c : c = [config[d] EXCEPT !.baseline = document, !.client = advanced]
  OBVIOUS
<1>4. c \in Config /\ c.linked /\ c.client = advanced /\ c.commits = {}
  BY <1>1, <1>2, <1>3 DEF Config
<1>5. PICK s : s = [Idle EXCEPT !.step = "push", !.flow = "sync", !.client = advanced,
                                !.first = config[d].client.next, !.working = document]
  OBVIOUS
<1>6. s \in Session /\ s.step = "push" /\ s.client = advanced /\ s.sent = 0
  BY <1>1, <1>2, <1>5, FreshTypes DEF Session, Flows, Sending
<1>7. InLine(maxSequence, acknowledged[d], d, advanced)
  <2>1. InLine(maxSequence, acknowledged[d], d, config[d].client)
    BY <1>1 DEF DeviceInLine, ConfigInLine
  <2> QED
    BY <1>1, <1>2, <2>1 DEF InLine, Captures
<1>8. DeviceInLine(maxSequence, acknowledged[d], d, c, s)
  <2>1. ConfigInLine(maxSequence, acknowledged[d], d, c)
    BY <1>4, <1>7 DEF ConfigInLine
  <2>2. SessionInLine(maxSequence, acknowledged[d], d, c, s)
    BY <1>1, <1>2, <1>4, <1>6, <1>7 DEF SessionInLine, InLine, Sending, Pulling, Applied, Captures
  <2> QED
    BY <2>1, <2>2 DEF DeviceInLine
<1>9. PICK stored : stored = [workspace[d] EXCEPT !.ops = document, !.edits = 0, !.touched = FALSE]
  OBVIOUS
<1>10. stored \in Document /\ workspace' = [workspace EXCEPT ![d] = stored]
  BY <1>1, <1>2, <1>9 DEF Document, Captures
<1>11. workspace' \in [Devices -> Document]
  BY <1>1, <1>10 DEF Types
<1>12. reverts' \subseteq Ops \X Ops
  <2>1. Missing(d) \subseteq Ops
    BY <1>1, DeviceTypes DEF Missing
  <2>2. {<<d, last>>} \X Missing(d) \subseteq Ops \X Ops
    BY <1>2, <2>1 DEF Captures, Ops
  <2> QED
    BY <1>1, <1>2, <2>2 DEF Types, Captures
<1>13. config' = [config EXCEPT ![d] = c] /\ session' = [session EXCEPT ![d] = s]
  BY <1>2, <1>3, <1>5 DEF Captures
<1>14. c.linked => config[d].linked /\ c.client.next >= config[d].client.next
  BY <1>1, <1>2, <1>4 DEF Captures
<1>15. UNCHANGED serviceVars
  BY DEF Capture
<1> QED
  BY <1>1, <1>4, <1>6, <1>8, <1>11, <1>12, <1>13, <1>14, <1>15, LocalStep

\* A pending commit goes on where it was journaled.
LEMMA ResumeCommitKeeps ==
    ASSUME LogOrder, NEW d \in Devices, NEW flow \in {"resume", "startup"}, ResumeCommit(d, flow)
    PROVE  LogOrder'
<1>1. PICK commit \in config[d].commits :
         session' = [session EXCEPT ![d] =
            [Idle EXCEPT !.step = "commit", !.flow = flow, !.client = commit.client,
                         !.working = commit.document, !.received = commit.received]]
  BY DEF ResumeCommit
<1>2. /\ Types /\ config[d].linked /\ config[d] \in Config
      /\ DeviceInLine(maxSequence, acknowledged[d], d, config[d], session[d])
  BY DeviceFacts DEF ResumeCommit
<1>3. commit.client \in Client /\ commit.document \subseteq Ops /\ commit.received \in BOOLEAN
  BY <1>2, DeviceTypes
<1>4. PICK s : s = [Idle EXCEPT !.step = "commit", !.flow = flow, !.client = commit.client,
                                !.working = commit.document, !.received = commit.received]
  OBVIOUS
<1>5. s \in Session /\ s.step = "commit" /\ s.client = commit.client
  BY <1>3, <1>4, FreshTypes DEF Session, Flows, Applied
<1>6. DeviceInLine(maxSequence, acknowledged[d], d, config[d], s)
  <2>1. /\ InLine(maxSequence, acknowledged[d], d, commit.client)
        /\ commit.client.next = config[d].client.next /\ commit.client.flushed = commit.client.next - 1
    BY <1>2 DEF DeviceInLine, ConfigInLine
  <2> QED
    BY <1>2, <1>5, <2>1 DEF DeviceInLine, SessionInLine, Sending, Pulling, Applied
<1>7. UNCHANGED <<serviceVars, workspace, config, reverts>> /\ session' = [session EXCEPT ![d] = s]
  BY <1>1, <1>4 DEF ResumeCommit
<1> QED
  BY <1>2, <1>5, <1>6, <1>7, SessionStep

\* The outbox is emptied when all of it was sent.
LEMMA EmptyOutboxKeeps ==
    ASSUME LogOrder, NEW d \in Devices, EmptyOutbox(d)
    PROVE  LogOrder'
<1>1. /\ ServiceInv /\ Types /\ config[d].linked /\ config[d] \in Config /\ session[d] \in Session
      /\ DeviceInLine(maxSequence, acknowledged[d], d, config[d], session[d]) /\ At(d, "push")
      /\ maxSequence[d] \in Nat /\ maxSequence \in Cursor /\ session[d].step = "push"
  BY DeviceFacts, ServiceTypes DEF EmptyOutbox, At
<1>2. PICK client \in Client, sent \in Nat : client = session[d].client /\ sent = session[d].sent
  BY <1>1, DeviceTypes
<1>3. /\ client.next \in Nat /\ client.flushed \in Nat /\ client.cursor \in Cursor
      /\ client.next - 1 \in 0 .. MaxSequence /\ \A a \in Devices : client.cursor[a] \in Nat
  BY <1>2, ClientTypes
<1>4. /\ InLine(maxSequence, acknowledged[d], d, client) /\ client.flushed + sent <= maxSequence[d]
      /\ client.next = config[d].client.next
  BY <1>1, <1>2 DEF DeviceInLine, SessionInLine, Sending
<1>5. PICK low \in Nat : low = client.flushed + sent
  BY <1>3
<1>6. low = client.next - 1
  <2>1. low <= client.next - 1
    BY <1>1, <1>3, <1>4, <1>5 DEF InLine
  <2>2. NextBatch(d) = <<>>
    BY DEF EmptyOutbox
  <2> QED
    BY <1>1, <1>2, <1>5, <2>1, <2>2, NextBatchIs
<1>7. PICK emptied : emptied = [client EXCEPT !.flushed = low]
  OBVIOUS
<1>8. emptied \in Client /\ emptied.next = client.next /\ emptied.flushed = client.next - 1 /\ emptied.cursor = client.cursor
  BY <1>3, <1>6, <1>7 DEF Client
<1>9. PICK s : s = [session[d] EXCEPT !.step = "pull", !.client = emptied, !.reached = client.cursor]
  OBVIOUS
<1>10. s \in Session /\ s.step = "pull" /\ s.client = emptied /\ s.reached = client.cursor
  BY <1>1, <1>3, <1>8, <1>9 DEF Session, Pulling
<1>11. InLine(maxSequence, acknowledged[d], d, emptied)
  BY <1>1, <1>3, <1>4, <1>5, <1>6, <1>8 DEF InLine
<1>12. Dominates(s.reached, emptied.cursor) /\ Dominates(maxSequence, s.reached)
  BY <1>3, <1>4, <1>8, <1>10 DEF InLine, Dominates
<1>13. DeviceInLine(maxSequence, acknowledged[d], d, config[d], s)
  BY <1>1, <1>4, <1>8, <1>10, <1>11, <1>12 DEF DeviceInLine, SessionInLine, Sending, Pulling, Applied
<1>14. UNCHANGED <<serviceVars, workspace, config, reverts>> /\ session' = [session EXCEPT ![d] = s]
  BY <1>2, <1>5, <1>7, <1>9 DEF EmptyOutbox
<1> QED
  BY <1>1, <1>10, <1>13, <1>14, SessionStep

\* The larger of two numbers.
LEMMA LargerOf ==
    ASSUME NEW m \in Nat, NEW n \in Nat
    PROVE  Max({m, n}) \in {m, n} /\ Max({m, n}) >= m /\ Max({m, n}) >= n
<1>1. PICK larger \in {m, n} : larger >= m /\ larger >= n
  OBVIOUS
<1>2. \A x \in {m, n} : x \in Nat
  OBVIOUS
<1>3. \E x \in {m, n} : \A y \in {m, n} : x >= y
  BY <1>1
<1> QED
  BY <1>2, <1>3 DEF Max

\* A page moves the cursor forward, from where a bootstrap puts it, within what
\* the service has accepted.
Pulls(d, page, from, to, s) ==
    LET boot == Bootstraps(session[d].reached) IN
    /\ page \in Pages(session[d].reached, PullLimit)
    /\ from = IF boot THEN Latest.through ELSE session[d].reached
    /\ Dominates(maxSequence, from) /\ Dominates(maxSequence, to)
    /\ Dominates(to, from) /\ Dominates(to, session[d].reached)
    /\ \A a \in Devices : to[a] = Max({from[a], PageCursor(session[d].reached, page)[a]})
    /\ s.step = IF Cardinality(page) < PullLimit THEN "apply" ELSE "pull"
    /\ s.working = IF boot THEN Latest.body ELSE session[d].working
    /\ s.first = IF boot THEN session[d].client.next ELSE session[d].first
    /\ s.pending = Pulled(session[d], boot, {o \in page : o[2] > from[o[1]]})
    /\ s.received <=> session[d].received \/ {o \in page : o[2] > from[o[1]]} # {}
    /\ s.reached = to /\ s.client = session[d].client /\ s.flow = session[d].flow
    /\ session' = [session EXCEPT ![d] = s]

\* The cursor that comes with a page is between the one asked from and the log.
LEMMA PageCursorInLog ==
    ASSUME ServiceInv, NEW after \in Cursor, Dominates(maxSequence, after),
           NEW page, page \subseteq operations, NEW a \in Devices
    PROVE  /\ PageCursor(after, page)[a] \in Nat
           /\ after[a] <= PageCursor(after, page)[a] /\ PageCursor(after, page)[a] <= maxSequence[a]
<1>1. /\ after[a] \in Nat /\ floor[a] \in Nat /\ maxSequence[a] \in Nat
      /\ floor[a] <= maxSequence[a] /\ after[a] <= maxSequence[a]
  BY ServiceTypes, FloorWithinLog DEF Cursor, Dominates
<1>2. PICK start \in Nat : start = EffectiveAfter(after)[a] /\ after[a] <= start /\ start <= maxSequence[a]
  <2>1. EffectiveAfter(after)[a] = IF after[a] >= floor[a] THEN after[a] ELSE floor[a]
    BY DEF EffectiveAfter
  <2> QED
    BY <1>1, <2>1
<1>3. ASSUME NEW o \in page, o[1] = a
      PROVE  o[2] \in Nat /\ o[2] <= maxSequence[a]
  <2>1. PICK x \in Devices : o \in {x} \X (floor[x] + 1 .. maxSequence[x])
    BY DEF ServiceInv, RetainedSuffix
  <2> QED
    BY <1>1, <1>3, <2>1
<1>4. /\ PageCursor(after, page)[a] \in {start} \cup {o[2] : o \in {p \in page : p[1] = a}}
      /\ PageCursor(after, page)[a] >= start
  BY <1>2, PageCursorIsReached
<1> QED
  BY <1>1, <1>2, <1>3, <1>4

\* Retained operations are operations of the devices.
LEMMA OperationsAreOps ==
    ASSUME LogOrder
    PROVE  operations \subseteq Ops
<1> SUFFICES ASSUME NEW o \in operations PROVE o \in Ops
  OBVIOUS
<1>1. PICK a \in Devices : o \in {a} \X (floor[a] + 1 .. maxSequence[a])
  BY DEF LogOrder, ServiceInv, RetainedSuffix
<1>2. floor[a] \in Nat /\ maxSequence[a] \in Nat /\ maxSequence[a] <= MaxSequence /\ MaxSequence \in Nat
  BY ServiceTypes, DeviceFacts DEF RecordInLine
<1> QED
  BY <1>1, <1>2 DEF Ops

\* What a pulled page does to the session, field by field.
LEMMA PullIs ==
    ASSUME LogOrder, NEW d \in Devices, PullPage(d)
    PROVE  \E page \in SUBSET operations, from \in Cursor, to \in Cursor, s \in Session : Pulls(d, page, from, to, s)
<1>1. /\ ServiceInv /\ Types /\ session[d] \in Session /\ session[d].reached \in Cursor
      /\ Dominates(maxSequence, session[d].reached) /\ session[d].client \in Client
      /\ session[d].client.next \in Nat /\ maxSequence \in Cursor
  <2>1. session[d].step \in Pulling
    BY DEF PullPage, At, Pulling
  <2> QED
    BY <2>1, DeviceFacts, DeviceTypes, ClientTypes DEF DeviceInLine, SessionInLine
<1>2. PICK boot \in BOOLEAN : boot = Bootstraps(session[d].reached)
  BY Zenon DEF Bootstraps
<1>3. boot => /\ Latest.through \in Cursor /\ Latest.body \subseteq Ops /\ Dominates(maxSequence, Latest.through)
  <2>1. ASSUME boot PROVE manifests # <<>>
    BY <1>2, <2>1 DEF Bootstraps
  <2>2. ASSUME boot
        PROVE  Latest \in Manifest /\ Latest.through \in Cursor /\ Len(manifests) \in DOMAIN manifests
    BY <1>1, <2>1, <2>2, LatestIsManifest DEF ServiceInv
  <2>3. ASSUME boot PROVE Dominates(maxSequence, Latest.through)
    BY <1>1, <2>2, <2>3 DEF ServiceInv, ClaimsWithinLog, Latest
  <2>4. ASSUME boot PROVE Latest.body \subseteq Ops
    BY <2>2, <2>4, BodyAssumption DEF Manifest, Ops
  <2> QED
    BY <2>2, <2>3, <2>4
<1>4. PICK from \in Cursor :
         /\ from = IF Bootstraps(session[d].reached) THEN Latest.through ELSE session[d].reached
         /\ Dominates(maxSequence, from)
  BY <1>1, <1>2, <1>3
<1>5. PICK page \in Pages(session[d].reached, PullLimit) :
        LET s == session[d]
            start == IF Bootstraps(s.reached) THEN Latest.through ELSE s.reached
            news == {o \in page : o[2] > start[o[1]]}
            pageTo == PageCursor(s.reached, page)
        IN  session' = [session EXCEPT ![d] =
              [s EXCEPT !.step = IF Cardinality(page) < PullLimit THEN "apply" ELSE "pull",
                        !.working = IF Bootstraps(s.reached) THEN Latest.body ELSE s.working,
                        !.first = IF Bootstraps(s.reached) THEN s.client.next ELSE s.first,
                        !.pending = Pulled(s, Bootstraps(s.reached), news),
                        !.received = s.received \/ news # {},
                        !.reached = [a \in Devices |-> Max({start[a], pageTo[a]})]]]
  BY Zenon DEF PullPage
<1>6. page \subseteq operations
  BY DEF Pages, Candidates
<1>7. PICK to :
         /\ to = [a \in Devices |->
               Max({(IF Bootstraps(session[d].reached) THEN Latest.through ELSE session[d].reached)[a],
                    PageCursor(session[d].reached, page)[a]})]
         /\ to = [a \in Devices |-> Max({from[a], PageCursor(session[d].reached, page)[a]})]
  BY <1>4
<1>8. ASSUME NEW a \in Devices
      PROVE  /\ to[a] \in Nat /\ to[a] >= from[a] /\ to[a] >= session[d].reached[a] /\ to[a] <= maxSequence[a]
             /\ to[a] = Max({from[a], PageCursor(session[d].reached, page)[a]})
  <2>1. PICK n \in Nat : n = PageCursor(session[d].reached, page)[a] /\ session[d].reached[a] <= n /\ n <= maxSequence[a]
    BY <1>1, <1>6, PageCursorInLog
  <2>2. PICK m \in Nat : m = from[a] /\ m <= maxSequence[a]
    BY <1>1, <1>4 DEF Cursor, Dominates
  <2>3. session[d].reached[a] \in Nat /\ maxSequence[a] \in Nat
    BY <1>1 DEF Cursor
  <2>4. to[a] = Max({m, n})
    BY <1>7, <2>1, <2>2
  <2> QED
    BY <2>1, <2>2, <2>3, <2>4, LargerOf
<1>9. to \in Cursor /\ Dominates(to, from) /\ Dominates(to, session[d].reached) /\ Dominates(maxSequence, to)
  <2>1. to \in [Devices -> Nat]
    BY <1>7, <1>8
  <2>2. \A a \in Devices : from[a] \in Nat /\ session[d].reached[a] \in Nat /\ maxSequence[a] \in Nat
    BY <1>1, <1>4 DEF Cursor
  <2> QED
    BY <1>8, <2>1, <2>2 DEF Cursor, Dominates
<1>10. PICK news :
         /\ news = {o \in page :
               o[2] > (IF Bootstraps(session[d].reached) THEN Latest.through ELSE session[d].reached)[o[1]]}
         /\ news = {o \in page : o[2] > from[o[1]]}
  BY <1>4
<1>11. news \subseteq Ops
  BY <1>6, <1>10, OperationsAreOps
<1>12. PICK step \in {"apply", "pull"} : step = IF Cardinality(page) < PullLimit THEN "apply" ELSE "pull"
  OBVIOUS
<1>13. PICK working \in SUBSET Ops :
          working = IF Bootstraps(session[d].reached) THEN Latest.body ELSE session[d].working
  BY <1>1, <1>2, <1>3, DeviceTypes
<1>14. PICK first \in Nat : first = IF Bootstraps(session[d].reached) THEN session[d].client.next ELSE session[d].first
  BY <1>1, DeviceTypes
<1>15. PICK pending \in SUBSET Ops : pending = Pulled(session[d], Bootstraps(session[d].reached), news)
  BY <1>1, <1>2, <1>11, DeviceTypes DEF Pulled
<1>16. PICK received \in BOOLEAN : received = (session[d].received \/ news # {})
  BY Zenon
<1>17. PICK s : s = [session[d] EXCEPT !.step = step, !.working = working, !.first = first,
                        !.pending = pending, !.received = received, !.reached = to]
  OBVIOUS
<1>18. /\ s \in Session /\ s.step = step /\ s.working = working /\ s.first = first /\ s.pending = pending
       /\ s.received = received /\ s.reached = to /\ s.client = session[d].client /\ s.flow = session[d].flow
  BY <1>1, <1>9, <1>17 DEF Session, Pulling
<1>19. session' = [session EXCEPT ![d] = s]
  BY <1>5, <1>7, <1>10, <1>12, <1>13, <1>14, <1>15, <1>16, <1>17, Zenon
<1>20. s.received <=> session[d].received \/ {o \in page : o[2] > from[o[1]]} # {}
  BY <1>10, <1>16, <1>18, Zenon
<1>21. Pulls(d, page, from, to, s)
  BY <1>2, <1>4, <1>8, <1>9, <1>10, <1>12, <1>13, <1>14, <1>15, <1>18, <1>19, <1>20 DEF Pulls
<1> QED
  BY <1>6, <1>9, <1>18, <1>21

\* A pulled page moves the cursor along the log.
LEMMA PullKeeps ==
    ASSUME LogOrder, NEW d \in Devices, PullPage(d)
    PROVE  LogOrder'
<1>1. PICK page \in SUBSET operations, from \in Cursor, to \in Cursor, s \in Session : Pulls(d, page, from, to, s)
  BY PullIs
<1>2. /\ config[d].linked /\ session[d].step = "pull" /\ session[d] \in Session
      /\ DeviceInLine(maxSequence, acknowledged[d], d, config[d], session[d])
  BY DeviceFacts DEF PullPage, At
<1>3. s.step \in Pulling /\ s.reached = to /\ s.client = session[d].client /\ Dominates(maxSequence, to)
  BY <1>1 DEF Pulls, Pulling
<1>4. Dominates(to, s.client.cursor)
  <2>1. Dominates(session[d].reached, session[d].client.cursor) /\ Dominates(to, session[d].reached)
    BY <1>1, <1>2 DEF Pulls, DeviceInLine, SessionInLine, Pulling
  <2>2. to \in Cursor /\ session[d].reached \in Cursor /\ session[d].client.cursor \in Cursor
    BY <1>1, <1>2, ClientTypes DEF Session
  <2>3. \A a \in Devices : to[a] \in Nat /\ session[d].reached[a] \in Nat /\ session[d].client.cursor[a] \in Nat
    BY <2>2 DEF Cursor
  <2> QED
    BY <1>3, <2>1, <2>3 DEF Dominates
<1>5. DeviceInLine(maxSequence, acknowledged[d], d, config[d], s)
  BY <1>2, <1>3, <1>4 DEF DeviceInLine, SessionInLine, Sending, Pulling, Applied
<1>6. UNCHANGED <<serviceVars, workspace, config, reverts>> /\ session' = [session EXCEPT ![d] = s]
  BY <1>1 DEF PullPage, Pulls
<1> QED
  BY <1>1, <1>2, <1>5, <1>6, SessionStep

\* What was pulled is in the document, and the cursor says so.
Applies(d, applied, s) ==
    /\ applied.next = session[d].client.next /\ applied.flushed = session[d].client.flushed
    /\ applied.cursor = session[d].reached
    /\ s.step \in {"upload", "download"}
    /\ s.working = Merge(session[d].working, session[d].pending)
    /\ s.client = applied /\ s.flow = session[d].flow /\ s.received = session[d].received
    /\ session' = [session EXCEPT ![d] = s]

\* What applying a batch does to the session, field by field.
LEMMA ApplyIs ==
    ASSUME LogOrder, NEW d \in Devices, ApplyBatch(d)
    PROVE  \E applied \in Client, s \in Session : Applies(d, applied, s)
<1>1. /\ session[d] \in Session /\ session[d].client \in Client /\ session[d].reached \in Cursor
      /\ session[d].working \subseteq Ops /\ session[d].pending \subseteq Ops
  BY DeviceFacts, DeviceTypes
<1>2. PICK applied : applied = [session[d].client EXCEPT !.cursor = session[d].reached]
  OBVIOUS
<1>3. /\ applied \in Client /\ applied.next = session[d].client.next /\ applied.flushed = session[d].client.flushed
      /\ applied.cursor = session[d].reached
  BY <1>1, <1>2 DEF Client
<1>4. PICK step \in {"upload", "download"} :
         step = IF session[d].sent > 0 \/ session[d].received \/ ~session[d].client.snapshot
                THEN "upload" ELSE "download"
  BY Zenon
<1>5. PICK working \in SUBSET Ops : working = Merge(session[d].working, session[d].pending)
  BY <1>1 DEF Merge
<1>6. PICK s : s = [session[d] EXCEPT !.working = working, !.pending = {}, !.client = applied, !.step = step]
  OBVIOUS
<1>7. /\ s \in Session /\ s.step = step /\ s.working = working /\ s.client = applied
      /\ s.flow = session[d].flow /\ s.received = session[d].received
  BY <1>1, <1>3, <1>6 DEF Session, Applied
<1>8. session' = [session EXCEPT ![d] =
         [session[d] EXCEPT
            !.working = Merge(session[d].working, session[d].pending),
            !.pending = {},
            !.client = [session[d].client EXCEPT !.cursor = session[d].reached],
            !.step = IF session[d].sent > 0 \/ session[d].received \/ ~session[d].client.snapshot
                     THEN "upload" ELSE "download"]]
  BY Zenon DEF ApplyBatch
<1>9. session' = [session EXCEPT ![d] = s]
  BY <1>2, <1>4, <1>5, <1>6, <1>8, Zenon
<1> QED
  BY <1>3, <1>4, <1>5, <1>7, <1>9 DEF Applies

\* Applying a batch moves no cursor and no outbox.
LEMMA ApplyKeeps ==
    ASSUME LogOrder, NEW d \in Devices, ApplyBatch(d)
    PROVE  LogOrder'
<1>1. PICK applied \in Client, s \in Session : Applies(d, applied, s)
  BY ApplyIs
<1>2. /\ config[d].linked /\ session[d].step = "apply" /\ session[d] \in Session /\ maxSequence \in Cursor
      /\ DeviceInLine(maxSequence, acknowledged[d], d, config[d], session[d]) /\ acknowledged[d] \in Cursor
  BY DeviceFacts DEF ApplyBatch, At
<1>3. PICK client \in Client, reached \in Cursor : client = session[d].client /\ reached = session[d].reached
  BY <1>2 DEF Session
<1>4. /\ client.flushed = client.next - 1 /\ Dominates(reached, client.cursor) /\ Dominates(maxSequence, reached)
      /\ InLine(maxSequence, acknowledged[d], d, client) /\ client.next = config[d].client.next
  BY <1>2, <1>3 DEF DeviceInLine, SessionInLine, Pulling
<1>5. /\ \A a \in Devices : /\ reached[a] \in Nat /\ client.cursor[a] \in Nat /\ maxSequence[a] \in Nat
                            /\ acknowledged[d][a] \in Nat
      /\ client.next \in Nat
  BY <1>2, <1>3, ClientTypes DEF Cursor
<1>6. /\ applied.next = client.next /\ applied.flushed = client.flushed /\ applied.cursor = reached
      /\ s.step \in Applied /\ s.step \notin Sending /\ s.step \notin Pulling /\ s.step # "acknowledge" /\ s.client = applied
  BY <1>1, <1>3 DEF Applies, Applied, Sending, Pulling
<1>7. InLine(maxSequence, acknowledged[d], d, applied)
  BY <1>4, <1>5, <1>6 DEF InLine, Dominates
<1>8. DeviceInLine(maxSequence, acknowledged[d], d, config[d], s)
  BY <1>2, <1>4, <1>6, <1>7 DEF DeviceInLine, SessionInLine
<1>9. UNCHANGED <<serviceVars, workspace, config, reverts>> /\ session' = [session EXCEPT ![d] = s]
  BY <1>1 DEF ApplyBatch, Applies
<1> QED
  BY <1>1, <1>2, <1>8, <1>9, SessionStep

\* Whatever the reason a synchronization fails for without the service.
LEMMA FailuresKeep ==
    ASSUME LogOrder, NEW d \in Devices,
           ApplyFails(d) \/ UploadFails(d) \/ Unauthorized(d) \/ StepFails(d)
    PROVE  LogOrder'
<1>1. ~At(d, "idle")
  BY DEF ApplyFails, UploadFails, Unauthorized, StepFails, At
<1>2. Fail(d) /\ UNCHANGED serviceVars
  BY DEF ApplyFails, UploadFails, Unauthorized, StepFails
<1> QED
  BY <1>1, <1>2, FailKeeps

\* A synchronization ends without an acknowledgement, or stops.
LEMMA EndingsKeep ==
    ASSUME LogOrder, NEW d \in Devices,
           AcknowledgeRefused(d) \/ AcknowledgeInterrupted(d) \/ Crash(d)
    PROVE  LogOrder'
<1>1. ~At(d, "idle")
  BY DEF AcknowledgeRefused, AcknowledgeInterrupted, Crash, At
<1>2. UNCHANGED <<serviceVars, workspace, config, reverts>> /\ session' = [session EXCEPT ![d] = Idle]
  BY DEF AcknowledgeRefused, AcknowledgeInterrupted, Crash
<1> QED
  BY <1>1, <1>2, Ends

\* The journaled client is the one of the synchronization.
LEMMA JournalKeeps ==
    ASSUME LogOrder, NEW d \in Devices, JournalCommit(d)
    PROVE  LogOrder'
<1>1. /\ Types /\ config[d].linked /\ session[d].step = "download" /\ session[d] \in Session /\ config[d] \in Config
      /\ DeviceInLine(maxSequence, acknowledged[d], d, config[d], session[d]) /\ devices[d] # "absent"
      /\ d \notin Mobile
  BY DeviceFacts DEF JournalCommit, At
<1>2. /\ session[d].client \in Client /\ session[d].working \subseteq Ops /\ session[d].received \in BOOLEAN
      /\ config[d].client.next \in Nat
  BY <1>1, DeviceTypes, ClientTypes
<1>3. PICK commit :
         commit = [document |-> session[d].working, client |-> session[d].client, received |-> session[d].received]
  OBVIOUS
<1>4. commit \in Commit /\ commit.client = session[d].client
  BY <1>2, <1>3 DEF Commit
<1>5. PICK c : c = [config[d] EXCEPT !.commits = {commit}]
  OBVIOUS
<1>6. c \in Config /\ c.linked = config[d].linked /\ c.client = config[d].client /\ c.commits = {commit}
  BY <1>1, <1>4, <1>5 DEF Config
<1>7. PICK s : s = [session[d] EXCEPT !.step = "commit"]
  OBVIOUS
<1>8. s \in Session /\ s.step = "commit" /\ s.client = session[d].client
  BY <1>1, <1>7 DEF Session, Applied
<1>9. /\ session[d].client.next = config[d].client.next /\ InLine(maxSequence, acknowledged[d], d, session[d].client)
      /\ session[d].client.flushed = session[d].client.next - 1
  BY <1>1 DEF DeviceInLine, SessionInLine, Applied
<1>10. DeviceInLine(maxSequence, acknowledged[d], d, c, s)
  BY <1>1, <1>4, <1>6, <1>8, <1>9 DEF DeviceInLine, ConfigInLine, SessionInLine, Applied, Sending, Pulling
<1>11. config' = [config EXCEPT ![d] = c] /\ session' = [session EXCEPT ![d] = s]
  BY <1>3, <1>5, <1>7 DEF JournalCommit
<1>12. workspace' \in [Devices -> Document] /\ reverts' \subseteq Ops \X Ops
  BY <1>1 DEF Types, JournalCommit
<1>13. UNCHANGED serviceVars /\ (c.linked => config[d].linked /\ c.client.next >= config[d].client.next)
  BY <1>2, <1>6 DEF JournalCommit
<1> QED
  BY <1>1, <1>6, <1>8, <1>10, <1>11, <1>12, <1>13, LocalStep

\* The workspace store changes, or not.
LEMMA CommitWorkspaceKeeps ==
    ASSUME LogOrder, NEW d \in Devices, CommitWorkspace(d)
    PROVE  LogOrder'
<1>1. /\ Types /\ config[d].linked /\ session[d].step = "commit" /\ session[d] \in Session /\ config[d] \in Config
      /\ DeviceInLine(maxSequence, acknowledged[d], d, config[d], session[d]) /\ devices[d] # "absent"
      /\ workspace[d] \in Document
  BY DeviceFacts DEF CommitWorkspace, At
<1>2. config[d].client.next \in Nat /\ session[d].working \subseteq Ops /\ workspace[d].ops \subseteq Ops
  BY <1>1, DeviceTypes, ClientTypes
<1>3. Committed(d) \subseteq Ops
  BY <1>2 DEF Committed
<1>4. PICK stored : stored = [workspace[d] EXCEPT !.ops = Committed(d), !.edits = 0, !.touched = TRUE]
  OBVIOUS
<1>5. stored \in Document
  BY <1>1, <1>3, <1>4 DEF Document
<1>6. workspace' = workspace \/ workspace' = [workspace EXCEPT ![d] = stored]
  BY <1>4, Zenon DEF CommitWorkspace
<1>7. workspace' \in [Devices -> Document] /\ reverts' \subseteq Ops \X Ops
  BY <1>1, <1>5, <1>6 DEF Types, CommitWorkspace
<1>8. PICK s : s = [session[d] EXCEPT !.step = "finish"]
  OBVIOUS
<1>9. s \in Session /\ s.step = "finish" /\ s.client = session[d].client
  BY <1>1, <1>8 DEF Session, Applied
<1>10. DeviceInLine(maxSequence, acknowledged[d], d, config[d], s)
  BY <1>1, <1>9 DEF DeviceInLine, SessionInLine, Applied, Sending, Pulling
<1>11. config' = [config EXCEPT ![d] = config[d]] /\ session' = [session EXCEPT ![d] = s]
  BY <1>1, <1>8 DEF CommitWorkspace, Types
<1>12. UNCHANGED serviceVars /\ config[d].client.next >= config[d].client.next
  BY <1>2 DEF CommitWorkspace
<1> QED
  BY <1>1, <1>7, <1>9, <1>10, <1>11, <1>12, LocalStep

\* The configuration takes over the client of the synchronization.
LEMMA TakenOver ==
    ASSUME LogOrder, NEW d \in Devices, session[d].step \in Applied, UNCHANGED serviceVars,
           NEW c \in Config, c.linked = config[d].linked, c.client = session[d].client, c.commits = {},
           config' = [config EXCEPT ![d] = c], session' = [session EXCEPT ![d].step = "acknowledge"],
           workspace' \in [Devices -> Document], reverts' = reverts
    PROVE  LogOrder'
<1>1. /\ Types /\ config[d].linked /\ session[d] \in Session /\ config[d] \in Config
      /\ DeviceInLine(maxSequence, acknowledged[d], d, config[d], session[d]) /\ devices[d] # "absent"
  BY DeviceFacts DEF At, Applied
<1>2. config[d].client.next \in Nat /\ session[d].client \in Client
  BY <1>1, DeviceTypes, ClientTypes
<1>3. PICK s : s = [session[d] EXCEPT !.step = "acknowledge"]
  OBVIOUS
<1>4. s \in Session /\ s.step = "acknowledge" /\ s.client = session[d].client
  BY <1>1, <1>3 DEF Session, Applied
<1>5. /\ session[d].client.next = config[d].client.next /\ InLine(maxSequence, acknowledged[d], d, session[d].client)
      /\ session[d].client.flushed = session[d].client.next - 1
  BY <1>1 DEF DeviceInLine, SessionInLine, Applied
<1>6. DeviceInLine(maxSequence, acknowledged[d], d, c, s)
  BY <1>1, <1>4, <1>5 DEF DeviceInLine, ConfigInLine, SessionInLine, Applied, Sending, Pulling
<1>7. session' = [session EXCEPT ![d] = s]
  BY <1>3
<1>8. reverts' \subseteq Ops \X Ops /\ c.client.next >= config[d].client.next
  BY <1>1, <1>2, <1>5 DEF Types
<1> QED
  BY <1>1, <1>4, <1>6, <1>7, <1>8, LocalStep

\* A session that ends stores a replica in line with the log.
LEMMA FinishKeeps ==
    ASSUME LogOrder, NEW d \in Devices, FinishCommit(d)
    PROVE  LogOrder'
<1>1. /\ Types /\ session[d].step \in Applied /\ config[d] \in Config
      /\ session[d].client \in Client /\ session[d].working \subseteq Ops
  BY DeviceFacts, DeviceTypes DEF FinishCommit, At, Applied
<1>2. PICK c : c = [config[d] EXCEPT !.baseline = session[d].working, !.client = session[d].client, !.commits = {}]
  OBVIOUS
<1>3. c \in Config /\ c.linked = config[d].linked /\ c.client = session[d].client /\ c.commits = {}
  BY <1>1, <1>2 DEF Config
<1>4. config' = [config EXCEPT ![d] = c]
  BY <1>2 DEF FinishCommit
<1>5. /\ UNCHANGED serviceVars /\ session' = [session EXCEPT ![d].step = "acknowledge"]
      /\ workspace' \in [Devices -> Document] /\ reverts' = reverts
  BY <1>1 DEF FinishCommit, Types
<1> QED
  BY <1>1, <1>3, <1>4, <1>5, TakenOver

\* A saved replica is in line with the log.
LEMMA SaveKeeps ==
    ASSUME LogOrder, NEW d \in Devices, SaveWorkspaceAndConfig(d)
    PROVE  LogOrder'
<1>1. /\ Types /\ session[d].step \in Applied /\ config[d] \in Config /\ config[d].commits = {}
      /\ session[d].client \in Client /\ session[d].working \subseteq Ops
  BY DeviceFacts, DeviceTypes DEF SaveWorkspaceAndConfig, At, Applied, DeviceInLine, ConfigInLine
<1>2. PICK c : c = [config[d] EXCEPT !.baseline = session[d].working, !.client = session[d].client]
  OBVIOUS
<1>3. c \in Config /\ c.linked = config[d].linked /\ c.client = session[d].client /\ c.commits = {}
  BY <1>1, <1>2 DEF Config
<1>4. config' = [config EXCEPT ![d] = c]
  BY <1>2 DEF SaveWorkspaceAndConfig
<1>5. PICK stored : stored = [ops |-> session[d].working, edits |-> 0, touched |-> FALSE, account |-> TRUE]
  OBVIOUS
<1>6. stored \in Document /\ workspace' = [workspace EXCEPT ![d] = stored]
  BY <1>1, <1>5 DEF Document, SaveWorkspaceAndConfig
<1>7. /\ UNCHANGED serviceVars /\ session' = [session EXCEPT ![d].step = "acknowledge"]
      /\ workspace' \in [Devices -> Document] /\ reverts' = reverts
  BY <1>1, <1>6 DEF SaveWorkspaceAndConfig, Types
<1> QED
  BY <1>1, <1>3, <1>4, <1>7, TakenOver

\* A save that fails leaves the sequence of the device where it is, although the
\* baseline it stores belongs to another document.
LEMMA SaveFailsKeeps ==
    ASSUME LogOrder, NEW d \in Devices, SaveFails(d)
    PROVE  LogOrder'
<1>1. /\ Types /\ session[d].step = "download" /\ session[d] \in Session /\ config[d] \in Config
      /\ session[d].client \in Client /\ session[d].working \subseteq Ops /\ config[d].commits = {}
      /\ DeviceInLine(maxSequence, acknowledged[d], d, config[d], session[d]) /\ devices[d] # "absent"
      /\ config[d].client.next \in Nat
  BY DeviceFacts, DeviceTypes, ClientTypes DEF SaveFails, At, DeviceInLine, ConfigInLine
<1>2. /\ UNCHANGED <<serviceVars, workspace, reverts>> /\ session' = [session EXCEPT ![d] = Idle]
      /\ workspace' \in [Devices -> Document] /\ reverts' \subseteq Ops \X Ops
  BY <1>1 DEF SaveFails, Types
<1>3. CASE session[d].flow = "sync"
  <2>1. PICK c : c = [config[d] EXCEPT !.baseline = session[d].working, !.client = session[d].client]
    OBVIOUS
  <2>2. c \in Config /\ c.linked = config[d].linked /\ c.client = session[d].client /\ c.commits = {}
    BY <1>1, <2>1 DEF Config
  <2>3. config' = [config EXCEPT ![d] = c]
    BY <1>3, <2>1 DEF SaveFails
  <2>4. session[d].client.next = config[d].client.next /\ InLine(maxSequence, acknowledged[d], d, session[d].client)
    BY <1>1 DEF DeviceInLine, SessionInLine, Applied
  <2>5. DeviceInLine(maxSequence, acknowledged[d], d, c, Idle)
    BY <1>1, <2>2, <2>4, FreshTypes DEF DeviceInLine, ConfigInLine, SessionInLine, Applied, Sending, Pulling
  <2>6. c.client.next >= config[d].client.next
    BY <1>1, <2>2, <2>4
  <2> QED
    BY <1>1, <1>2, <2>2, <2>3, <2>5, <2>6, FreshTypes, LocalStep
<1>4. CASE session[d].flow # "sync"
  <2>1. Fail(d) /\ ~At(d, "idle") /\ UNCHANGED serviceVars
    BY <1>1, <1>4 DEF SaveFails, Fail, At
  <2> QED
    BY <2>1, FailKeeps
<1> QED
  BY <1>3, <1>4

\* Nothing is claimed of a device that forgot its configuration.
LEMMA DisconnectKeeps ==
    ASSUME LogOrder, NEW d \in Devices, Disconnect(d)
    PROVE  LogOrder'
<1>1. /\ Types /\ config[d].linked /\ session[d].step = "idle" /\ session[d] \in Session /\ devices[d] # "absent"
  BY DeviceFacts DEF Disconnect, At
<1>2. DeviceInLine(maxSequence, acknowledged[d], d, NoConfig, session[d])
  BY <1>1, FreshTypes DEF DeviceInLine, ConfigInLine, SessionInLine, Sending, Pulling, Applied
<1>3. config' = [config EXCEPT ![d] = NoConfig] /\ session' = [session EXCEPT ![d] = session[d]]
  BY <1>1 DEF Disconnect, Types
<1>4. workspace' \in [Devices -> Document] /\ reverts' \subseteq Ops \X Ops /\ UNCHANGED serviceVars
  BY <1>1 DEF Disconnect, Types
<1> QED
  BY <1>1, <1>2, <1>3, <1>4, FreshTypes, LocalStep

-----------------------------------------------------------------------------
(* The outbox and the service: what the service does *)

\* A step of the service that keeps every device in line, as it stands.
Serves ==
    /\ ServiceNext /\ requests' \subseteq requests
    /\ \A x \in Devices : DeviceInLine(maxSequence', acknowledged'[x], x, config[x], session[x])
    /\ \A x \in Devices : devices'[x] = "absent" <=> devices[x] = "absent"
    /\ \A x \in Devices : devices[x] = "absent" =>
          maxSequence'[x] = maxSequence[x] /\ acknowledged'[x] = acknowledged[x]
    /\ \A x \in Devices : Active(x)' => floor'[x] <= acknowledged'[x][x]
    /\ \A x \in Devices : maxSequence'[x] <= MaxSequence

\* The devices stay as they are.
LEMMA ServesAlone ==
    ASSUME LogOrder, Serves, UNCHANGED clientVars
    PROVE  LogOrder'
<1>1. workspace' = workspace /\ config' = config /\ session' = session /\ reverts' = reverts
  BY DEF clientVars
<1>2. ServiceInv' /\ Types'
  BY <1>1, NextPreservesInv DEF LogOrder, Types, Serves
<1>3. ASSUME NEW x \in Devices
      PROVE  DeviceInLine(maxSequence', acknowledged'[x], x, config'[x], session'[x]) /\ RecordInLine(x)'
  BY <1>1 DEF LogOrder, Serves, RecordInLine, At
<1>4. ASSUME NEW r \in requests' PROVE RequestInLine(r)'
  BY <1>1 DEF LogOrder, Serves, RequestInLine
<1> QED
  BY <1>2, <1>3, <1>4 DEF LogOrder

\* A device goes on from there.
LEMMA ServesDevice ==
    ASSUME LogOrder, Serves, NEW d \in Devices, devices[d] # "absent", NEW c \in Config, NEW s \in Session,
           config' = [config EXCEPT ![d] = c], session' = [session EXCEPT ![d] = s],
           workspace' \in [Devices -> Document], reverts' \subseteq Ops \X Ops,
           DeviceInLine(maxSequence', acknowledged'[d], d, c, s),
           c.linked => config[d].linked /\ c.client.next >= config[d].client.next
    PROVE  LogOrder'
<1>1. ServiceInv' /\ Types'
  BY NextPreservesInv DEF LogOrder, Types, Serves
<1>2. devices'[d] # "absent" /\ \A r \in requests' \ requests : RequestInLine(r)'
  BY DEF Serves
<1> QED
  BY <1>1, <1>2, Moves DEF Serves

\* Its synchronization fails.
LEMMA ServesFailure ==
    ASSUME LogOrder, Serves, NEW d \in Devices, ~At(d, "idle"), Fail(d)
    PROVE  LogOrder'
<1>1. /\ config' = [config EXCEPT ![d] = Failed(config[d], session[d])]
      /\ session' = [session EXCEPT ![d] = Idle]
      /\ workspace' = workspace /\ reverts' = reverts
  BY FailureIs DEF LogOrder
<1>2. /\ config[d] \in Config /\ session[d] \in Session /\ session[d].step # "idle" /\ devices[d] # "absent"
      /\ DeviceInLine(maxSequence', acknowledged'[d], d, config[d], session[d])
      /\ config[d].client.next \in Nat
  BY DeviceFacts, DeviceTypes, ClientTypes DEF At, Serves
<1>3. PICK c \in Config : c = Failed(config[d], session[d])
  BY <1>2, FailedTypes
<1>4. /\ DeviceInLine(maxSequence', acknowledged'[d], d, c, Idle)
      /\ c.linked => config[d].linked /\ c.client.next = config[d].client.next
  BY <1>2, <1>3, FailsInLine
<1>5. workspace' \in [Devices -> Document] /\ reverts' \subseteq Ops \X Ops
  BY <1>1 DEF LogOrder, Types
<1>6. c.linked => config[d].linked /\ c.client.next >= config[d].client.next
  BY <1>2, <1>4
<1>7. config' = [config EXCEPT ![d] = c] /\ Idle \in Session
  BY <1>1, <1>3, FreshTypes
<1> QED
  BY <1>1, <1>2, <1>4, <1>5, <1>6, <1>7, ServesDevice

\* An accepted push continues what its device has sent.
LEMMA PushServes ==
    ASSUME LogOrder, NEW r \in requests, Push(r)
    PROVE  /\ Serves /\ r.device \in Devices
           /\ \A i \in DOMAIN r.batch : r.batch[i] <= maxSequence'[r.device]
           /\ maxSequence' \in Cursor
           /\ \A x \in Devices \ {r.device} : maxSequence'[x] = maxSequence[x]
           /\ UNCHANGED <<devices, acknowledged, manifests, floor>>
<1>1. /\ ServiceInv /\ maxSequence \in Cursor /\ r.device \in Devices /\ r.batch \in Seq(Nat \ {0})
      /\ \A x \in Devices : maxSequence[x] \in Nat
  BY ServiceTypes, BatchAssumption DEF LogOrder, ServiceInv, ServiceTypeOK, Request
<1>2. PICK n \in Nat :
        /\ Extends(r.device, r.batch, n) /\ devices[r.device] # "absent"
        /\ maxSequence' = [maxSequence EXCEPT ![r.device] = @ + n]
  <2>1. PICK n \in 0 .. Len(r.batch) :
          Accepts(r, n) /\ maxSequence' = [maxSequence EXCEPT ![r.device] = @ + n]
    BY Zenon DEF Push
  <2>2. n \in Nat
    BY <1>1
  <2> QED
    BY <2>1, <2>2 DEF Accepts
<1>3. /\ maxSequence' \in Cursor /\ maxSequence'[r.device] = maxSequence[r.device] + n
      /\ \A x \in Devices \ {r.device} : maxSequence'[x] = maxSequence[x]
      /\ Dominates(maxSequence', maxSequence)
  BY <1>1, <1>2 DEF Cursor, Dominates
<1>4. /\ UNCHANGED <<devices, acknowledged, manifests, floor>> /\ requests' \subseteq requests
      /\ ServiceNext
  BY DEF Push, ServiceNext
<1>5. ASSUME NEW i \in DOMAIN r.batch
      PROVE  r.batch[i] <= maxSequence'[r.device]
  <2>1. PICK number \in Nat : number = r.batch[i]
    BY <1>1
  <2>2. CASE <<r.device, number>> \in operations
    <3>1. PICK x \in Devices : <<r.device, number>> \in {x} \X (floor[x] + 1 .. maxSequence[x])
      BY <1>1, <2>2 DEF ServiceInv, RetainedSuffix
    <3> QED
      BY <1>1, <1>3, <2>1, <3>1, ServiceTypes
  <2>3. CASE <<r.device, number>> \notin operations
    <3>1. number \in Fresh(r.device, r.batch)
      BY <2>1, <2>3 DEF Fresh
    <3> QED
      BY <1>1, <1>2, <1>3, <2>1, <3>1 DEF Extends
  <2> QED
    BY <2>2, <2>3
<1>6. n = 0 \/ \E i \in DOMAIN r.batch : r.batch[i] = maxSequence'[r.device]
  <2>1. n # 0 => maxSequence[r.device] + n \in Fresh(r.device, r.batch)
    BY <1>1, <1>2 DEF Extends
  <2> QED
    BY <1>3, <2>1 DEF Fresh
<1>7. RequestInLine(r)
  BY DEF LogOrder
<1>8. ASSUME NEW x \in Devices
      PROVE  /\ DeviceInLine(maxSequence', acknowledged'[x], x, config[x], session[x])
             /\ maxSequence'[x] <= MaxSequence
  <2>1. /\ config[x] \in Config /\ session[x] \in Session /\ RecordInLine(x) /\ acknowledged[x] \in Cursor
        /\ DeviceInLine(maxSequence, acknowledged[x], x, config[x], session[x])
    BY DeviceFacts
  <2>2. maxSequence'[x] = maxSequence[x] \/ \E i \in DOMAIN r.batch : x = r.device /\ r.batch[i] = maxSequence'[x]
    BY <1>1, <1>3, <1>6
  <2>3. config[x].linked => maxSequence'[x] < config[x].client.next
    BY <1>7, <2>1, <2>2 DEF DeviceInLine, ConfigInLine, InLine, RequestInLine
  <2>4. maxSequence'[x] <= MaxSequence
    BY <1>7, <2>1, <2>2 DEF RecordInLine, RequestInLine
  <2>5. DeviceInLine(maxSequence', acknowledged[x], x, config[x], session[x])
    BY <1>1, <1>3, <2>1, <2>3, DeviceStaysInLine
  <2> QED
    BY <1>4, <2>4, <2>5
<1>9. ASSUME NEW x \in Devices
      PROVE  /\ devices[x] = "absent" => maxSequence'[x] = maxSequence[x] /\ acknowledged'[x] = acknowledged[x]
             /\ Active(x)' => floor'[x] <= acknowledged'[x][x]
  BY <1>2, <1>3, <1>4, DeviceFacts DEF RecordInLine, Active
<1> QED
  BY <1>1, <1>3, <1>4, <1>5, <1>8, <1>9 DEF Serves

\* Steps of the service that leave the log and the acknowledgements.
LEMMA OthersServe ==
    ASSUME LogOrder, ServiceNext, requests' \subseteq requests,
           UNCHANGED <<maxSequence, acknowledged>>,
           \A x \in Devices : devices'[x] = "absent" <=> devices[x] = "absent",
           \A x \in Devices : Active(x)' => floor'[x] <= acknowledged[x][x]
    PROVE  Serves
<1>1. \A x \in Devices : DeviceInLine(maxSequence, acknowledged[x], x, config[x], session[x]) /\ maxSequence[x] <= MaxSequence
  BY DeviceFacts DEF RecordInLine
<1> QED
  BY <1>1 DEF Serves

\* A refused push leaves the service as it was.
LEMMA RejectServes ==
    ASSUME LogOrder, NEW r \in requests, RejectPush(r)
    PROVE  Serves
<1>1. /\ requests' \subseteq requests /\ ServiceNext
      /\ UNCHANGED <<devices, operations, maxSequence, acknowledged, manifests, floor>>
  BY DEF RejectPush, ServiceNext
<1>2. \A x \in Devices : Active(x)' => floor'[x] <= acknowledged[x][x]
  BY <1>1, DeviceFacts DEF RecordInLine, Active
<1> QED
  BY <1>1, <1>2, OthersServe

\* The cursor of a synchronization is one the service can be sent.
LEMMA CursorServed ==
    ASSUME Served, LogOrder, NEW d \in Devices, ~At(d, "idle")
    PROVE  session[d].client.cursor \in Cursors
<1>1. /\ session[d].client \in Client /\ maxSequence \in Cursor /\ MaxSequence \in Nat
      /\ Dominates(maxSequence, session[d].client.cursor) /\ \A a \in Devices : maxSequence[a] <= MaxSequence
  BY DeviceFacts, DeviceTypes, ServiceTypes DEF DeviceInLine, SessionInLine, InLine, At, RecordInLine
<1>2. PICK cursor \in Cursor : cursor = session[d].client.cursor
  BY <1>1, ClientTypes
<1>3. \A a \in Devices : cursor[a] \in 0 .. MaxSequence
  BY <1>1, <1>2 DEF Cursor, Dominates
<1>4. cursor \in [Devices -> 0 .. MaxSequence]
  BY <1>2, <1>3 DEF Cursor
<1> QED
  BY <1>2, <1>4 DEF Served

\* A snapshot request compacts no more than the service allows.
LEMMA SnapshotServes ==
    ASSUME Served, LogOrder, NEW d \in Devices, ~At(d, "idle"),
           CommitSnapshotManifest(d, session[d].client.cursor, session[d].working)
    PROVE  Serves
<1>1. session[d].client.cursor \in Cursors /\ session[d].working \in Bodies
  BY CursorServed, DeviceFacts, DeviceTypes, BodyAssumption DEF Ops
<1>2. /\ ServiceNext /\ UNCHANGED <<devices, requests, operations, maxSequence, acknowledged, floor>>
  BY <1>1 DEF CommitSnapshotManifest, ServiceNext
<1>3. \A x \in Devices : Active(x)' => floor'[x] <= acknowledged[x][x]
  BY <1>2, DeviceFacts DEF RecordInLine, Active
<1> QED
  BY <1>2, <1>3, OthersServe

\* Compaction under acknowledged snapshots stays behind every active device.
LEMMA CompactsBehind ==
    ASSUME ServiceInv, NEW devs, NEW acks \in [Devices -> Cursor], TryCompact(devs, acks),
           NEW x \in Devices, devs[x] = "active", floor[x] <= acks[x][x]
    PROVE  floor'[x] <= acks[x][x]
<1>1. CASE Compactable(devs, acks)
  <2>1. floor' = Latest.through /\ Dominates(acks[x], Latest.through) /\ manifests # <<>>
    BY <1>1 DEF TryCompact, Compactable
  <2>2. Latest.through[x] \in Nat /\ acks[x][x] \in Nat
    BY <2>1, LatestIsManifest DEF ServiceInv, Cursor
  <2> QED
    BY <2>1, <2>2 DEF Dominates
<1>2. CASE ~Compactable(devs, acks)
  BY <1>2 DEF TryCompact
<1> QED
  BY <1>1, <1>2

\* A revocation is one the service allows.
LEMMA RevokeServes ==
    ASSUME LogOrder, NEW owner \in Devices, NEW d \in Devices, RevokeDevice(owner, d)
    PROVE  Serves
<1>1. /\ ServiceNext /\ UNCHANGED <<requests, maxSequence, acknowledged, manifests>> /\ Active(d)
      /\ devices' = [devices EXCEPT ![d] = "revoked"] /\ TryCompact(devices', acknowledged)
  BY DEF RevokeDevice, ServiceNext
<1>2. /\ ServiceInv /\ acknowledged \in [Devices -> Cursor] /\ devices \in [Devices -> {"absent", "active", "revoked"}]
  BY DEF LogOrder, ServiceInv, ServiceTypeOK
<1>3. ASSUME NEW x \in Devices
      PROVE  /\ devices'[x] = "absent" <=> devices[x] = "absent"
             /\ devices'[x] = "active" => devices[x] = "active"
  BY <1>1, <1>2 DEF Active
<1>4. PICK devs : devs = devices'
  OBVIOUS
<1>5. ASSUME NEW x \in Devices, Active(x)'
      PROVE  floor'[x] <= acknowledged[x][x]
  <2>1. devs[x] = "active" /\ floor[x] <= acknowledged[x][x]
    BY <1>3, <1>4, <1>5, DeviceFacts DEF RecordInLine, Active
  <2>2. TryCompact(devs, acknowledged)
    BY <1>1, <1>4
  <2> QED
    BY <1>2, <2>1, <2>2, CompactsBehind
<1> QED
  BY <1>1, <1>3, <1>5, OthersServe

\* An acknowledgement takes the cursor of the synchronization.
LEMMA AcknowledgeServes ==
    ASSUME Served, LogOrder, NEW d \in Devices, At(d, "acknowledge"), Acknowledge(d, session[d].client.cursor)
    PROVE  Serves /\ acknowledged'[d] = session[d].client.cursor
<1>1. session[d].client.cursor \in Cursors
  BY CursorServed DEF At
<1>2. /\ ServiceNext /\ UNCHANGED <<requests, devices, maxSequence, manifests>>
      /\ acknowledged' = [acknowledged EXCEPT ![d] =
            [a \in Devices |-> IF session[d].client.cursor[a] = 0 THEN acknowledged[d][a] ELSE session[d].client.cursor[a]]]
      /\ TryCompact(devices, acknowledged')
  BY <1>1 DEF Acknowledge, ServiceNext
<1>3. /\ ServiceInv /\ acknowledged \in [Devices -> Cursor]
      /\ \A x \in Devices : acknowledged[x] \in Cursor
      /\ maxSequence \in Cursor /\ session[d] \in Session /\ config[d] \in Config
      /\ DeviceInLine(maxSequence, acknowledged[d], d, config[d], session[d])
      /\ session[d].client.cursor \in Cursor /\ session[d].step = "acknowledge"
  BY DeviceFacts, DeviceTypes, ClientTypes, ServiceTypes DEF ServiceInv, ServiceTypeOK, At
<1>4. /\ InLine(maxSequence, acknowledged[d], d, session[d].client)
      /\ config[d].client = session[d].client /\ config[d].commits = {}
  BY <1>3 DEF DeviceInLine, SessionInLine
<1>5. PICK cursor \in Cursor : cursor = session[d].client.cursor
  BY <1>3
<1>6. /\ \A a \in Devices : cursor[a] \in Nat /\ acknowledged[d][a] \in Nat /\ cursor[a] >= acknowledged[d][a]
  BY <1>3, <1>4, <1>5 DEF InLine, Cursor, Dominates
<1>7. PICK updated : updated = [a \in Devices |-> IF cursor[a] = 0 THEN acknowledged[d][a] ELSE cursor[a]]
  OBVIOUS
<1>8. updated = cursor
  <2>1. ASSUME NEW a \in Devices PROVE updated[a] = cursor[a]
    BY <1>6, <1>7
  <2> QED
    BY <1>5, <1>7, <2>1 DEF Cursor
<1>9. acknowledged' = [acknowledged EXCEPT ![d] = cursor]
  BY <1>2, <1>5, <1>7, <1>8
<1>10. InLine(maxSequence, cursor, d, session[d].client)
  BY <1>4, <1>5, <1>6 DEF InLine, Dominates
<1>11. DeviceInLine(maxSequence, cursor, d, config[d], session[d])
  BY <1>3, <1>4, <1>10 DEF DeviceInLine, ConfigInLine, SessionInLine, Sending, Pulling, Applied
<1>12. PICK acks \in [Devices -> Cursor] : acks = acknowledged' /\ acks[d] = cursor
              /\ \A x \in Devices \ {d} : acks[x] = acknowledged[x]
  BY <1>3, <1>9
<1>13. ASSUME NEW x \in Devices, devices[x] = "active"
       PROVE  floor'[x] <= acks[x][x]
  <2>1. floor[x] <= acknowledged[x][x]
    BY <1>13, DeviceFacts DEF RecordInLine, Active
  <2>2. floor[x] <= acks[x][x]
    <3>1. floor[x] \in Nat /\ acknowledged[x][x] \in Nat /\ acks[x][x] \in Nat
      BY <1>3, ServiceTypes DEF Cursor
    <3> QED
      BY <1>6, <1>12, <2>1, <3>1
  <2>3. TryCompact(devices, acks)
    BY <1>2, <1>12
  <2> QED
    BY <1>3, <1>13, <2>2, <2>3, CompactsBehind
<1>14. ASSUME NEW x \in Devices
       PROVE  /\ DeviceInLine(maxSequence, acks[x], x, config[x], session[x])
              /\ maxSequence[x] <= MaxSequence
              /\ devices[x] = "absent" => acks[x] = acknowledged[x]
  <2>1. /\ DeviceInLine(maxSequence, acknowledged[x], x, config[x], session[x])
        /\ maxSequence[x] <= MaxSequence /\ devices[d] # "absent"
    BY DeviceFacts DEF RecordInLine, At
  <2>2. CASE x = d
    BY <1>11, <1>5, <1>12, <2>1, <2>2
  <2>3. CASE x # d
    BY <1>12, <2>1, <2>3
  <2> QED
    BY <2>2, <2>3
<1> QED
  BY <1>2, <1>5, <1>12, <1>13, <1>14 DEF Serves, Active

-----------------------------------------------------------------------------
(* The outbox and the service: what devices and service do together *)

\* A device joins, and starts to synchronize unless there is nothing to recover.
LEMMA Joins ==
    ASSUME LogOrder, NEW d \in Devices, devices[d] = "absent", \A r \in requests : r.device # d,
           ServiceNext, devices' = [devices EXCEPT ![d] = "active"],
           UNCHANGED <<requests, operations, maxSequence, acknowledged, manifests, floor, workspace, reverts>>,
           NEW c \in Config, NEW s \in Session,
           config' = [config EXCEPT ![d] = c], session' = [session EXCEPT ![d] = s],
           \/ c = config[d] /\ s = session[d]
           \/ /\ c.linked /\ c.client = NewClient /\ c.commits = {}
              /\ s.step = "push" /\ s.client = NewClient /\ s.sent = 0
    PROVE  LogOrder'
<1>1. /\ ServiceInv /\ Types /\ RecordInLine(d) /\ maxSequence[d] = 0 /\ acknowledged[d] = NoCursor
      /\ maxSequence \in Cursor /\ floor \in Cursor /\ NoCursor \in Cursor
      /\ devices \in [Devices -> {"absent", "active", "revoked"}]
  BY DeviceFacts, ServiceTypes DEF RecordInLine, ServiceInv, ServiceTypeOK
<1>2. ServiceInv' /\ Types'
  <2>1. workspace' = workspace /\ reverts' = reverts
    OBVIOUS
  <2> QED
    BY <1>1, <2>1, NextPreservesInv DEF Types
<1>3. InLine(maxSequence, acknowledged[d], d, NewClient)
  <2>1. \A a \in Devices : maxSequence[a] \in Nat /\ NoCursor[a] = 0
    BY <1>1, ServiceTypes
  <2> QED
    BY <1>1, <2>1, FreshTypes DEF InLine, Dominates
<1>4. DeviceInLine(maxSequence, acknowledged[d], d, c, s)
  <2>1. CASE c = config[d] /\ s = session[d]
    BY <2>1, DeviceFacts
  <2>2. CASE /\ c.linked /\ c.client = NewClient /\ c.commits = {}
             /\ s.step = "push" /\ s.client = NewClient /\ s.sent = 0
    <3>1. ConfigInLine(maxSequence, acknowledged[d], d, c)
      BY <1>3, <2>2 DEF ConfigInLine
    <3>2. SessionInLine(maxSequence, acknowledged[d], d, c, s)
      BY <1>1, <1>3, <2>2, FreshTypes DEF SessionInLine, Sending, Pulling, Applied
    <3> QED
      BY <3>1, <3>2 DEF DeviceInLine
  <2> QED
    BY <2>1, <2>2
<1>5. /\ \A x \in Devices : DeviceInLine(maxSequence', acknowledged'[x], x, config[x], session[x])
      /\ \A x \in Devices : maxSequence'[x] <= MaxSequence
      /\ \A x \in Devices : devices'[x] = "absent" =>
            devices[x] = "absent" /\ maxSequence'[x] = maxSequence[x] /\ acknowledged'[x] = acknowledged[x]
      /\ devices'[d] # "absent"
      /\ DeviceInLine(maxSequence', acknowledged'[d], d, c, s)
      /\ \A r \in requests' \ requests : RequestInLine(r)'
  BY <1>1, <1>4, DeviceFacts DEF RecordInLine
<1>6. ASSUME NEW x \in Devices, Active(x)'
      PROVE  floor'[x] <= acknowledged'[x][x]
  <2>1. CASE x = d
    BY <1>1, <2>1, FloorWithinLog, ServiceTypes DEF Dominates, Cursor
  <2>2. CASE x # d
    BY <1>1, <1>6, <2>2, DeviceFacts DEF RecordInLine, Active
  <2> QED
    BY <2>1, <2>2
<1> QED
  BY <1>2, <1>5, <1>6, Moves

\* A linked configuration that has not sent anything yet.
LEMMA FirstConfig ==
    ASSUME Types, NEW d \in Devices, NEW flow \in {"create", "recover"}
    PROVE  \E c \in Config, s \in Session :
              /\ c = [NoConfig EXCEPT !.linked = TRUE, !.baseline = workspace[d].ops]
              /\ s = [Idle EXCEPT !.step = "push", !.flow = flow, !.working = workspace[d].ops]
              /\ c.linked /\ c.client = NewClient /\ c.commits = {} /\ c.baseline = workspace[d].ops
              /\ s.step = "push" /\ s.client = NewClient /\ s.sent = 0 /\ s.flow = flow
              /\ s.working = workspace[d].ops
<1>1. workspace[d].ops \subseteq Ops
  BY DeviceTypes
<1>2. PICK c : c = [NoConfig EXCEPT !.linked = TRUE, !.baseline = workspace[d].ops]
  OBVIOUS
<1>3. c \in Config /\ c.linked /\ c.client = NewClient /\ c.commits = {} /\ c.baseline = workspace[d].ops
  BY <1>1, <1>2, FreshTypes DEF Config
<1>4. PICK s : s = [Idle EXCEPT !.step = "push", !.flow = flow, !.working = workspace[d].ops]
  OBVIOUS
<1>5. /\ s \in Session /\ s.step = "push" /\ s.client = NewClient /\ s.sent = 0 /\ s.flow = flow
      /\ s.working = workspace[d].ops
  BY <1>1, <1>4, FreshTypes DEF Session, Flows, Sending
<1> QED
  BY <1>2, <1>3, <1>4, <1>5

\* Creating the account starts a log of its own.
LEMMA CreateKeeps ==
    ASSUME LogOrder, NEW d \in Devices, CreateAccount(d)
    PROVE  ServiceNext /\ LogOrder'
<1>1. /\ EnrollFirstDevice(d) /\ UNCHANGED <<workspace, reverts>>
      /\ config' = [config EXCEPT ![d] = [NoConfig EXCEPT !.linked = TRUE, !.baseline = workspace[d].ops]]
      /\ session' = [session EXCEPT ![d] =
            [Idle EXCEPT !.step = "push", !.flow = "create", !.working = workspace[d].ops]]
  BY DEF CreateAccount
<1>2. /\ ServiceNext /\ devices[d] = "absent" /\ \A r \in requests : r.device # d
      /\ devices' = [devices EXCEPT ![d] = "active"]
      /\ UNCHANGED <<requests, operations, maxSequence, acknowledged, manifests, floor>>
  BY <1>1 DEF EnrollFirstDevice, AccountExists, ServiceNext
<1>3. PICK c \in Config, s \in Session :
         /\ c = [NoConfig EXCEPT !.linked = TRUE, !.baseline = workspace[d].ops]
         /\ s = [Idle EXCEPT !.step = "push", !.flow = "create", !.working = workspace[d].ops]
         /\ c.linked /\ c.client = NewClient /\ c.commits = {}
         /\ s.step = "push" /\ s.client = NewClient /\ s.sent = 0
  BY FirstConfig DEF LogOrder
<1>4. config' = [config EXCEPT ![d] = c] /\ session' = [session EXCEPT ![d] = s]
  BY <1>1, <1>3
<1>5. UNCHANGED <<requests, operations, maxSequence, acknowledged, manifests, floor, workspace, reverts>>
  BY <1>1, <1>2
<1> QED
  BY <1>2, <1>3, <1>4, <1>5, Joins

\* Recovering the account starts with an empty outbox.
LEMMA RecoverKeeps ==
    ASSUME LogOrder, NEW d \in Devices, RecoverAccount(d)
    PROVE  ServiceNext /\ LogOrder'
<1>1. RecoverDevice(d) /\ UNCHANGED <<workspace, reverts>>
  BY DEF RecoverAccount
<1>2. /\ ServiceNext /\ devices[d] = "absent" /\ \A r \in requests : r.device # d
      /\ devices' = [devices EXCEPT ![d] = "active"]
      /\ UNCHANGED <<requests, operations, maxSequence, acknowledged, manifests, floor>>
  BY <1>1 DEF RecoverDevice, AddDevice, ServiceNext
<1>3. Types /\ config[d] \in Config /\ session[d] \in Session
  BY DeviceFacts
<1>4. CASE manifests = <<>>
  <2>1. config' = [config EXCEPT ![d] = config[d]] /\ session' = [session EXCEPT ![d] = session[d]]
    BY <1>3, <1>4 DEF RecoverAccount, Types
  <2> QED
    BY <1>1, <1>2, <1>3, <2>1, Joins
<1>5. CASE manifests # <<>>
  <2>1. /\ config' = [config EXCEPT ![d] = [NoConfig EXCEPT !.linked = TRUE, !.baseline = workspace[d].ops]]
        /\ session' = [session EXCEPT ![d] =
              [Idle EXCEPT !.step = "push", !.flow = "recover", !.working = workspace[d].ops]]
    BY <1>5 DEF RecoverAccount
  <2>2. PICK c \in Config, s \in Session :
           /\ c = [NoConfig EXCEPT !.linked = TRUE, !.baseline = workspace[d].ops]
           /\ s = [Idle EXCEPT !.step = "push", !.flow = "recover", !.working = workspace[d].ops]
           /\ c.linked /\ c.client = NewClient /\ c.commits = {}
           /\ s.step = "push" /\ s.client = NewClient /\ s.sent = 0
    BY <1>3, FirstConfig
  <2>3. config' = [config EXCEPT ![d] = c] /\ session' = [session EXCEPT ![d] = s]
    BY <2>1, <2>2
  <2> QED
    BY <1>1, <1>2, <2>2, <2>3, Joins
<1> QED
  BY <1>4, <1>5

\* What a device is about to send or waits for.
LEMMA Batch ==
    ASSUME LogOrder, NEW d \in Devices, session[d].step \in Sending
    PROVE  \E low \in Nat, n \in Nat :
              /\ low = session[d].client.flushed + session[d].sent /\ low <= maxSequence[d]
              /\ NextBatch(d) = [i \in 1 .. n |-> low + i] /\ Len(NextBatch(d)) = n
              /\ NextBatch(d) \in Seq(Nat \ {0})
              /\ low + n < config[d].client.next /\ low + n <= MaxSequence
              /\ n = 0 <=> NextBatch(d) = <<>>
<1>1. /\ ServiceInv /\ Types /\ DeviceInLine(maxSequence, acknowledged[d], d, config[d], session[d])
      /\ maxSequence[d] \in Nat
  BY DeviceFacts, ServiceTypes
<1>2. PICK client \in Client, sent \in Nat : client = session[d].client /\ sent = session[d].sent
  BY <1>1, DeviceTypes
<1>3. /\ client.next \in Nat /\ client.next <= MaxSequence + 1 /\ client.flushed \in Nat /\ MaxSequence \in Nat
  BY <1>1, <1>2, ClientTypes, ServiceTypes
<1>4. /\ InLine(maxSequence, acknowledged[d], d, client) /\ client.flushed + sent <= maxSequence[d]
      /\ client.next = config[d].client.next
  BY <1>1, <1>2 DEF DeviceInLine, SessionInLine, Sending
<1>5. PICK low \in Nat : low = client.flushed + sent
  BY <1>3
<1>6. low <= maxSequence[d] /\ low <= client.next - 1
  BY <1>1, <1>3, <1>4, <1>5 DEF InLine
<1>7. PICK n \in Nat :
         /\ NextBatch(d) = [i \in 1 .. n |-> low + i] /\ NextBatch(d) \in Seq(Nat \ {0})
         /\ Len(NextBatch(d)) = n /\ low + n <= client.next - 1
         /\ n = 0 <=> NextBatch(d) = <<>>
  BY <1>1, <1>2, <1>5, <1>6, NextBatchIs
<1>8. low + n < client.next /\ low + n <= MaxSequence
  BY <1>3, <1>7
<1>9. low + n < config[d].client.next
  BY <1>4, <1>8
<1>10. low = session[d].client.flushed + session[d].sent
  BY <1>2, <1>5
<1> QED
  BY <1>6, <1>7, <1>8, <1>9, <1>10

\* A batch that is sent is the head of the outbox.
LEMMA SendKeeps ==
    ASSUME Served, LogOrder, NEW d \in Devices, SendBatch(d)
    PROVE  ServiceNext /\ LogOrder'
<1>1. /\ ServiceInv /\ Types /\ config[d].linked /\ session[d].step = "push" /\ session[d] \in Session
      /\ config[d] \in Config /\ devices[d] # "absent" /\ config[d].client.next \in Nat
      /\ DeviceInLine(maxSequence, acknowledged[d], d, config[d], session[d])
  BY DeviceFacts, DeviceTypes, ClientTypes DEF SendBatch, At
<1>2. PICK low \in Nat, n \in Nat :
        /\ low <= maxSequence[d] /\ NextBatch(d) = [i \in 1 .. n |-> low + i]
        /\ low + n < config[d].client.next /\ low + n <= MaxSequence
        /\ n = 0 <=> NextBatch(d) = <<>>
  BY <1>1, Batch DEF Sending
<1>3. PICK batch \in Batches : batch = NextBatch(d)
  <2>1. n # 0 /\ maxSequence[d] <= MaxSequence /\ maxSequence[d] \in Nat /\ MaxSequence \in Nat
    BY <1>1, <1>2, ServiceTypes, DeviceFacts DEF SendBatch, RecordInLine
  <2>2. low \in 0 .. MaxSequence /\ n \in 1 .. MaxSequence
    BY <1>2, <2>1
  <2> QED
    BY <1>2, <2>2 DEF Served
<1>4. /\ AuthorizePush(d, batch) /\ ServiceNext
      /\ requests' = requests \cup {[device |-> d, batch |-> batch]}
      /\ UNCHANGED <<devices, operations, maxSequence, acknowledged, manifests, floor>>
      /\ session' = [session EXCEPT ![d].step = "pushing"]
      /\ UNCHANGED <<workspace, config, reverts>>
  BY <1>3 DEF SendBatch, AuthorizePush, ServiceNext
<1>5. PICK s : s = [session[d] EXCEPT !.step = "pushing"]
  OBVIOUS
<1>6. s \in Session /\ s.step = "pushing" /\ s.client = session[d].client /\ s.sent = session[d].sent
  BY <1>1, <1>5 DEF Session, Sending
<1>7. DeviceInLine(maxSequence, acknowledged[d], d, config[d], s)
  BY <1>1, <1>6 DEF DeviceInLine, SessionInLine, Sending, Pulling, Applied
<1>8. ServiceInv' /\ Types'
  <2>1. session' = [session EXCEPT ![d] = s] /\ workspace' = workspace /\ config' = config /\ reverts' = reverts
    BY <1>4, <1>5
  <2>2. session' \in [Devices -> Session]
    BY <1>1, <1>6, <2>1 DEF Types
  <2> QED
    BY <1>1, <1>4, <2>1, <2>2, NextPreservesInv DEF Types
<1>9. ASSUME NEW r \in requests' \ requests PROVE RequestInLine(r)'
  <2>1. r.device = d /\ r.batch = batch
    BY <1>4
  <2>2. \A i \in DOMAIN batch : batch[i] <= MaxSequence /\ batch[i] < config[d].client.next
    BY <1>1, <1>2, <1>3, ServiceTypes
  <2> QED
    BY <1>4, <2>1, <2>2 DEF RequestInLine
<1>10. config' = [config EXCEPT ![d] = config[d]] /\ session' = [session EXCEPT ![d] = s]
  BY <1>1, <1>4, <1>5 DEF Types
<1>11. config[d].linked => config[d].linked /\ config[d].client.next >= config[d].client.next
  BY <1>1
<1>12. /\ \A x \in Devices : DeviceInLine(maxSequence', acknowledged'[x], x, config[x], session[x])
       /\ \A x \in Devices : maxSequence'[x] <= MaxSequence
       /\ \A x \in Devices : devices'[x] = "absent" =>
             devices[x] = "absent" /\ maxSequence'[x] = maxSequence[x] /\ acknowledged'[x] = acknowledged[x]
       /\ devices'[d] # "absent"
       /\ DeviceInLine(maxSequence', acknowledged'[d], d, config[d], s)
       /\ \A x \in Devices : Active(x)' => floor'[x] <= acknowledged'[x][x]
  BY <1>1, <1>4, <1>7, DeviceFacts DEF RecordInLine, Active
<1> QED
  BY <1>1, <1>4, <1>6, <1>8, <1>9, <1>10, <1>11, <1>12, Moves

\* An accepted batch leaves the outbox and continues the log.
LEMMA PushSucceedsKeeps ==
    ASSUME LogOrder, NEW d \in Devices, PushSucceeds(d)
    PROVE  ServiceNext /\ LogOrder'
<1>1. PICK r \in requests : Awaited(d, r) /\ Push(r)
  BY DEF PushSucceeds
<1>2. /\ Types /\ config[d].linked /\ session[d].step = "pushing" /\ session[d] \in Session
      /\ config[d] \in Config /\ devices[d] # "absent" /\ config[d].client.next \in Nat
      /\ session[d].sent \in Nat /\ session[d].client.flushed \in Nat
  BY <1>1, DeviceFacts, DeviceTypes, ClientTypes DEF Awaited, At
<1>3. PICK low \in Nat, n \in Nat :
        /\ low = session[d].client.flushed + session[d].sent /\ low <= maxSequence[d]
        /\ NextBatch(d) = [i \in 1 .. n |-> low + i] /\ Len(NextBatch(d)) = n
  BY <1>2, Batch DEF Sending
<1>4. r.device = d /\ r.batch = NextBatch(d)
  BY <1>1 DEF Awaited
<1>5. /\ Serves /\ maxSequence' \in Cursor
      /\ \A i \in DOMAIN r.batch : r.batch[i] <= maxSequence'[d]
      /\ DeviceInLine(maxSequence', acknowledged'[d], d, config[d], session[d])
  BY <1>1, <1>4, PushServes DEF Serves
<1>6. low + n <= maxSequence'[d]
  <2>1. CASE n = 0
    <3>1. session[d].client.flushed + session[d].sent <= maxSequence'[d]
      BY <1>2, <1>5 DEF DeviceInLine, SessionInLine, Sending
    <3> QED
      BY <1>3, <2>1, <3>1
  <2>2. CASE n # 0
    <3>1. n \in 1 .. n
      BY <2>2
    <3>2. n \in DOMAIN r.batch /\ r.batch[n] = low + n
      BY <1>3, <1>4, <3>1
    <3> QED
      BY <1>5, <3>2
  <2> QED
    BY <2>1, <2>2
<1>7. PICK sent \in Nat : sent = session[d].sent + n
  BY <1>2
<1>8. PICK s : s = [session[d] EXCEPT !.step = "push", !.sent = sent]
  OBVIOUS
<1>9. s \in Session /\ s.step = "push" /\ s.client = session[d].client /\ s.sent = sent
  BY <1>2, <1>8 DEF Session, Sending
<1>10. s.client.flushed + s.sent <= maxSequence'[d]
  BY <1>2, <1>3, <1>6, <1>9, <1>7
<1>11. DeviceInLine(maxSequence', acknowledged'[d], d, config[d], s)
  BY <1>2, <1>5, <1>9, <1>10 DEF DeviceInLine, SessionInLine, Sending, Pulling, Applied
<1>12. config' = [config EXCEPT ![d] = config[d]] /\ session' = [session EXCEPT ![d] = s]
  BY <1>2, <1>3, <1>8, <1>7 DEF PushSucceeds, Types
<1>13. workspace' \in [Devices -> Document] /\ reverts' \subseteq Ops \X Ops
  BY <1>2 DEF PushSucceeds, Types
<1>14. config[d].linked => config[d].linked /\ config[d].client.next >= config[d].client.next
  BY <1>2
<1>15. ServiceNext
  BY <1>5 DEF Serves
<1> QED
  BY <1>2, <1>5, <1>9, <1>11, <1>12, <1>13, <1>14, <1>15, ServesDevice

\* A refused batch changes neither the log nor the outbox.
LEMMA PushFailsKeeps ==
    ASSUME LogOrder, NEW d \in Devices, PushFails(d)
    PROVE  ServiceNext /\ LogOrder'
<1>1. PICK r \in requests : Awaited(d, r) /\ RejectPush(r)
  BY DEF PushFails
<1>2. Serves /\ ~At(d, "idle") /\ Fail(d)
  BY <1>1, RejectServes DEF PushFails, Awaited, At
<1> QED
  BY <1>2, ServesFailure DEF Serves

\* A batch whose answer is lost stays in the outbox and may be in the log.
LEMMA PushInterruptedKeeps ==
    ASSUME LogOrder, NEW d \in Devices, PushInterrupted(d)
    PROVE  [ServiceNext]_serviceVars /\ LogOrder'
<1>1. ~At(d, "idle") /\ Fail(d)
  BY DEF PushInterrupted, Awaited, At
<1>2. CASE UNCHANGED serviceVars
  BY <1>1, <1>2, FailKeeps
<1>3. CASE \E r \in requests : Push(r)
  BY <1>1, <1>3, PushServes, ServesFailure DEF Serves
<1> QED
  BY <1>2, <1>3 DEF PushInterrupted

\* A request that arrives late adds nothing the log does not allow.
LEMMA LatePushKeeps ==
    ASSUME LogOrder, LatePush
    PROVE  ServiceNext /\ LogOrder'
<1>1. PICK r \in requests : Push(r) \/ RejectPush(r)
  BY DEF LatePush
<1>2. Serves /\ UNCHANGED clientVars
  BY <1>1, PushServes, RejectServes DEF LatePush
<1> QED
  BY <1>2, ServesAlone DEF Serves

\* An uploaded snapshot compacts the log behind its cursor.
LEMMA UploadKeeps ==
    ASSUME Served, LogOrder, NEW d \in Devices, UploadSnapshot(d)
    PROVE  ServiceNext /\ LogOrder'
<1>1. /\ Types /\ config[d].linked /\ session[d].step = "upload" /\ session[d] \in Session /\ config[d] \in Config
      /\ devices[d] # "absent" /\ config[d].client.next \in Nat /\ session[d].client \in Client /\ ~At(d, "idle")
  BY DeviceFacts, DeviceTypes, ClientTypes DEF UploadSnapshot, At
<1>2. /\ Serves
      /\ DeviceInLine(maxSequence', acknowledged'[d], d, config[d], session[d])
  BY <1>1, SnapshotServes DEF UploadSnapshot, Serves
<1>3. PICK client : client = [session[d].client EXCEPT !.snapshot = TRUE]
  OBVIOUS
<1>4. /\ client \in Client /\ client.next = session[d].client.next /\ client.flushed = session[d].client.flushed
      /\ client.cursor = session[d].client.cursor
  BY <1>1, <1>3 DEF Client
<1>5. PICK s : s = [session[d] EXCEPT !.step = "download", !.client = client]
  OBVIOUS
<1>6. s \in Session /\ s.step = "download" /\ s.client = client
  BY <1>1, <1>4, <1>5 DEF Session, Applied
<1>7. DeviceInLine(maxSequence', acknowledged'[d], d, config[d], s)
  BY <1>1, <1>2, <1>4, <1>6 DEF DeviceInLine, SessionInLine, InLine, Sending, Pulling, Applied
<1>8. config' = [config EXCEPT ![d] = config[d]] /\ session' = [session EXCEPT ![d] = s]
  <2>1. /\ config' = config
        /\ session' = [session EXCEPT ![d] =
              [session[d] EXCEPT !.step = "download", !.client = [session[d].client EXCEPT !.snapshot = TRUE]]]
    BY DEF UploadSnapshot
  <2> QED
    BY <1>1, <1>3, <1>5, <2>1 DEF Types
<1>9. workspace' \in [Devices -> Document] /\ reverts' \subseteq Ops \X Ops
  BY <1>1 DEF UploadSnapshot, Types
<1>10. config[d].linked => config[d].linked /\ config[d].client.next >= config[d].client.next
  BY <1>1
<1>11. ServiceNext
  BY <1>2 DEF Serves
<1> QED
  BY <1>1, <1>2, <1>6, <1>7, <1>8, <1>9, <1>10, <1>11, ServesDevice

\* A snapshot whose answer is lost ends the session in line with the log.
LEMMA UploadInterruptedKeeps ==
    ASSUME Served, LogOrder, NEW d \in Devices, UploadInterrupted(d)
    PROVE  [ServiceNext]_serviceVars /\ LogOrder'
<1>1. ~At(d, "idle") /\ Fail(d)
  BY DEF UploadInterrupted, At
<1>2. CASE UNCHANGED serviceVars
  BY <1>1, <1>2, FailKeeps
<1>3. CASE CommitSnapshotManifest(d, session[d].client.cursor, session[d].working)
  BY <1>1, <1>3, SnapshotServes, ServesFailure DEF Serves
<1> QED
  BY <1>2, <1>3 DEF UploadInterrupted

\* An acknowledged cursor is within the log.
LEMMA AcknowledgeKeeps ==
    ASSUME Served, LogOrder, NEW d \in Devices, AcknowledgeSync(d)
    PROVE  ServiceNext /\ LogOrder'
<1>1. /\ Types /\ config[d] \in Config /\ devices[d] # "absent" /\ config[d].client.next \in Nat
  BY DeviceFacts, DeviceTypes, ClientTypes DEF AcknowledgeSync, At
<1>2. Serves
  BY AcknowledgeServes DEF AcknowledgeSync
<1>3. DeviceInLine(maxSequence', acknowledged'[d], d, config[d], Idle)
  BY <1>2, StopsInLine DEF Serves
<1>4. config' = [config EXCEPT ![d] = config[d]] /\ session' = [session EXCEPT ![d] = Idle]
  BY <1>1 DEF AcknowledgeSync, Types
<1>5. workspace' \in [Devices -> Document] /\ reverts' \subseteq Ops \X Ops
  BY <1>1 DEF AcknowledgeSync, Types
<1>6. config[d].linked => config[d].linked /\ config[d].client.next >= config[d].client.next
  BY <1>1
<1>7. ServiceNext
  BY <1>2 DEF Serves
<1> QED
  BY <1>1, <1>2, <1>3, <1>4, <1>5, <1>6, <1>7, FreshTypes, ServesDevice

\* A revocation keeps the log and every outbox.
LEMMA RevokeKeeps ==
    ASSUME LogOrder, NEW owner \in Devices, NEW d \in Devices, Revoke(owner, d)
    PROVE  ServiceNext /\ LogOrder'
<1>1. Serves /\ UNCHANGED clientVars
  BY RevokeServes DEF Revoke
<1> QED
  BY <1>1, ServesAlone DEF Serves

\* The service stops: every push that waits for an answer fails.
LEMMA ServiceStopsKeeps ==
    ASSUME LogOrder, ServiceStops
    PROVE  ServiceNext /\ LogOrder'
<1>1. /\ ServiceNext /\ requests' = {} /\ workspace' = workspace /\ reverts' = reverts
      /\ UNCHANGED <<devices, operations, maxSequence, acknowledged, manifests, floor>>
      /\ session' = [d \in Devices |-> IF At(d, "pushing") THEN Idle ELSE session[d]]
      /\ config' = [d \in Devices |-> IF At(d, "pushing") THEN AfterFailure(d)[d] ELSE config[d]]
  BY DEF ServiceStops, ServiceCrash, ServiceNext
<1>2. Types /\ ServiceInv
  BY DEF LogOrder
<1>3. ASSUME NEW d \in Devices
      PROVE  /\ config'[d] \in Config /\ session'[d] \in Session
             /\ DeviceInLine(maxSequence, acknowledged[d], d, config'[d], session'[d])
             /\ RecordInLine(d)'
  <2>1. /\ config[d] \in Config /\ session[d] \in Session /\ RecordInLine(d)
        /\ DeviceInLine(maxSequence, acknowledged[d], d, config[d], session[d])
        /\ ~At(d, "idle") => devices[d] # "absent"
    BY DeviceFacts
  <2>2. CASE At(d, "pushing")
    <3>1. AfterFailure(d)[d] = Failed(config[d], session[d])
      BY <1>2 DEF AfterFailure, Failed, Types
    <3>2. config'[d] = Failed(config[d], session[d]) /\ session'[d] = Idle
      BY <1>1, <2>2, <3>1
    <3>3. /\ Failed(config[d], session[d]) \in Config
          /\ DeviceInLine(maxSequence, acknowledged[d], d, Failed(config[d], session[d]), Idle)
      BY <2>1, <2>2, FailedTypes, FailsInLine DEF At
    <3>4. devices[d] # "absent"
      BY <2>1, <2>2 DEF At
    <3> QED
      BY <1>1, <2>1, <3>2, <3>3, <3>4, FreshTypes DEF RecordInLine, Active
  <2>3. CASE ~At(d, "pushing")
    <3>1. config'[d] = config[d] /\ session'[d] = session[d]
      BY <1>1, <2>3
    <3> QED
      BY <1>1, <2>1, <3>1 DEF RecordInLine, At, Active
  <2> QED
    BY <2>2, <2>3
<1>4. Types'
  <2>1. config' \in [Devices -> Config]
    <3>1. config' = [d \in Devices |-> config'[d]]
      BY <1>1
    <3> QED
      BY <1>3, <3>1
  <2>2. session' \in [Devices -> Session]
    <3>1. session' = [d \in Devices |-> session'[d]]
      BY <1>1
    <3> QED
      BY <1>3, <3>1
  <2> QED
    BY <1>1, <1>2, <2>1, <2>2 DEF Types
<1>5. ServiceInv'
  BY <1>1, <1>2, NextPreservesInv
<1>6. \A r \in requests' : RequestInLine(r)'
  BY <1>1
<1>7. \A d \in Devices :
         DeviceInLine(maxSequence', acknowledged'[d], d, config'[d], session'[d]) /\ RecordInLine(d)'
  BY <1>1, <1>3
<1> QED
  BY <1>1, <1>4, <1>5, <1>6, <1>7 DEF LogOrder

-----------------------------------------------------------------------------
(* The outbox and the service: theorems *)

\* The log and the outboxes are empty at the start.
LEMMA InitialLog == Init => LogOrder
<1> SUFFICES ASSUME Init PROVE LogOrder
  OBVIOUS
<1>1. /\ ServiceInv /\ \A d \in Devices : maxSequence[d] = 0 /\ floor[d] = 0 /\ acknowledged[d] = NoCursor
      /\ requests = {} /\ maxSequence = NoCursor
      /\ \A d \in Devices : NoCursor[d] = 0
  BY InitEstablishesInv DEF Init, ServiceInit, NoCursor
<1>2. \A d \in Devices : workspace[d] = NewWorkspace(d) /\ config[d] = NoConfig /\ session[d] = Idle
  BY DEF Init
<1>3. Types
  <2>1. workspace \in [Devices -> Document]
    BY FreshTypes DEF Init
  <2>2. config \in [Devices -> Config] /\ session \in [Devices -> Session]
    BY FreshTypes DEF Init
  <2> QED
    BY <2>1, <2>2 DEF Types, Init
<1>4. ASSUME NEW d \in Devices
      PROVE  DeviceInLine(maxSequence, acknowledged[d], d, config[d], session[d]) /\ RecordInLine(d)
  <2>1. DeviceInLine(maxSequence, acknowledged[d], d, NoConfig, Idle)
    BY FreshTypes DEF DeviceInLine, ConfigInLine, SessionInLine, Sending, Pulling, Applied
  <2>2. RecordInLine(d)
    BY <1>1, <1>2, FreshTypes, ServiceTypes DEF RecordInLine, At
  <2> QED
    BY <1>2, <2>1, <2>2
<1> QED
  BY <1>1, <1>3, <1>4 DEF LogOrder

\* Every step of a session keeps the log in order.
LEMMA ProgressKeeps ==
    ASSUME Served, LogOrder, NEW d \in Devices, Progress(d)
    PROVE  [ServiceNext]_serviceVars /\ LogOrder'
<1>1. CASE SendBatch(d) \/ PushSucceeds(d) \/ PushFails(d) \/ UploadSnapshot(d) \/ AcknowledgeSync(d)
  BY <1>1, SendKeeps, PushSucceedsKeeps, PushFailsKeeps, UploadKeeps, AcknowledgeKeeps
<1>2. CASE EmptyOutbox(d) \/ PullPage(d) \/ ApplyBatch(d) \/ ApplyFails(d) \/ UploadFails(d) \/ Unauthorized(d)
           \/ JournalCommit(d) \/ CommitWorkspace(d) \/ FinishCommit(d) \/ SaveWorkspaceAndConfig(d)
           \/ AcknowledgeRefused(d)
  <2>1. LogOrder'
    BY <1>2, EmptyOutboxKeeps, PullKeeps, ApplyKeeps, FailuresKeep, JournalKeeps, CommitWorkspaceKeeps,
       FinishKeeps, SaveKeeps, EndingsKeep
  <2>2. UNCHANGED serviceVars
    BY <1>2, Zenon DEF EmptyOutbox, PullPage, ApplyBatch, ApplyFails, UploadFails, Unauthorized, JournalCommit,
       CommitWorkspace, FinishCommit, SaveWorkspaceAndConfig, AcknowledgeRefused
  <2> QED
    BY <2>1, <2>2
<1> QED
  BY <1>1, <1>2, Zenon DEF Progress

\* Every start of a session keeps the log in order.
LEMMA StartKeeps ==
    ASSUME LogOrder, NEW d \in Devices, Start(d)
    PROVE  [ServiceNext]_serviceVars /\ LogOrder'
<1>1. CASE CreateAccount(d) \/ RecoverAccount(d)
  BY <1>1, CreateKeeps, RecoverKeeps
<1>2. CASE Capture(d)
  <2>1. UNCHANGED serviceVars
    BY <1>2, Zenon DEF Capture
  <2> QED
    BY <1>2, <2>1, CaptureKeeps
<1>3. CASE \E flow \in {"resume", "startup"} : ResumeCommit(d, flow)
  <2>1. UNCHANGED serviceVars
    BY <1>3, Zenon DEF ResumeCommit
  <2> QED
    BY <1>3, <2>1, ResumeCommitKeeps
<1> QED
  BY <1>1, <1>2, <1>3 DEF Start

\* Every disturbance from outside keeps the log in order.
LEMMA DisturbanceKeeps ==
    ASSUME Served, LogOrder, NEW d \in Devices, Disturbance(d)
    PROVE  [ServiceNext]_serviceVars /\ LogOrder'
<1>1. CASE PushInterrupted(d) \/ UploadInterrupted(d) \/ \E x \in Devices : Revoke(d, x)
  BY <1>1, PushInterruptedKeeps, UploadInterruptedKeeps, RevokeKeeps
<1>2. CASE StepFails(d) \/ SaveFails(d) \/ AcknowledgeInterrupted(d) \/ Crash(d) \/ Disconnect(d)
  <2>1. UNCHANGED serviceVars
    BY <1>2, Zenon DEF StepFails, SaveFails, AcknowledgeInterrupted, Crash, Disconnect
  <2> QED
    BY <1>2, <2>1, FailuresKeep, SaveFailsKeeps, EndingsKeep, DisconnectKeeps
<1> QED
  BY <1>1, <1>2 DEF Disturbance

\* Whatever happens, the service takes one of its steps or none.
LEMMA EveryStep ==
    ASSUME Served, LogOrder, [Next]_vars
    PROVE  [ServiceNext]_serviceVars /\ LogOrder'
<1>1. CASE \E d \in Devices : Edit(d)
  <2>1. UNCHANGED serviceVars
    BY <1>1 DEF Edit
  <2> QED
    BY <1>1, <2>1, EditKeeps
<1>2. CASE \E d \in Devices : Start(d) \/ Progress(d) \/ Disturbance(d)
  BY <1>2, StartKeeps, ProgressKeeps, DisturbanceKeeps
<1>3. CASE LatePush \/ ServiceStops
  BY <1>3, LatePushKeeps, ServiceStopsKeeps
<1>4. CASE UNCHANGED vars
  <2>1. UNCHANGED serviceVars /\ UNCHANGED clientVars
    BY <1>4 DEF vars
  <2>2. Types' /\ ServiceInv'
    BY <2>1, SameService DEF clientVars, Types, LogOrder
  <2> QED
    BY <2>1, <2>2, SameService DEF clientVars, LogOrder, RecordInLine, RequestInLine, At
<1> QED
  BY <1>1, <1>2, <1>3, <1>4 DEF Next

\* The order between outboxes, acknowledgements, pushes on the way and the log
\* holds for any number of devices that synchronize and fail as they like.
THEOREM LogsAreOrdered ==
    ASSUME Served
    PROVE  Spec => []LogOrder
<1>1. Init => LogOrder
  BY InitialLog
<1>2. LogOrder /\ [Next]_vars => LogOrder'
  BY EveryStep
<1> QED
  BY <1>1, <1>2, PTL DEF Spec

\* The devices use the service as its specification says: what is proved of the
\* service, that it loses nothing, never accepts a number twice and compacts only
\* what everyone has acknowledged, holds in their company.
THEOREM ServiceIsUsed ==
    ASSUME Served
    PROVE  Spec => ServiceSpec
<1>1. Init => ServiceInit
  BY DEF Init
<1>2. LogOrder /\ [Next]_vars => [ServiceNext]_serviceVars
  BY EveryStep
<1> QED
  BY <1>1, <1>2, LogsAreOrdered, PTL DEF Spec, ServiceSpec

\* A push a device waits for continues what the service has accepted.
LEMMA PushContinues ==
    ASSUME LogOrder, NEW d \in Devices, Active(d), At(d, "pushing"), NEW r \in requests, Awaited(d, r)
    PROVE  \E n \in 0 .. Len(r.batch) : Extends(d, r.batch, n)
<1>1. /\ ServiceInv /\ session[d].step = "pushing" /\ maxSequence[d] \in Nat /\ floor[d] \in Nat
      /\ floor[d] <= acknowledged[d][d] /\ acknowledged[d][d] \in Nat
      /\ DeviceInLine(maxSequence, acknowledged[d], d, config[d], session[d])
  BY DeviceFacts, ServiceTypes DEF At, RecordInLine
<1>2. PICK client \in Client, sent \in Nat : client = session[d].client /\ sent = session[d].sent
  BY DeviceFacts, DeviceTypes
<1>3. floor[d] <= client.flushed + sent
  <2>1. InLine(maxSequence, acknowledged[d], d, client)
    BY <1>1, <1>2 DEF DeviceInLine, SessionInLine
  <2>2. client.flushed \in Nat /\ client.cursor[d] \in Nat
    BY ClientTypes
  <2> QED
    BY <1>1, <2>1, <2>2 DEF InLine, Dominates
<1>4. PICK low \in Nat, n \in Nat :
        /\ low = session[d].client.flushed + session[d].sent /\ low <= maxSequence[d]
        /\ NextBatch(d) = [i \in 1 .. n |-> low + i] /\ Len(NextBatch(d)) = n
  BY <1>1, Batch DEF Sending
<1>5. PICK batch : batch = [i \in 1 .. n |-> low + i] /\ batch = r.batch /\ Len(batch) = n
  BY <1>4 DEF Awaited
<1>6. /\ DOMAIN batch = 1 .. n /\ \A i \in 1 .. n : batch[i] = low + i
      /\ floor[d] <= low
  BY <1>2, <1>3, <1>4, <1>5
<1>7. ASSUME NEW s \in Nat, s > low
      PROVE  <<d, s>> \in operations <=> s <= maxSequence[d]
  <2>1. <<d, s>> \in operations <=> s \in floor[d] + 1 .. maxSequence[d]
    BY <1>1 DEF ServiceInv, RetainedSuffix
  <2> QED
    BY <1>1, <1>6, <1>7, <2>1
<1>8. PICK m \in 0 .. n : m = IF low + n <= maxSequence[d] THEN 0 ELSE low + n - maxSequence[d]
  BY <1>1, <1>4
<1>9. Fresh(d, batch) = maxSequence[d] + 1 .. maxSequence[d] + m
  <2>1. ASSUME NEW s \in Fresh(d, batch) PROVE s \in maxSequence[d] + 1 .. maxSequence[d] + m
    <3>1. PICK i \in 1 .. n : s = low + i /\ <<d, s>> \notin operations
      BY <1>6, <2>1 DEF Fresh
    <3>2. s \in Nat /\ s > low /\ s <= low + n
      BY <3>1
    <3> QED
      BY <1>1, <1>7, <1>8, <3>1, <3>2
  <2>2. ASSUME NEW s \in maxSequence[d] + 1 .. maxSequence[d] + m PROVE s \in Fresh(d, batch)
    <3>1. s \in Nat /\ s > low /\ s <= low + n /\ s > maxSequence[d]
      <4>1. PICK max \in Nat : max = maxSequence[d] /\ low <= max
        BY <1>1, <1>4
      <4>2. m # 0 /\ m = low + n - max
        BY <1>8, <2>2, <4>1
      <4> QED
        BY <2>2, <4>1, <4>2
    <3>2. s - low \in 1 .. n /\ s = low + (s - low)
      BY <3>1
    <3>3. <<d, s>> \notin operations
      BY <1>1, <1>7, <3>1
    <3> QED
      BY <1>6, <3>2, <3>3 DEF Fresh
  <2> QED
    BY <2>1, <2>2
<1>10. ASSUME NEW i \in DOMAIN batch, batch[i] \in Fresh(d, batch), batch[i] # maxSequence[d] + 1
       PROVE  \E j \in 1 .. i - 1 : batch[j] = batch[i] - 1
  <2>1. i \in 1 .. n /\ batch[i] = low + i
    BY <1>6
  <2>2. low + i > maxSequence[d] + 1
    BY <1>1, <1>9, <1>10, <2>1
  <2>3. i - 1 \in 1 .. i - 1 /\ i - 1 \in 1 .. n
    BY <1>1, <1>4, <2>1, <2>2
  <2>4. batch[i - 1] = batch[i] - 1
    BY <1>6, <2>1, <2>3
  <2> QED
    BY <2>3, <2>4
<1>11. Extends(d, batch, m) /\ m \in 0 .. Len(batch)
  BY <1>5, <1>8, <1>9, <1>10 DEF Extends
<1> QED
  BY <1>5, <1>11

\* Client and service agree on what was sent whatever fails, crashes or is
\* answered too late: no push is refused for its numbers, no acknowledgement
\* steps back, and what has left an outbox was accepted (sync-client index.ts
\* synchronize, service.ts push).
THEOREM OutboxesContinueTheLog ==
    ASSUME Served
    PROVE  Spec => []LogsAgree
<1>1. LogOrder => LogsAgree
  <2> SUFFICES ASSUME LogOrder PROVE LogsAgree
    OBVIOUS
  <2>1. ASSUME NEW d \in Devices, At(d, "acknowledge")
        PROVE  Acknowledgeable(d, session[d].client.cursor)
    <3>1. InLine(maxSequence, acknowledged[d], d, session[d].client)
      BY <2>1, DeviceFacts DEF DeviceInLine, SessionInLine, At
    <3> QED
      BY <3>1 DEF InLine, Acknowledgeable, Dominates
  <2>2. NumberingAgrees
    BY <2>1, PushContinues DEF NumberingAgrees
  <2>3. NothingDropped
    BY DeviceFacts DEF NothingDropped, DeviceInLine, ConfigInLine, InLine
  <2> QED
    BY <2>2, <2>3 DEF LogsAgree
<1> QED
  BY <1>1, LogsAreOrdered, PTL

-----------------------------------------------------------------------------
(* What a step of a device leaves alone *)

Alone(d) ==
    \A x \in Devices \ {d} : workspace'[x] = workspace[x] /\ config'[x] = config[x] /\ session'[x] = session[x]

\* The rest of the world does not take part in a step of a device's stores.
LEMMA StepsAlone ==
    ASSUME Types, NEW d \in Devices, NEW w, NEW c, NEW s,
           workspace' = workspace \/ workspace' = [workspace EXCEPT ![d] = w],
           config' = config \/ config' = [config EXCEPT ![d] = c],
           session' = session \/ session' = [session EXCEPT ![d] = s]
    PROVE  Alone(d)
  BY DEF Types, Alone

\* A session that fails touches no other device.
LEMMA FailsAlone ==
    ASSUME Types, NEW d \in Devices, Fail(d)
    PROVE  Alone(d) /\ workspace' = workspace
  BY FailureIs, StepsAlone

\* A running synchronization: it takes the edits out of the store, or leaves them.
LEMMA BusyAlone ==
    ASSUME LogOrder, NEW d \in Devices,
           Progress(d) \/ PushInterrupted(d) \/ UploadInterrupted(d) \/ StepFails(d) \/ SaveFails(d)
           \/ AcknowledgeInterrupted(d) \/ Crash(d)
    PROVE  ~At(d, "idle") /\ Alone(d) /\ (workspace'[d].edits = workspace[d].edits \/ workspace'[d].edits = 0)
<1>1. Types /\ workspace[d] \in Document
  BY DeviceFacts
<1>2. ~At(d, "idle")
  BY DEF Progress, SendBatch, PushSucceeds, PushFails, Awaited, EmptyOutbox, PullPage, ApplyBatch, ApplyFails,
     UploadSnapshot, UploadFails, Unauthorized, JournalCommit, CommitWorkspace, FinishCommit,
     SaveWorkspaceAndConfig, AcknowledgeSync, AcknowledgeRefused, PushInterrupted, UploadInterrupted, StepFails,
     SaveFails, AcknowledgeInterrupted, Crash, At
<1>3. CASE \/ PushFails(d) \/ ApplyFails(d) \/ UploadFails(d) \/ Unauthorized(d)
           \/ PushInterrupted(d) \/ UploadInterrupted(d) \/ StepFails(d)
  <2>1. Fail(d)
    BY <1>3 DEF PushFails, ApplyFails, UploadFails, Unauthorized, PushInterrupted, UploadInterrupted, StepFails
  <2> QED
    BY <1>1, <1>2, <2>1, FailsAlone
<1>4. CASE AcknowledgeSync(d) \/ AcknowledgeRefused(d) \/ AcknowledgeInterrupted(d) \/ Crash(d)
  <2>1. session' = [session EXCEPT ![d] = Idle] /\ workspace' = workspace /\ config' = config
    BY <1>4 DEF AcknowledgeSync, AcknowledgeRefused, AcknowledgeInterrupted, Crash
  <2> QED
    BY <1>1, <1>2, <2>1, StepsAlone
<1>5. CASE SendBatch(d)
  <2>1. session' = [session EXCEPT ![d].step = "pushing"] /\ workspace' = workspace /\ config' = config
    BY <1>5 DEF SendBatch
  <2> QED
    BY <1>1, <1>2, <2>1, StepsAlone
<1>6. CASE PushSucceeds(d)
  <2>1. workspace' = workspace /\ config' = config /\ \E s : session' = [session EXCEPT ![d] = s]
    BY <1>6 DEF PushSucceeds
  <2> QED
    BY <1>1, <1>2, <2>1, StepsAlone
<1>7. CASE EmptyOutbox(d)
  <2>1. workspace' = workspace /\ config' = config /\ \E s : session' = [session EXCEPT ![d] = s]
    BY <1>7, Zenon DEF EmptyOutbox
  <2> QED
    BY <1>1, <1>2, <2>1, StepsAlone
<1>8. CASE PullPage(d)
  <2>1. workspace' = workspace /\ config' = config
    BY <1>8, Zenon DEF PullPage
  <2>2. \E s : session' = [session EXCEPT ![d] = s]
    BY <1>8, PullIs DEF Pulls
  <2> QED
    BY <1>1, <1>2, <2>1, <2>2, StepsAlone
<1>9. CASE ApplyBatch(d)
  <2>1. workspace' = workspace /\ config' = config
    BY <1>9, Zenon DEF ApplyBatch
  <2>2. \E s : session' = [session EXCEPT ![d] = s]
    BY <1>9, ApplyIs DEF Applies
  <2> QED
    BY <1>1, <1>2, <2>1, <2>2, StepsAlone
<1>10. CASE UploadSnapshot(d)
  <2>1. workspace' = workspace /\ config' = config /\ \E s : session' = [session EXCEPT ![d] = s]
    BY <1>10, Zenon DEF UploadSnapshot
  <2> QED
    BY <1>1, <1>2, <2>1, StepsAlone
<1>11. CASE JournalCommit(d)
  <2>1. workspace' = workspace /\ session' = [session EXCEPT ![d].step = "commit"]
    BY <1>11 DEF JournalCommit
  <2>2. \E c : config' = [config EXCEPT ![d] = c]
    BY <1>11 DEF JournalCommit
  <2> QED
    BY <1>1, <1>2, <2>1, <2>2, StepsAlone
<1>12. CASE CommitWorkspace(d)
  <2>1. PICK stored : stored = [workspace[d] EXCEPT !.ops = Committed(d), !.edits = 0, !.touched = TRUE]
    OBVIOUS
  <2>2. workspace' = workspace \/ workspace' = [workspace EXCEPT ![d] = stored]
    BY <1>12, <2>1, Zenon DEF CommitWorkspace
  <2>3. stored.edits = 0
    BY <1>1, <2>1 DEF Document
  <2>4. workspace'[d].edits = workspace[d].edits \/ workspace'[d].edits = 0
    BY <1>1, <2>2, <2>3 DEF Types
  <2>5. config' = config /\ session' = [session EXCEPT ![d].step = "finish"]
    BY <1>12 DEF CommitWorkspace
  <2> QED
    BY <1>1, <1>2, <2>2, <2>4, <2>5, StepsAlone
<1>13. CASE FinishCommit(d)
  <2>1. workspace' = workspace /\ session' = [session EXCEPT ![d].step = "acknowledge"]
    BY <1>13 DEF FinishCommit
  <2>2. \E c : config' = [config EXCEPT ![d] = c]
    BY <1>13 DEF FinishCommit
  <2> QED
    BY <1>1, <1>2, <2>1, <2>2, StepsAlone
<1>14. CASE SaveWorkspaceAndConfig(d)
  <2>1. PICK w : w = [ops |-> session[d].working, edits |-> 0, touched |-> FALSE, account |-> TRUE]
    OBVIOUS
  <2>2. workspace' = [workspace EXCEPT ![d] = w] /\ session' = [session EXCEPT ![d].step = "acknowledge"]
    BY <1>14, <2>1 DEF SaveWorkspaceAndConfig
  <2>3. \E c : config' = [config EXCEPT ![d] = c]
    BY <1>14 DEF SaveWorkspaceAndConfig
  <2>4. workspace'[d].edits = 0
    BY <1>1, <2>1, <2>2 DEF Types
  <2> QED
    BY <1>1, <1>2, <2>2, <2>3, <2>4, StepsAlone
<1>15. CASE SaveFails(d)
  <2>1. CASE session[d].flow = "sync"
    <3>1. workspace' = workspace /\ session' = [session EXCEPT ![d] = Idle]
      BY <1>15 DEF SaveFails
    <3>2. \E c : config' = [config EXCEPT ![d] = c]
      BY <1>15, <2>1 DEF SaveFails
    <3> QED
      BY <1>1, <1>2, <3>1, <3>2, StepsAlone
  <2>2. CASE session[d].flow # "sync"
    <3>1. Fail(d)
      BY <1>15, <2>2 DEF SaveFails, Fail
    <3> QED
      BY <1>1, <1>2, <3>1, FailsAlone
  <2> QED
    BY <2>1, <2>2
<1> QED
  BY <1>3, <1>4, <1>5, <1>6, <1>7, <1>8, <1>9, <1>10, <1>11, <1>12, <1>13, <1>14, <1>15, Zenon DEF Progress

-----------------------------------------------------------------------------
(* Edits *)

\* Uncaptured edits wait for the next synchronization; none is in progress.
EditWaits(d) ==
    workspace[d].edits # 0 => At(d, "idle") /\ config[d].commits = {} /\ devices[d] # "absent"

EditsWait == \A d \in Devices : EditWaits(d)

\* Only the capture of all of them takes edits away.
EditsLeave ==
    \A d \in Devices :
        workspace'[d].edits < workspace[d].edits =>
            config'[d].client.next = config[d].client.next + workspace[d].edits

\* No device leaves the service's records.
LEMMA NobodyLeaves ==
    ASSUME LogOrder, [Next]_vars
    PROVE  \A x \in Devices : devices'[x] = "absent" => devices[x] = "absent"
<1>1. devices \in [Devices -> {"absent", "active", "revoked"}]
  BY DEF LogOrder, ServiceInv, ServiceTypeOK
<1>2. devices' = devices \/ \E d \in Devices, state \in {"active", "revoked"} : devices' = [devices EXCEPT ![d] = state]
  <2>1. CASE UNCHANGED vars \/ LatePush \/ ServiceStops
    BY <2>1 DEF vars, serviceVars, LatePush, Push, RejectPush, ServiceStops, ServiceCrash
  <2>2. ASSUME NEW d \in Devices, Edit(d) PROVE devices' = devices
    BY <2>2 DEF Edit, serviceVars
  <2>3. ASSUME NEW d \in Devices, Start(d)
        PROVE  devices' = devices \/ devices' = [devices EXCEPT ![d] = "active"]
    <3>1. CASE Capture(d) \/ \E flow \in {"resume", "startup"} : ResumeCommit(d, flow)
      <4>1. UNCHANGED serviceVars
        BY <3>1, Zenon DEF Capture, ResumeCommit
      <4> QED
        BY <4>1 DEF serviceVars
    <3>2. CASE CreateAccount(d) \/ RecoverAccount(d)
      <4>1. EnrollFirstDevice(d) \/ RecoverDevice(d)
        BY <3>2, Zenon DEF CreateAccount, RecoverAccount
      <4> QED
        BY <4>1 DEF EnrollFirstDevice, RecoverDevice, AddDevice
    <3> QED
      BY <2>3, <3>1, <3>2 DEF Start
  <2>4. ASSUME NEW d \in Devices, Progress(d) PROVE devices' = devices
    <3>1. \/ UNCHANGED serviceVars
          \/ \E r \in requests : Push(r) \/ RejectPush(r)
          \/ \E batch : AuthorizePush(d, batch)
          \/ \E cursor : Acknowledge(d, cursor) \/ \E body : CommitSnapshotManifest(d, cursor, body)
      BY <2>4, Zenon DEF Progress, SendBatch, PushSucceeds, PushFails, EmptyOutbox, PullPage, ApplyBatch,
         ApplyFails, UploadSnapshot, UploadFails, Unauthorized, JournalCommit, CommitWorkspace, FinishCommit,
         SaveWorkspaceAndConfig, AcknowledgeSync, AcknowledgeRefused
    <3> QED
      BY <3>1 DEF serviceVars, Push, RejectPush, AuthorizePush, Acknowledge, CommitSnapshotManifest
  <2>5. ASSUME NEW d \in Devices, Disturbance(d)
        PROVE  devices' = devices \/ \E x \in Devices : devices' = [devices EXCEPT ![x] = "revoked"]
    <3>1. \/ UNCHANGED serviceVars
          \/ \E r \in requests : Push(r)
          \/ \E cursor : \E body : CommitSnapshotManifest(d, cursor, body)
          \/ \E x \in Devices : RevokeDevice(d, x)
      BY <2>5, Zenon DEF Disturbance, PushInterrupted, UploadInterrupted, StepFails, SaveFails, AcknowledgeInterrupted,
         Crash, Disconnect, Revoke
    <3> QED
      BY <3>1 DEF serviceVars, Push, CommitSnapshotManifest, RevokeDevice
  <2> QED
    BY <2>1, <2>2, <2>3, <2>4, <2>5 DEF Next
<1> QED
  BY <1>1, <1>2

\* Documents are left alone, and devices do not start or journal anything.
LEMMA StillWaits ==
    ASSUME EditsWait, workspace' = workspace,
           \A x \in Devices : devices'[x] = "absent" => devices[x] = "absent",
           \A x \in Devices : workspace[x].edits = 0 \/ (session'[x] = session[x] /\ config'[x].commits \subseteq config[x].commits)
    PROVE  EditsWait'
<1> SUFFICES ASSUME NEW d \in Devices, workspace'[d].edits # 0
             PROVE  session'[d].step = "idle" /\ config'[d].commits = {} /\ devices'[d] # "absent"
  BY DEF EditsWait, EditWaits, At
<1>1. session[d].step = "idle" /\ config[d].commits = {} /\ devices[d] # "absent" /\ workspace[d].edits # 0
  BY DEF EditsWait, EditWaits, At
<1> QED
  BY <1>1

\* Every step hands the unsaved edits it drops to an outbox.
LEMMA EditsStep ==
    ASSUME ~EditsDuringSync, LogOrder, EditsWait, [Next]_vars
    PROVE  EditsWait' /\ EditsLeave
<1>1. \A x \in Devices : devices'[x] = "absent" => devices[x] = "absent"
  BY NobodyLeaves
<1>2. /\ Types
      /\ \A x \in Devices : workspace[x] \in Document /\ workspace[x].edits \in Nat /\ EditWaits(x)
  BY DeviceTypes DEF EditsWait, LogOrder
<1>3. ASSUME workspace' = workspace
      PROVE  EditsLeave
  BY <1>2, <1>3 DEF EditsLeave
<1>4. ASSUME NEW d \in Devices,
             Progress(d) \/ PushInterrupted(d) \/ UploadInterrupted(d) \/ StepFails(d) \/ SaveFails(d)
             \/ AcknowledgeInterrupted(d) \/ Crash(d)
      PROVE  EditsWait' /\ EditsLeave
  <2>1. ~At(d, "idle") /\ Alone(d) /\ (workspace'[d].edits = workspace[d].edits \/ workspace'[d].edits = 0)
    BY <1>4, BusyAlone
  <2>2. workspace[d].edits = 0 /\ workspace'[d].edits = 0
    BY <1>2, <2>1 DEF EditWaits
  <2>3. ASSUME NEW x \in Devices \ {d}
        PROVE  workspace'[x] = workspace[x] /\ config'[x] = config[x] /\ session'[x] = session[x] /\ EditWaits(x)
    BY <1>2, <2>1 DEF Alone
  <2>4. EditsWait'
    BY <1>1, <2>2, <2>3 DEF EditsWait, EditWaits, At
  <2>5. EditsLeave
    BY <1>2, <2>2, <2>3 DEF EditsLeave
  <2> QED
    BY <2>4, <2>5
<1>5. ASSUME NEW d \in Devices, Edit(d)
      PROVE  EditsWait' /\ EditsLeave
  <2>1. /\ At(d, "idle") /\ config[d].commits = {} /\ devices[d] # "absent"
        /\ config' = config /\ session' = session /\ devices' = devices
    BY <1>5, DeviceFacts DEF Edit, serviceVars
  <2>2. PICK w : w = [workspace[d] EXCEPT !.edits = @ + 1]
    OBVIOUS
  <2>3. workspace' = [workspace EXCEPT ![d] = w] /\ w.edits = workspace[d].edits + 1
    BY <1>2, <1>5, <2>2 DEF Edit, Document
  <2>4. workspace'[d].edits = workspace[d].edits + 1 /\ \A x \in Devices \ {d} : workspace'[x] = workspace[x]
    BY <1>2, <2>3 DEF Types
  <2>5. EditsWait'
    BY <1>2, <2>1, <2>4 DEF EditsWait, EditWaits, At
  <2>6. EditsLeave
    BY <1>2, <2>4 DEF EditsLeave
  <2> QED
    BY <2>5, <2>6
<1>6. ASSUME NEW d \in Devices, CreateAccount(d) \/ RecoverAccount(d)
      PROVE  EditsWait' /\ EditsLeave
  <2>1. workspace' = workspace /\ devices[d] = "absent"
    <3>1. workspace' = workspace /\ (EnrollFirstDevice(d) \/ RecoverDevice(d))
      BY <1>6, Zenon DEF CreateAccount, RecoverAccount
    <3> QED
      BY <3>1 DEF EnrollFirstDevice, AccountExists, RecoverDevice, AddDevice
  <2>2. workspace[d].edits = 0
    BY <1>2, <2>1 DEF EditWaits
  <2>3. ASSUME NEW x \in Devices \ {d} PROVE config'[x] = config[x] /\ session'[x] = session[x]
    <3>1. /\ config' = config \/ \E c : config' = [config EXCEPT ![d] = c]
          /\ session' = session \/ \E s : session' = [session EXCEPT ![d] = s]
      BY <1>6, Zenon DEF CreateAccount, RecoverAccount
    <3> QED
      BY <1>2, <3>1 DEF Types
  <2> QED
    BY <1>1, <1>3, <2>1, <2>2, <2>3, StillWaits
<1>7. ASSUME NEW d \in Devices, Capture(d)
      PROVE  EditsWait' /\ EditsLeave
  <2>1. PICK last \in Nat, document \in SUBSET Ops, advanced \in Client : Captures(d, last, document, advanced)
    BY <1>7, CaptureIs
  <2>2. PICK w : w = [workspace[d] EXCEPT !.ops = document, !.edits = 0, !.touched = FALSE]
    OBVIOUS
  <2>3. workspace' = [workspace EXCEPT ![d] = w] /\ w.edits = 0
    BY <1>2, <2>1, <2>2 DEF Captures, Document
  <2>4. PICK c : c = [config[d] EXCEPT !.baseline = document, !.client = advanced]
    OBVIOUS
  <2>5. config' = [config EXCEPT ![d] = c] /\ c.client = advanced
    BY <1>2, <2>1, <2>4, DeviceTypes DEF Captures, Config
  <2>6. \E s : session' = [session EXCEPT ![d] = s]
    BY <2>1 DEF Captures
  <2>7. /\ \A x \in Devices \ {d} : workspace'[x] = workspace[x] /\ config'[x] = config[x] /\ session'[x] = session[x]
        /\ workspace'[d].edits = 0 /\ config'[d].client.next = last + 1
    <3>1. workspace'[d] = w /\ config'[d] = c
      BY <1>2, <2>3, <2>5 DEF Types
    <3>2. Alone(d)
      BY <1>2, <2>3, <2>5, <2>6, StepsAlone
    <3> QED
      BY <2>1, <2>3, <2>5, <3>1, <3>2 DEF Alone, Captures
  <2>8. workspace[d].edits > 0 => last + 1 = config[d].client.next + workspace[d].edits
    <3>1. config[d].client.next \in Nat
      BY <1>2, DeviceTypes, ClientTypes
    <3> QED
      BY <1>2, <2>1, <3>1 DEF Captures
  <2>9. EditsWait'
    BY <1>1, <1>2, <2>7 DEF EditsWait, EditWaits, At
  <2>10. EditsLeave
    BY <1>2, <2>7, <2>8 DEF EditsLeave
  <2> QED
    BY <2>9, <2>10
<1>8. ASSUME NEW d \in Devices, NEW flow \in {"resume", "startup"}, ResumeCommit(d, flow)
      PROVE  EditsWait' /\ EditsLeave
  <2>1. workspace' = workspace /\ config' = config /\ config[d].commits # {} /\ \E s : session' = [session EXCEPT ![d] = s]
    BY <1>8, Zenon DEF ResumeCommit
  <2>2. workspace[d].edits = 0
    BY <1>2, <2>1 DEF EditWaits
  <2>3. \A x \in Devices \ {d} : session'[x] = session[x]
    BY <1>2, <2>1 DEF Types
  <2> QED
    BY <1>1, <1>3, <2>1, <2>2, <2>3, StillWaits
<1>9. ASSUME NEW d \in Devices, Disconnect(d)
      PROVE  EditsWait' /\ EditsLeave
  <2>1. workspace' = workspace /\ session' = session /\ config' = [config EXCEPT ![d] = NoConfig]
    BY <1>9 DEF Disconnect
  <2>2. \A x \in Devices : config'[x].commits \subseteq config[x].commits
    BY <1>2, <2>1, FreshTypes DEF Types
  <2> QED
    BY <1>1, <1>3, <2>1, <2>2, StillWaits
<1>10. CASE \/ UNCHANGED vars \/ LatePush
            \/ \E owner \in Devices : \E d \in Devices : Revoke(owner, d)
  <2>1. workspace' = workspace /\ session' = session /\ config' = config
    BY <1>10 DEF vars, clientVars, LatePush, Revoke
  <2> QED
    BY <1>1, <1>3, <2>1, StillWaits
<1>11. CASE ServiceStops
  <2>1. /\ workspace' = workspace
        /\ \A d \in Devices : ~At(d, "pushing") => session'[d] = session[d] /\ config'[d] = config[d]
    BY <1>11, Zenon DEF ServiceStops
  <2>2. \A d \in Devices : At(d, "pushing") => workspace[d].edits = 0
    BY <1>2 DEF EditWaits, At
  <2> QED
    BY <1>1, <1>3, <2>1, <2>2, StillWaits
<1> QED
  BY <1>4, <1>5, <1>6, <1>7, <1>8, <1>9, <1>10, <1>11 DEF Next, Start, Disturbance

\* No edit is lost on the way into the outbox: whatever device, failure, resumed
\* commit or saved document, edits leave the store only by becoming as many
\* numbered operations (sync-manager.ts synchronizeOnce, mobile sync.ts), as long
\* as the user does not edit while a synchronization is in progress.
THEOREM EditsAreCaptured ==
    ASSUME Served, ~EditsDuringSync
    PROVE  Spec => EditsReachOutbox
<1>1. Init => EditsWait
  BY FreshTypes DEF Init, EditsWait, EditWaits
<1>2. EditsWait /\ LogOrder /\ [Next]_vars => EditsWait'
  BY EditsStep
<1>3. LogOrder /\ EditsWait /\ [Next]_vars =>
         [\A d \in Devices :
             workspace'[d].edits < workspace[d].edits =>
                 config'[d].client.next = config[d].client.next + workspace[d].edits]_vars
  BY EditsStep DEF EditsLeave
<1>4. Spec => []LogOrder
  BY LogsAreOrdered
<1> QED
  BY <1>1, <1>2, <1>3, <1>4, PTL DEF Spec, EditsReachOutbox

-----------------------------------------------------------------------------
(* What WorkspaceSync keeps when devices take turns: stored documents,      *)
(* snapshots and acknowledgements are right about each other, and the       *)
(* devices implement a replicated set of operations.                        *)

\* Devices take turns and join an account that has synchronized something; the
\* faults leave out those after which a device skips operations (a failed upload
\* or download) or takes another document for its own (a failed save of a
\* mobile), and documents hold nothing that a commit leaves out.
Orderly ==
    /\ Established /\ ~Concurrent
    /\ Faults \cap {"upload", "download", "save"} = {}
    /\ AnkiImports = {} /\ ClientState = {} /\ Deletions = {}

-----------------------------------------------------------------------------
(* Documents, snapshots and acknowledgements.  What is said of a device is    *)
(* said of its stored document w and configuration c, its synchronization s,  *)
(* its status at the service, what it has acknowledged, ack, the watermarks max,   *)
(* the compaction floor, low, and the cursor of the newest snapshot.          *)

\* What a client has numbered.
Own(d, client) == {d} \X (1 .. client.next - 1)

\* An active device that has a cursor is ahead of the floor.
Ahead(status, low, cursor) == status = "active" => cursor = NoCursor \/ Dominates(cursor, low)

\* A pending commit: its document is what its cursor says and has all that is
\* stored; if it brings nothing new the store has it already.
JournalInOrder(status, low, d, w, c, commit) ==
    /\ commit.document = Covered(commit.client.cursor)
    /\ commit.client.cursor[d] = commit.client.next - 1
    /\ d # FirstDevice => commit.client.cursor # NoCursor
    /\ Dominates(commit.client.cursor, c.client.cursor)
    /\ w.ops \subseteq commit.document
    /\ w.account /\ ~commit.received => w.ops = commit.document
    /\ Ahead(status, low, commit.client.cursor)
    /\ \A other \in c.commits : other.client = commit.client

\* The two stores: the document of a linked device is what its cursor says and
\* what it wrote itself, unless the device was revoked or a commit is pending.
StoresInOrder(status, ack, max, low, d, w, c) ==
    /\ d = FirstDevice => w.account
    /\ d # FirstDevice /\ w.account => d \in Mobile /\ (c.linked => c.client.cursor # NoCursor)
    /\ w.ops \subseteq Covered(max) \cup ({d} \X (1 .. MaxSequence))
    /\ ~c.linked => c.client.cursor = NoCursor
    /\ c.linked =>
          /\ Covered(ack) \subseteq w.ops
          /\ w.ops \subseteq Covered(max) \cup Own(d, c.client)
          /\ Ahead(status, low, c.client.cursor)
    /\ c.linked /\ c.commits = {} =>
          /\ c.baseline = w.ops
          /\ status = "active" => w.ops = Covered(c.client.cursor) \cup Own(d, c.client)
    /\ \A commit \in c.commits : JournalInOrder(status, low, d, w, c, commit)

\* A synchronization before anything is applied.
StartedInOrder(w, c, s) ==
    s.step \in Sending \cup Pulling =>
        /\ s.client.cursor = c.client.cursor /\ c.commits = {} /\ s.flow \in {"create", "recover", "sync"}
        /\ s.step \in Sending => s.working = w.ops /\ s.pending = {} /\ ~s.received

\* What is pulled is what the cursor says, the device's own operations aside; the
\* last page brings everything.
PulledInOrder(status, low, newest, d, w, s) ==
    s.step \in Pulling /\ (status = "active" \/ s.step = "apply") =>
        /\ Covered(s.reached) \subseteq s.working \cup s.pending
        /\ s.working \cup s.pending \subseteq Covered(s.reached) \cup Own(d, s.client)
        /\ w.ops \subseteq Covered(s.reached) \cup Own(d, s.client)
        /\ s.flow # "recover" /\ ~s.received => w.ops = Covered(s.reached) \cup Own(d, s.client)
        /\ Ahead(status, low, s.reached)
        /\ s.step = "apply" =>
              /\ s.reached[d] = s.client.next - 1
              /\ d # FirstDevice => s.reached # NoCursor
              /\ Dominates(s.reached, newest)

\* What was applied is what the cursor says, and nothing stored is missing; what
\* is not committed is stored already.
AppliedInOrder(status, low, newest, d, w, c, s) ==
    s.step \in Applied =>
        /\ s.working = Covered(s.client.cursor)
        /\ s.client.cursor[d] = s.client.next - 1
        /\ d # FirstDevice => s.client.cursor # NoCursor
        /\ Ahead(status, low, s.client.cursor)
        /\ Dominates(s.client.cursor, c.client.cursor)
        /\ w.ops \subseteq s.working
        /\ ~Commits(s) => w.ops = s.working
        /\ s.step = "upload" => Dominates(s.client.cursor, newest)
        /\ s.step \in {"upload", "download"} => c.commits = {} /\ s.flow \in {"create", "recover", "sync"}
        /\ s.step \in {"commit", "finish"} => c.commits # {} /\ \A commit \in c.commits : commit.client = s.client
        /\ s.step = "finish" => w.ops = s.working

\* Who synchronizes how.
FlowInOrder(d, w, c, s) ==
    s.step # "idle" =>
        /\ s.flow = "create" =>
              /\ d = FirstDevice /\ s.client.next = 1 /\ ~s.received
              /\ s.step \in Sending \cup Pulling => c.client.cursor = NoCursor
        /\ s.flow = "recover" => d # FirstDevice
        /\ s.flow \in {"sync", "resume", "startup"} => w.account

SessionInOrder(status, low, newest, d, w, c, s) ==
    /\ StartedInOrder(w, c, s)
    /\ PulledInOrder(status, low, newest, d, w, s)
    /\ AppliedInOrder(status, low, newest, d, w, c, s)
    /\ FlowInOrder(d, w, c, s)

\* The cursor of the newest snapshot.
Newest == IF manifests = <<>> THEN NoCursor ELSE Latest.through

StoredInOrder(d) ==
    StoresInOrder(devices[d], acknowledged[d], maxSequence, floor, d, workspace[d], config[d])

RunsInOrder(d) ==
    SessionInOrder(devices[d], floor, Newest, d, workspace[d], config[d], session[d])

\* The first device is the first one, and alone until it has synchronized; a
\* device that is not enrolled has nothing; one device synchronizes at a time.
Joined ==
    /\ devices[FirstDevice] = "absent" => \A d \in Devices : devices[d] = "absent"
    /\ config[FirstDevice].linked /\ config[FirstDevice].client.cursor = NoCursor =>
          \A d \in Devices \ {FirstDevice} : devices[d] = "absent"
    /\ \A d \in Devices \ {FirstDevice} : devices[d] # "absent" => maxSequence # NoCursor
    /\ \A d \in Devices :
          devices[d] = "absent" => workspace[d].ops = {} /\ (workspace[d].account <=> d = FirstDevice)
    /\ \A d, x \in Devices : ~At(d, "idle") /\ ~At(x, "idle") => d = x

\* A snapshot is the document its cursor says.
Snapshots == \A i \in DOMAIN manifests : manifests[i].body = Covered(manifests[i].through)

\* Pushes on the way are of operations their device holds.
Held(r) == \A i \in DOMAIN r.batch : <<r.device, r.batch[i]>> \in workspace[r.device].ops

RequestsHeld == \A r \in requests : Held(r)

Order ==
    /\ LogOrder /\ reverts = {} /\ IsFiniteSet(operations)
    /\ Joined /\ Snapshots /\ RequestsHeld
    /\ \A d \in Devices : StoredInOrder(d) /\ RunsInOrder(d)

-----------------------------------------------------------------------------
(* Lemmas about cursors *)

\* What a cursor covers.
LEMMA CoveredIs ==
    ASSUME NEW cursor \in Cursor
    PROVE  /\ \A a \in Devices : \A n : <<a, n>> \in Covered(cursor) <=> n \in 1 .. cursor[a]
           /\ \A o \in Covered(cursor) : o[1] \in Devices /\ o = <<o[1], o[2]>> /\ o[2] \in 1 .. cursor[o[1]]
<1>1. ASSUME NEW a \in Devices, NEW n
      PROVE  <<a, n>> \in Covered(cursor) <=> n \in 1 .. cursor[a]
  BY DEF Covered
<1>2. ASSUME NEW o \in Covered(cursor)
      PROVE  o[1] \in Devices /\ o = <<o[1], o[2]>> /\ o[2] \in 1 .. cursor[o[1]]
  <2>1. PICK a \in Devices : o \in {a} \X (1 .. cursor[a])
    BY DEF Covered
  <2> QED
    BY <2>1
<1> QED
  BY <1>1, <1>2

\* A later cursor covers more.
LEMMA CoveredGrows ==
    ASSUME NEW later \in Cursor, NEW cursor \in Cursor, Dominates(later, cursor)
    PROVE  Covered(cursor) \subseteq Covered(later)
<1> SUFFICES ASSUME NEW o \in Covered(cursor) PROVE o \in Covered(later)
  OBVIOUS
<1>1. o[1] \in Devices /\ o = <<o[1], o[2]>> /\ o[2] \in 1 .. cursor[o[1]]
  BY CoveredIs
<1>2. cursor[o[1]] \in Nat /\ later[o[1]] \in Nat /\ later[o[1]] >= cursor[o[1]]
  BY <1>1 DEF Cursor, Dominates
<1>3. o[2] \in 1 .. later[o[1]]
  BY <1>1, <1>2
<1> QED
  BY <1>1, <1>3, CoveredIs

\* Domination is an order.
LEMMA DominatesIsOrder ==
    ASSUME NEW a \in Cursor, NEW b \in Cursor, NEW c \in Cursor
    PROVE  /\ Dominates(a, a) /\ (Dominates(a, b) /\ Dominates(b, c) => Dominates(a, c))
           /\ Dominates(a, NoCursor) /\ (Dominates(NoCursor, a) => a = NoCursor)
<1>1. \A x \in Devices : a[x] \in Nat /\ b[x] \in Nat /\ c[x] \in Nat /\ NoCursor[x] = 0
  BY DEF Cursor, NoCursor
<1>2. Dominates(NoCursor, a) => a = NoCursor
  <2> SUFFICES ASSUME Dominates(NoCursor, a) PROVE a = NoCursor
    OBVIOUS
  <2>1. \A x \in Devices : a[x] = 0
    BY <1>1 DEF Dominates
  <2> QED
    BY <2>1 DEF Cursor, NoCursor
<1> QED
  BY <1>1, <1>2 DEF Dominates

\* A replica that never pulled has covered nothing.
LEMMA CoveredNothing == Covered(NoCursor) = {} /\ NoCursor \in Cursor
<1>1. NoCursor \in Cursor /\ \A x \in Devices : NoCursor[x] = 0
  BY DEF NoCursor, Cursor
<1>2. ASSUME NEW o \in Covered(NoCursor) PROVE FALSE
  BY <1>1, CoveredIs
<1> QED
  BY <1>1, <1>2

\* What the cursor covers of its own device.
LEMMA OwnCovered ==
    ASSUME NEW cursor \in Cursor, NEW d \in Devices, NEW client \in Client
    PROVE  /\ cursor[d] = client.next - 1 => Own(d, client) \subseteq Covered(cursor)
           /\ \A n : <<d, n>> \in Own(d, client) <=> n \in 1 .. client.next - 1
           /\ \A o \in Own(d, client) : o[1] = d /\ o = <<o[1], o[2]>>
           /\ \A other : other.next = client.next => Own(d, other) = Own(d, client)
           /\ Own(d, client) \subseteq {d} \X (1 .. MaxSequence)
<1>1. client.next - 1 \in 0 .. MaxSequence /\ MaxSequence \in Nat
  BY ClientTypes, LimitAssumption
<1>2. cursor[d] = client.next - 1 => Own(d, client) \subseteq Covered(cursor)
  BY CoveredIs DEF Own
<1>3. Own(d, client) \subseteq {d} \X (1 .. MaxSequence)
  BY <1>1 DEF Own
<1> QED
  BY <1>2, <1>3 DEF Own

\* The newest snapshot is in the log, and reaches the floor.
LEMMA NewestIs ==
    ASSUME ServiceInv
    PROVE  Newest \in Cursor /\ Dominates(maxSequence, Newest) /\ Dominates(Newest, floor)
<1>1. maxSequence \in Cursor /\ floor \in Cursor /\ NoCursor \in Cursor
  BY ServiceTypes
<1>2. CASE manifests = <<>>
  <2>1. Newest = NoCursor /\ floor = NoCursor
    BY <1>2 DEF Newest, ServiceInv, SnapshotCoversFloor
  <2> QED
    BY <1>1, <2>1, DominatesIsOrder
<1>3. CASE manifests # <<>>
  <2>1. /\ Newest = Latest.through /\ Latest.through \in Cursor /\ Len(manifests) \in DOMAIN manifests
    BY <1>3, LatestIsManifest DEF Newest, ServiceInv
  <2>2. Dominates(maxSequence, Latest.through)
    BY <2>1 DEF ServiceInv, ClaimsWithinLog, Latest
  <2>3. Dominates(Latest.through, floor)
    BY <1>1, <2>1, DominatesIsOrder DEF ServiceInv, SnapshotCoversFloor
  <2> QED
    BY <2>1, <2>2, <2>3
<1> QED
  BY <1>2, <1>3

-----------------------------------------------------------------------------
(* Lemmas about a device while others act *)

\* What is known of a device.
LEMMA OrderFacts ==
    ASSUME Order, NEW d \in Devices
    PROVE  /\ LogOrder /\ ServiceInv /\ Types /\ reverts = {}
           /\ workspace[d] \in Document /\ config[d] \in Config /\ session[d] \in Session
           /\ config[d].client \in Client /\ session[d].client \in Client
           /\ maxSequence \in Cursor /\ floor \in Cursor /\ acknowledged[d] \in Cursor /\ Newest \in Cursor
           /\ ConfigInLine(maxSequence, acknowledged[d], d, config[d])
           /\ SessionInLine(maxSequence, acknowledged[d], d, config[d], session[d])
           /\ StoresInOrder(devices[d], acknowledged[d], maxSequence, floor, d, workspace[d], config[d])
           /\ SessionInOrder(devices[d], floor, Newest, d, workspace[d], config[d], session[d])
           /\ config[d].linked => devices[d] # "absent"
           /\ ~At(d, "idle") =>
                 config[d].linked /\ devices[d] # "absent" /\ \A x \in Devices \ {d} : At(x, "idle")
<1>1. LogOrder /\ ServiceInv /\ Types /\ reverts = {}
  BY DEF Order, LogOrder
<1>2. /\ workspace[d] \in Document /\ config[d] \in Config /\ session[d] \in Session
      /\ maxSequence \in Cursor /\ acknowledged[d] \in Cursor
      /\ DeviceInLine(maxSequence, acknowledged[d], d, config[d], session[d])
      /\ config[d].linked => devices[d] # "absent"
      /\ ~At(d, "idle") => config[d].linked /\ devices[d] # "absent"
  BY <1>1, DeviceFacts
<1>3. config[d].client \in Client /\ session[d].client \in Client /\ floor \in Cursor /\ Newest \in Cursor
  BY <1>1, DeviceTypes, ServiceTypes, NewestIs
<1>4. /\ StoresInOrder(devices[d], acknowledged[d], maxSequence, floor, d, workspace[d], config[d])
      /\ SessionInOrder(devices[d], floor, Newest, d, workspace[d], config[d], session[d])
  BY DEF Order, StoredInOrder, RunsInOrder
<1>5. ~At(d, "idle") => \A x \in Devices \ {d} : At(x, "idle")
  BY DEF Order, Joined
<1> QED
  BY <1>1, <1>2, <1>3, <1>4, <1>5 DEF DeviceInLine

\* A device that does not synchronize.
LEMMA IdleInOrder ==
    ASSUME NEW status, NEW low, NEW newest, NEW d, NEW w, NEW c, NEW s, s.step = "idle"
    PROVE  SessionInOrder(status, low, newest, d, w, c, s)
  BY DEF SessionInOrder, StartedInOrder, PulledInOrder, AppliedInOrder, FlowInOrder, Sending, Pulling, Applied

\* Compaction stays behind what an active device has acknowledged, and so behind
\* its cursors.
LEMMA AheadStays ==
    ASSUME NEW status, NEW now, now = "active" => status = "active", NEW low \in Cursor, NEW risen \in Cursor,
           NEW ack \in Cursor, NEW cursor \in Cursor, Ahead(status, low, cursor), Dominates(cursor, ack),
           risen = low \/ (now = "active" => Dominates(ack, risen))
    PROVE  Ahead(now, risen, cursor)
  BY DominatesIsOrder DEF Ahead

\* The stores of a device stay right while the service goes on.
LEMMA StoresStay ==
    ASSUME NEW status, NEW now, now = "active" => status = "active", NEW low \in Cursor, NEW risen \in Cursor,
           NEW max \in Cursor, NEW later \in Cursor, Dominates(later, max), NEW ack \in Cursor,
           risen = low \/ (now = "active" => Dominates(ack, risen)),
           NEW d \in Devices, NEW w, NEW c \in Config, ConfigInLine(later, ack, d, c),
           StoresInOrder(status, ack, max, low, d, w, c)
    PROVE  StoresInOrder(now, ack, later, risen, d, w, c)
<1>1. Covered(max) \subseteq Covered(later)
  BY CoveredGrows
<1>2. c.linked => Ahead(now, risen, c.client.cursor)
  <2>1. c.linked => Dominates(c.client.cursor, ack) /\ Ahead(status, low, c.client.cursor)
    BY DEF ConfigInLine, InLine, StoresInOrder
  <2>2. c.client.cursor \in Cursor
    BY ClientTypes DEF Config
  <2> QED
    BY <2>1, <2>2, AheadStays
<1>3. ASSUME NEW commit \in c.commits
      PROVE  JournalInOrder(now, risen, d, w, c, commit)
  <2>1. JournalInOrder(status, low, d, w, c, commit) /\ Dominates(commit.client.cursor, ack)
    BY DEF ConfigInLine, InLine, StoresInOrder
  <2>2. commit.client.cursor \in Cursor
    BY ClientTypes DEF Config, Commit
  <2>3. Ahead(now, risen, commit.client.cursor)
    BY <2>1, <2>2, AheadStays DEF JournalInOrder
  <2> QED
    BY <2>1, <2>3 DEF JournalInOrder
<1> QED
  BY <1>1, <1>2, <1>3 DEF StoresInOrder

\* So does its synchronization, unless a new snapshot is stored.
LEMMA SessionStays ==
    ASSUME NEW status, NEW now, now = "active" => status = "active", NEW low \in Cursor, NEW risen \in Cursor,
           NEW max \in Cursor, NEW ack \in Cursor, risen = low \/ (now = "active" => Dominates(ack, risen)),
           NEW newest, NEW d \in Devices, NEW w, NEW c, NEW s \in Session,
           SessionInLine(max, ack, d, c, s), SessionInOrder(status, low, newest, d, w, c, s)
    PROVE  SessionInOrder(now, risen, newest, d, w, c, s)
<1>1. s.client \in Client /\ s.client.cursor \in Cursor /\ s.reached \in Cursor
  BY ClientTypes DEF Session
<1>2. s.step \in Pulling => Dominates(s.reached, ack)
  BY <1>1, DominatesIsOrder DEF SessionInLine, InLine, Pulling
<1>3. s.step \in Applied => Dominates(s.client.cursor, ack)
  BY DEF SessionInLine, InLine, Applied
<1>4. PulledInOrder(now, risen, newest, d, w, s)
  <2> SUFFICES ASSUME s.step \in Pulling, now = "active" \/ s.step = "apply"
               PROVE  PulledInOrder(now, risen, newest, d, w, s)
    BY DEF PulledInOrder
  <2>1. PulledInOrder(status, low, newest, d, w, s)
    BY DEF SessionInOrder
  <2>2. Ahead(status, low, s.reached)
    BY <2>1 DEF PulledInOrder
  <2>3. Ahead(now, risen, s.reached)
    BY <1>1, <1>2, <2>2, AheadStays
  <2> QED
    BY <2>1, <2>3 DEF PulledInOrder
<1>5. AppliedInOrder(now, risen, newest, d, w, c, s)
  <2> SUFFICES ASSUME s.step \in Applied PROVE AppliedInOrder(now, risen, newest, d, w, c, s)
    BY DEF AppliedInOrder
  <2>1. AppliedInOrder(status, low, newest, d, w, c, s)
    BY DEF SessionInOrder
  <2>2. Ahead(now, risen, s.client.cursor)
    BY <1>1, <1>3, <2>1, AheadStays DEF AppliedInOrder
  <2> QED
    BY <2>1, <2>2 DEF AppliedInOrder
<1> QED
  BY <1>4, <1>5 DEF SessionInOrder

-----------------------------------------------------------------------------
(* Lemmas about steps *)

\* What a step may do to the service: the log grows, nobody joins, history is
\* compacted behind what every active device has acknowledged.
Steady ==
    /\ IsFiniteSet(operations') /\ Dominates(maxSequence', maxSequence)
    /\ \A x \in Devices : Active(x)' => Active(x)
    /\ \A x \in Devices : devices'[x] = "absent" <=> devices[x] = "absent"
    /\ floor' = floor \/ \A x \in Devices : Active(x)' => Dominates(acknowledged'[x], floor')

\* One device takes a step.
LEMMA OneMoves ==
    ASSUME Order, LogOrder', NEW d \in Devices, Alone(d), reverts' = {}, IsFiniteSet(operations'),
           Joined', Snapshots', RequestsHeld', StoredInOrder(d)', RunsInOrder(d)',
           Dominates(maxSequence', maxSequence),
           \A x \in Devices \ {d} : (Active(x)' => Active(x)) /\ acknowledged'[x] = acknowledged[x],
           floor' = floor \/ \A x \in Devices : Active(x)' => Dominates(acknowledged'[x], floor'),
           Newest' = Newest \/ \A x \in Devices \ {d} : At(x, "idle")
    PROVE  Order'
<1>1. ASSUME NEW x \in Devices \ {d}
      PROVE  StoredInOrder(x)' /\ RunsInOrder(x)'
  <2>1. /\ config[x] \in Config /\ session[x] \in Session /\ maxSequence \in Cursor /\ floor \in Cursor
        /\ acknowledged[x] \in Cursor /\ Newest \in Cursor
        /\ StoresInOrder(devices[x], acknowledged[x], maxSequence, floor, x, workspace[x], config[x])
        /\ SessionInOrder(devices[x], floor, Newest, x, workspace[x], config[x], session[x])
    BY OrderFacts
  <2>2. /\ workspace'[x] = workspace[x] /\ config'[x] = config[x] /\ session'[x] = session[x]
        /\ acknowledged'[x] = acknowledged[x]
    BY DEF Alone
  <2>3. /\ DeviceInLine(maxSequence', acknowledged'[x], x, config'[x], session'[x])
        /\ maxSequence' \in Cursor /\ floor' \in Cursor
    BY DEF LogOrder, ServiceInv, ServiceTypeOK
  <2>4. /\ ConfigInLine(maxSequence', acknowledged[x], x, config[x])
        /\ SessionInLine(maxSequence', acknowledged[x], x, config[x], session[x])
    BY <2>2, <2>3 DEF DeviceInLine
  <2>5. /\ devices'[x] = "active" => devices[x] = "active"
        /\ floor' = floor \/ (devices'[x] = "active" => Dominates(acknowledged[x], floor'))
    BY <2>2 DEF Active
  <2>6. StoresInOrder(devices'[x], acknowledged[x], maxSequence', floor', x, workspace[x], config[x])
    BY <2>1, <2>3, <2>4, <2>5, StoresStay
  <2>7. SessionInOrder(devices'[x], floor', Newest', x, workspace[x], config[x], session[x])
    <3>1. CASE Newest' = Newest
      <4>1. SessionInOrder(devices'[x], floor', Newest, x, workspace[x], config[x], session[x])
        BY <2>1, <2>3, <2>4, <2>5, SessionStays
      <4> QED
        BY <3>1, <4>1
    <3>2. CASE At(x, "idle")
      BY <3>2, IdleInOrder DEF At
    <3> QED
      BY <3>1, <3>2
  <2> QED
    BY <2>2, <2>6, <2>7 DEF StoredInOrder, RunsInOrder
<1>2. \A x \in Devices : StoredInOrder(x)' /\ RunsInOrder(x)'
  BY <1>1
<1> QED
  BY <1>2 DEF Order

\* One device stores something, or goes on with its synchronization.
LEMMA GoesOn ==
    ASSUME Order, LogOrder', Steady, reverts' = reverts, NEW d \in Devices, NEW w, NEW c, NEW s,
           workspace' = [workspace EXCEPT ![d] = w], config' = [config EXCEPT ![d] = c],
           session' = [session EXCEPT ![d] = s],
           workspace[d].ops \subseteq w.ops, devices[d] = "absent" => w = workspace[d],
           c.linked => config[d].linked /\ Dominates(c.client.cursor, config[d].client.cursor),
           s.step = "idle" \/ ~At(d, "idle") \/ \A x \in Devices \ {d} : At(x, "idle"),
           \A r \in requests' \ requests : Held(r),
           \A x \in Devices \ {d} : acknowledged'[x] = acknowledged[x],
           Snapshots', Newest' = Newest \/ \A x \in Devices \ {d} : At(x, "idle"),
           StoresInOrder(devices'[d], acknowledged'[d], maxSequence', floor', d, w, c),
           SessionInOrder(devices'[d], floor', Newest', d, w, c, s)
    PROVE  Order'
<1>1. LogOrder /\ ServiceInv /\ Types /\ reverts = {}
  BY DEF Order, LogOrder
<1>2. /\ workspace'[d] = w /\ config'[d] = c /\ session'[d] = s
      /\ \A x \in Devices \ {d} :
            workspace'[x] = workspace[x] /\ config'[x] = config[x] /\ session'[x] = session[x]
  BY <1>1 DEF Types
<1>3. Alone(d) /\ StoredInOrder(d)' /\ RunsInOrder(d)'
  BY <1>2 DEF Alone, StoredInOrder, RunsInOrder
<1>4. RequestsHeld'
  <2> SUFFICES ASSUME NEW r \in requests' PROVE Held(r)'
    BY DEF RequestsHeld
  <2>1. Held(r)
    BY DEF Order, RequestsHeld
  <2>2. r.device \in Devices
    BY DEF LogOrder, ServiceInv, ServiceTypeOK, Request
  <2>3. workspace[r.device].ops \subseteq workspace'[r.device].ops
    BY <1>2, <2>2
  <2> QED
    BY <2>1, <2>3 DEF Held
<1>5. Joined'
  <2>1. \A x \in Devices : devices'[x] = "absent" <=> devices[x] = "absent"
    BY DEF Steady
  <2>2. Joined
    BY DEF Order
  <2>3. FirstDevice \in Devices
    BY HostAssumption
  <2>4. devices'[FirstDevice] = "absent" => \A x \in Devices : devices'[x] = "absent"
    BY <2>1, <2>2, <2>3 DEF Joined
  <2>5. config'[FirstDevice].linked /\ config'[FirstDevice].client.cursor = NoCursor =>
          \A x \in Devices \ {FirstDevice} : devices'[x] = "absent"
    <3> SUFFICES ASSUME config'[FirstDevice].linked, config'[FirstDevice].client.cursor = NoCursor
                 PROVE  config[FirstDevice].linked /\ config[FirstDevice].client.cursor = NoCursor
      BY <2>1, <2>2 DEF Joined
    <3>1. CASE d # FirstDevice
      BY <1>2, <2>3, <3>1
    <3>2. CASE d = FirstDevice
      <4>1. config[d].linked /\ Dominates(NoCursor, config[d].client.cursor)
        BY <1>2, <3>2
      <4>2. config[d].client.cursor \in Cursor
        BY OrderFacts, ClientTypes
      <4> QED
        BY <3>2, <4>1, <4>2, DominatesIsOrder
    <3> QED
      BY <3>1, <3>2
  <2>6. ASSUME NEW x \in Devices \ {FirstDevice}, devices'[x] # "absent"
        PROVE  maxSequence' # NoCursor
    <3>1. maxSequence # NoCursor /\ maxSequence \in Cursor
      BY <1>1, <2>1, <2>2, <2>6, ServiceTypes DEF Joined
    <3> QED
      BY <3>1, DominatesIsOrder DEF Steady
  <2>7. ASSUME NEW x \in Devices, devices'[x] = "absent"
        PROVE  workspace'[x].ops = {} /\ (workspace'[x].account <=> x = FirstDevice)
    <3>1. workspace'[x] = workspace[x]
      BY <1>2, <2>1, <2>7
    <3> QED
      BY <2>1, <2>2, <2>7, <3>1 DEF Joined
  <2>8. \A x, y \in Devices : ~At(x, "idle")' /\ ~At(y, "idle")' => x = y
    <3>1. s.step = "idle" \/ \A x \in Devices \ {d} : At(x, "idle")
      BY <2>2 DEF Joined
    <3> QED
      BY <1>2, <2>2, <3>1 DEF Joined, At
  <2> QED
    BY <2>4, <2>5, <2>6, <2>7, <2>8 DEF Joined
<1> QED
  BY <1>1, <1>2, <1>3, <1>4, <1>5, OneMoves DEF Steady

\* The service stays as it is.
LEMMA SteadyAlone ==
    ASSUME Order, UNCHANGED serviceVars
    PROVE  Steady /\ Newest' = Newest /\ Snapshots'
<1>1. LogOrder /\ ServiceInv /\ IsFiniteSet(operations) /\ Snapshots /\ maxSequence \in Cursor
  BY ServiceTypes DEF Order, LogOrder
<1>2. Dominates(maxSequence', maxSequence)
  BY <1>1, SameService, DominatesIsOrder
<1> QED
  BY <1>1, <1>2, SameService DEF Steady, Newest, Latest, Snapshots

\* A device does something of its own.
LEMMA LocalGoesOn ==
    ASSUME Order, LogOrder', UNCHANGED serviceVars, reverts' = reverts, NEW d \in Devices, NEW w, NEW c, NEW s,
           workspace' = [workspace EXCEPT ![d] = w], config' = [config EXCEPT ![d] = c],
           session' = [session EXCEPT ![d] = s],
           workspace[d].ops \subseteq w.ops, devices[d] = "absent" => w = workspace[d],
           c.linked => config[d].linked /\ Dominates(c.client.cursor, config[d].client.cursor),
           s.step = "idle" \/ ~At(d, "idle") \/ \A x \in Devices \ {d} : At(x, "idle"),
           StoresInOrder(devices[d], acknowledged[d], maxSequence, floor, d, w, c),
           SessionInOrder(devices[d], floor, Newest, d, w, c, s)
    PROVE  Order'
<1>1. Steady /\ Newest' = Newest /\ Snapshots'
  BY SteadyAlone
<1>2. /\ devices' = devices /\ requests' = requests /\ acknowledged' = acknowledged
      /\ maxSequence' = maxSequence /\ floor' = floor
  BY SameService
<1>3. /\ StoresInOrder(devices'[d], acknowledged'[d], maxSequence', floor', d, w, c)
      /\ SessionInOrder(devices'[d], floor', Newest', d, w, c, s)
  BY <1>1, <1>2
<1> QED
  BY <1>1, <1>2, <1>3, GoesOn

\* A device goes on with its synchronization.
LEMMA SessionGoesOn ==
    ASSUME Order, LogOrder', UNCHANGED <<serviceVars, workspace, config, reverts>>, NEW d \in Devices, NEW s,
           session' = [session EXCEPT ![d] = s],
           s.step = "idle" \/ ~At(d, "idle") \/ \A x \in Devices \ {d} : At(x, "idle"),
           SessionInOrder(devices[d], floor, Newest, d, workspace[d], config[d], s)
    PROVE  Order'
<1>1. /\ Types /\ config[d] \in Config /\ config[d].client.cursor \in Cursor
      /\ StoresInOrder(devices[d], acknowledged[d], maxSequence, floor, d, workspace[d], config[d])
  BY OrderFacts, ClientTypes
<1>2. workspace' = [workspace EXCEPT ![d] = workspace[d]] /\ config' = [config EXCEPT ![d] = config[d]]
  BY <1>1 DEF Types
<1>3. Dominates(config[d].client.cursor, config[d].client.cursor) /\ UNCHANGED serviceVars /\ reverts' = reverts
  BY <1>1, DominatesIsOrder
<1> QED
  BY <1>1, <1>2, <1>3, LocalGoesOn

\* A synchronization ends and leaves what is stored.
LEMMA EndsInOrder ==
    ASSUME Order, LogOrder', NEW d \in Devices, AcknowledgeRefused(d) \/ AcknowledgeInterrupted(d) \/ Crash(d)
    PROVE  Order'
<1>1. UNCHANGED <<serviceVars, workspace, config, reverts>> /\ session' = [session EXCEPT ![d] = Idle]
  BY DEF AcknowledgeRefused, AcknowledgeInterrupted, Crash
<1>2. Idle.step = "idle"
  BY FreshTypes
<1> QED
  BY <1>1, <1>2, IdleInOrder, SessionGoesOn

\* Nobody takes a step but the service.
LEMMA ServiceGoesOn ==
    ASSUME Order, LogOrder', Steady, UNCHANGED clientVars, requests' \subseteq requests,
           acknowledged' = acknowledged, manifests' = manifests
    PROVE  Order'
<1> PICK d \in Devices : d = FirstDevice
  BY HostAssumption
<1>1. /\ Types /\ config[d] \in Config /\ session[d] \in Session /\ config[d].client.cursor \in Cursor
      /\ maxSequence \in Cursor /\ floor \in Cursor /\ acknowledged[d] \in Cursor /\ Newest \in Cursor
      /\ StoresInOrder(devices[d], acknowledged[d], maxSequence, floor, d, workspace[d], config[d])
      /\ SessionInOrder(devices[d], floor, Newest, d, workspace[d], config[d], session[d])
  BY OrderFacts, ClientTypes
<1>2. /\ workspace' = workspace /\ config' = config /\ session' = session /\ reverts' = reverts
  BY DEF clientVars
<1>3. PICK w \in Document, c \in Config, s \in Session : w = workspace[d] /\ c = config[d] /\ s = session[d]
  BY <1>1, DeviceTypes
<1>4. /\ workspace' = [workspace EXCEPT ![d] = w] /\ config' = [config EXCEPT ![d] = c]
      /\ session' = [session EXCEPT ![d] = s]
  BY <1>1, <1>2, <1>3 DEF Types
<1>5. /\ ConfigInLine(maxSequence', acknowledged[d], d, c) /\ SessionInLine(maxSequence', acknowledged[d], d, c, s)
      /\ maxSequence' \in Cursor /\ floor' \in Cursor
  <2>1. /\ DeviceInLine(maxSequence', acknowledged'[d], d, config'[d], session'[d])
        /\ maxSequence' \in Cursor /\ floor' \in Cursor
    BY DEF LogOrder, ServiceInv, ServiceTypeOK
  <2> QED
    BY <1>2, <1>3, <2>1 DEF DeviceInLine
<1>6. /\ devices'[d] = "active" => devices[d] = "active"
      /\ floor' = floor \/ (devices'[d] = "active" => Dominates(acknowledged[d], floor'))
      /\ Dominates(maxSequence', maxSequence)
  BY DEF Active, Steady
<1>7. StoresInOrder(devices'[d], acknowledged'[d], maxSequence', floor', d, w, c)
  BY <1>1, <1>3, <1>5, <1>6, StoresStay
<1>8. Newest' = Newest /\ Snapshots'
  BY DEF Newest, Latest, Snapshots, Order
<1>9. SessionInOrder(devices'[d], floor', Newest', d, w, c, s)
  BY <1>1, <1>3, <1>5, <1>6, <1>8, SessionStays
<1>10. /\ workspace[d].ops \subseteq w.ops /\ (devices[d] = "absent" => w = workspace[d])
       /\ c.linked => config[d].linked /\ Dominates(c.client.cursor, config[d].client.cursor)
       /\ s.step = "idle" \/ ~At(d, "idle")
       /\ \A r \in requests' \ requests : Held(r)
       /\ \A x \in Devices \ {d} : acknowledged'[x] = acknowledged[x]
  BY <1>1, <1>3, DominatesIsOrder DEF At
<1>11. Newest' = Newest \/ \A x \in Devices \ {d} : At(x, "idle")
  BY <1>8
<1>12. s.step = "idle" \/ ~At(d, "idle") \/ \A x \in Devices \ {d} : At(x, "idle")
  BY <1>10
<1>13. Snapshots' /\ reverts' = reverts /\ Steady /\ LogOrder' /\ Order
  BY <1>2, <1>8
<1> QED
  BY <1>4, <1>7, <1>9, <1>10, <1>11, <1>12, <1>13, GoesOn, ZenonT(30)

\* An accepted push adds to the log.
LEMMA PushSteady ==
    ASSUME Order, NEW r \in requests, Push(r)
    PROVE  /\ Steady /\ requests' \subseteq requests /\ r.device \in Devices
           /\ UNCHANGED <<devices, acknowledged, manifests, floor>>
<1>1. ServiceInv /\ maxSequence \in Cursor
  BY ServiceTypes DEF Order, LogOrder
<1>2. /\ requests' \subseteq requests /\ UNCHANGED <<devices, acknowledged, manifests, floor>>
      /\ operations' = operations \cup ({r.device} \X Fresh(r.device, r.batch))
  BY DEF Push
<1>3. r.device \in Devices /\ r.batch \in Seq(Nat \ {0})
  BY <1>1, BatchAssumption DEF ServiceInv, ServiceTypeOK, Request
<1>4. PICK n \in 0 .. Len(r.batch) :
         Extends(r.device, r.batch, n) /\ maxSequence' = [maxSequence EXCEPT ![r.device] = @ + n]
  BY DEF Push, Accepts
<1>5. n \in Nat /\ \A x \in Devices : maxSequence[x] \in Nat
  BY <1>1, <1>3, <1>4 DEF Cursor
<1>6. Dominates(maxSequence', maxSequence)
  BY <1>1, <1>4, <1>5 DEF Dominates, Cursor
<1>7. IsFiniteSet(operations')
  <2>1. IsFiniteSet(Fresh(r.device, r.batch))
    <3>1. Fresh(r.device, r.batch) = (maxSequence[r.device] + 1) .. (maxSequence[r.device] + n)
      BY <1>4 DEF Extends
    <3>2. maxSequence[r.device] + 1 \in Int /\ maxSequence[r.device] + n \in Int
      BY <1>3, <1>5
    <3> QED
      BY <3>1, <3>2, FS_Interval
  <2>2. IsFiniteSet({r.device} \X Fresh(r.device, r.batch))
    BY <2>1, FS_Singleton, FS_Product
  <2>3. IsFiniteSet(operations)
    BY DEF Order
  <2> QED
    BY <1>2, <2>2, <2>3, FS_Union
<1> QED
  BY <1>2, <1>3, <1>6, <1>7 DEF Steady, Active

\* Requests come and go.
LEMMA RequestsSteady ==
    ASSUME Order, UNCHANGED <<devices, operations, maxSequence, acknowledged, manifests, floor>>
    PROVE  Steady /\ Newest' = Newest /\ Snapshots'
<1>1. maxSequence \in Cursor /\ IsFiniteSet(operations) /\ Snapshots
  BY ServiceTypes DEF Order, LogOrder
<1> QED
  BY <1>1, DominatesIsOrder DEF Steady, Active, Newest, Latest, Snapshots

\* Compaction takes what every active device has acknowledged.
LEMMA CompactSteady ==
    ASSUME Order, NEW devs, NEW acks, TryCompact(devs, acks)
    PROVE  /\ IsFiniteSet(operations')
           /\ floor' = floor \/ \A x \in Devices : devs[x] = "active" => Dominates(acks[x], floor')
<1>1. operations' \subseteq operations
  BY DEF TryCompact
<1>2. IsFiniteSet(operations')
  BY <1>1, FS_Subset DEF Order
<1>3. CASE Compactable(devs, acks)
  BY <1>2, <1>3 DEF TryCompact, Compactable
<1>4. CASE ~Compactable(devs, acks)
  BY <1>2, <1>4 DEF TryCompact
<1> QED
  BY <1>3, <1>4

\* An acknowledgement lets the service compact.
LEMMA AcknowledgeSteady ==
    ASSUME Order, NEW d \in Devices, NEW cursor, Acknowledge(d, cursor)
    PROVE  /\ Steady /\ UNCHANGED <<devices, requests, maxSequence, manifests>>
           /\ \A x \in Devices \ {d} : acknowledged'[x] = acknowledged[x]
<1>1. PICK new : new = [a \in Devices |-> IF cursor[a] = 0 THEN acknowledged[d][a] ELSE cursor[a]]
  OBVIOUS
<1>2. /\ UNCHANGED <<devices, requests, maxSequence, manifests>> /\ TryCompact(devices, acknowledged')
      /\ acknowledged' = [acknowledged EXCEPT ![d] = new]
  BY <1>1 DEF Acknowledge
<1>3. acknowledged \in [Devices -> Cursor] /\ maxSequence \in Cursor
  BY ServiceTypes DEF Order, LogOrder, ServiceInv, ServiceTypeOK
<1>4. \A x \in Devices \ {d} : acknowledged'[x] = acknowledged[x]
  BY <1>2, <1>3
<1>5. PICK acks : acks = acknowledged'
  OBVIOUS
<1>6. /\ IsFiniteSet(operations')
      /\ floor' = floor \/ \A x \in Devices : devices[x] = "active" => Dominates(acks[x], floor')
  BY <1>2, <1>5, CompactSteady
<1>7. Dominates(maxSequence', maxSequence)
  BY <1>2, <1>3, DominatesIsOrder
<1> QED
  BY <1>2, <1>4, <1>5, <1>6, <1>7 DEF Steady, Active

\* So does a revocation.
LEMMA RevokeSteady ==
    ASSUME Order, NEW owner \in Devices, NEW d \in Devices, RevokeDevice(owner, d)
    PROVE  Steady /\ UNCHANGED <<requests, maxSequence, acknowledged, manifests>>
<1>1. /\ UNCHANGED <<requests, maxSequence, acknowledged, manifests>> /\ TryCompact(devices', acknowledged)
      /\ devices' = [devices EXCEPT ![d] = "revoked"] /\ devices[d] = "active"
  BY DEF RevokeDevice, Active
<1>2. devices \in [Devices -> {"absent", "active", "revoked"}] /\ maxSequence \in Cursor
  BY ServiceTypes DEF Order, LogOrder, ServiceInv, ServiceTypeOK
<1>3. PICK devs : devs = devices'
  OBVIOUS
<1>4. /\ IsFiniteSet(operations')
      /\ floor' = floor \/ \A x \in Devices : devs[x] = "active" => Dominates(acknowledged[x], floor')
  BY <1>1, <1>3, CompactSteady
<1>5. Dominates(maxSequence', maxSequence)
  BY <1>1, <1>2, DominatesIsOrder
<1>6. \A x \in Devices : /\ devices'[x] = "active" => devices[x] = "active"
                         /\ devices'[x] = "absent" <=> devices[x] = "absent"
  BY <1>1, <1>2
<1> QED
  BY <1>1, <1>3, <1>4, <1>5, <1>6 DEF Steady, Active

\* What the service does by itself.
LEMMA LatePushInOrder ==
    ASSUME Order, LogOrder', LatePush
    PROVE  Order'
<1>1. PICK r \in requests : Push(r) \/ RejectPush(r)
  BY DEF LatePush
<1>2. UNCHANGED clientVars
  BY DEF LatePush
<1>3. CASE Push(r)
  BY <1>2, <1>3, PushSteady, ServiceGoesOn
<1>4. CASE RejectPush(r)
  BY <1>2, <1>4, RequestsSteady, ServiceGoesOn DEF RejectPush
<1> QED
  BY <1>1, <1>3, <1>4

\* A revoked device keeps what it has stored.
LEMMA RevokeInOrder ==
    ASSUME Order, LogOrder', NEW owner \in Devices, NEW d \in Devices, Revoke(owner, d)
    PROVE  Order'
  BY RevokeSteady, ServiceGoesOn DEF Revoke

-----------------------------------------------------------------------------
(* What a device does: failures *)

\* A failed synchronization stores the cursor of its client only if the document
\* that belongs to it is stored, or about to be.
LEMMA FailedStores ==
    ASSUME NEW status, NEW low, NEW max \in Cursor, NEW ack \in Cursor, NEW newest, NEW d \in Devices,
           NEW w \in Document, NEW c \in Config, NEW s \in Session, s.step # "idle",
           ConfigInLine(max, ack, d, c), SessionInLine(max, ack, d, c, s),
           StoresInOrder(status, ack, max, low, d, w, c), SessionInOrder(status, low, newest, d, w, c, s),
           status = "active" /\ s.step \in Applied => c.commits # {}
    PROVE  /\ StoresInOrder(status, ack, max, low, d, w, Failed(c, s))
           /\ Failed(c, s).linked => c.linked /\ Dominates(Failed(c, s).client.cursor, c.client.cursor)
<1>1. /\ c.client \in Client /\ s.client \in Client /\ c.client.cursor \in Cursor /\ s.client.cursor \in Cursor
      /\ s.step \in Sending \cup Pulling \cup Applied
  BY ClientTypes DEF Config, Session
<1>2. CASE Failed(c, s) = NoConfig
  BY <1>2, FreshTypes DEF StoresInOrder
<1>3. CASE Failed(c, s) = c
  BY <1>1, <1>3, DominatesIsOrder
<1>4. CASE /\ Failed(c, s).linked = c.linked /\ Failed(c, s).client = s.client
           /\ Failed(c, s).commits = c.commits /\ Failed(c, s).baseline = c.baseline
  <2>1. PICK k \in Config : k = Failed(c, s)
    BY FailedTypes
  <2>2. k.linked = c.linked /\ k.client = s.client /\ k.commits = c.commits /\ k.baseline = c.baseline
    BY <1>4, <2>1
  <2>3. c.linked /\ s.client.next = c.client.next /\ Own(d, s.client) = Own(d, c.client)
    BY DEF SessionInLine, Own
  <2>4. Dominates(s.client.cursor, c.client.cursor) /\ Ahead(status, low, s.client.cursor)
        /\ (d # FirstDevice /\ w.account => s.client.cursor # NoCursor)
    <3>1. CASE s.step \in Sending \cup Pulling
      BY <1>1, <2>3, <3>1, DominatesIsOrder DEF SessionInOrder, StartedInOrder, StoresInOrder
    <3>2. CASE s.step \in Applied
      BY <3>2 DEF SessionInOrder, AppliedInOrder
    <3> QED
      BY <1>1, <3>1, <3>2
  <2>5. k.commits = {} /\ status = "active" => w.ops = Covered(k.client.cursor) \cup Own(d, k.client)
    <3> SUFFICES ASSUME c.commits = {}, status = "active"
                 PROVE  w.ops = Covered(s.client.cursor) \cup Own(d, s.client)
      BY <2>2
    <3>1. s.step \in Sending \cup Pulling
      BY <1>1
    <3> QED
      BY <2>3, <3>1 DEF SessionInOrder, StartedInOrder, StoresInOrder
  <2>6. ASSUME NEW commit \in k.commits
        PROVE  JournalInOrder(status, low, d, w, k, commit)
    <3>1. commit \in c.commits /\ JournalInOrder(status, low, d, w, c, commit)
      BY <2>2, <2>6 DEF StoresInOrder
    <3>2. s.step \in {"commit", "finish"}
      <4>1. c.commits # {}
        BY <3>1
      <4>2. s.step \notin Sending \cup Pulling
        BY <4>1 DEF SessionInOrder, StartedInOrder
      <4>3. s.step \in Applied /\ s.step \notin {"upload", "download", "acknowledge"}
        BY <1>1, <4>1, <4>2 DEF SessionInOrder, AppliedInOrder, SessionInLine
      <4> QED
        BY <4>3 DEF Applied
    <3>3. commit.client = s.client
      BY <3>1, <3>2 DEF SessionInOrder, AppliedInOrder, Applied
    <3>4. Dominates(commit.client.cursor, k.client.cursor)
      BY <1>1, <2>2, <3>3, DominatesIsOrder
    <3> QED
      BY <2>2, <3>1, <3>4 DEF JournalInOrder
  <2>7. StoresInOrder(status, ack, max, low, d, w, k)
    BY <2>2, <2>3, <2>4, <2>5, <2>6 DEF StoresInOrder
  <2> QED
    BY <2>1, <2>2, <2>3, <2>4, <2>7
<1> QED
  BY <1>2, <1>3, <1>4, FailedTypes

\* A synchronization fails.
LEMMA FailsInOrder ==
    ASSUME Order, LogOrder', Steady, NEW d \in Devices, ~At(d, "idle"), Fail(d),
           Active(d) /\ session[d].step \in Applied => config[d].commits # {},
           requests' \subseteq requests, acknowledged' = acknowledged, manifests' = manifests
    PROVE  Order'
<1>1. /\ Types /\ workspace[d] \in Document /\ config[d] \in Config /\ session[d] \in Session
      /\ maxSequence \in Cursor /\ floor \in Cursor /\ acknowledged[d] \in Cursor /\ Newest \in Cursor
      /\ ConfigInLine(maxSequence, acknowledged[d], d, config[d])
      /\ SessionInLine(maxSequence, acknowledged[d], d, config[d], session[d])
      /\ StoresInOrder(devices[d], acknowledged[d], maxSequence, floor, d, workspace[d], config[d])
      /\ SessionInOrder(devices[d], floor, Newest, d, workspace[d], config[d], session[d])
      /\ session[d].step # "idle"
  BY OrderFacts DEF At
<1>2. /\ config' = [config EXCEPT ![d] = Failed(config[d], session[d])]
      /\ session' = [session EXCEPT ![d] = Idle]
      /\ workspace' = workspace /\ reverts' = reverts
  BY <1>1, FailureIs
<1>3. PICK c \in Config : c = Failed(config[d], session[d])
  BY <1>1, FailedTypes
<1>4. /\ StoresInOrder(devices[d], acknowledged[d], maxSequence, floor, d, workspace[d], c)
      /\ c.linked => config[d].linked /\ Dominates(c.client.cursor, config[d].client.cursor)
  BY <1>1, <1>3, FailedStores DEF Active
<1>5. PICK w \in Document : w = workspace[d]
  BY <1>1
<1>6. /\ workspace' = [workspace EXCEPT ![d] = w] /\ config' = [config EXCEPT ![d] = c]
      /\ session' = [session EXCEPT ![d] = Idle]
  BY <1>1, <1>2, <1>3, <1>5 DEF Types
<1>7. ConfigInLine(maxSequence', acknowledged[d], d, c) /\ maxSequence' \in Cursor /\ floor' \in Cursor
  <2>1. DeviceInLine(maxSequence', acknowledged'[d], d, config'[d], session'[d])
    BY DEF LogOrder
  <2>2. config'[d] = c
    BY <1>1, <1>6 DEF Types
  <2> QED
    BY <2>1, <2>2 DEF DeviceInLine, LogOrder, ServiceInv, ServiceTypeOK
<1>8. /\ devices'[d] = "active" => devices[d] = "active"
      /\ floor' = floor \/ (devices'[d] = "active" => Dominates(acknowledged[d], floor'))
      /\ Dominates(maxSequence', maxSequence)
  BY DEF Active, Steady
<1>9. StoresInOrder(devices'[d], acknowledged[d], maxSequence', floor', d, w, c)
  BY <1>1, <1>4, <1>5, <1>7, <1>8, StoresStay
<1>10. Newest' = Newest /\ Snapshots' /\ acknowledged'[d] = acknowledged[d]
  BY DEF Newest, Latest, Snapshots, Order
<1>11. Idle.step = "idle" /\ SessionInOrder(devices'[d], floor', Newest', d, w, c, Idle)
  BY FreshTypes, IdleInOrder
<1>12. /\ workspace[d].ops \subseteq w.ops /\ (devices[d] = "absent" => w = workspace[d])
       /\ Idle.step = "idle" \/ ~At(d, "idle") \/ \A x \in Devices \ {d} : At(x, "idle")
       /\ \A r \in requests' \ requests : Held(r)
       /\ \A x \in Devices \ {d} : acknowledged'[x] = acknowledged[x]
       /\ Newest' = Newest \/ \A x \in Devices \ {d} : At(x, "idle")
  BY <1>5, <1>10
<1>13. /\ Order /\ LogOrder' /\ Steady /\ Snapshots' /\ reverts' = reverts
       /\ StoresInOrder(devices'[d], acknowledged'[d], maxSequence', floor', d, w, c)
  BY <1>2, <1>9, <1>10
<1> QED
  BY <1>4, <1>6, <1>11, <1>12, <1>13, GoesOn, ZenonT(30)

\* The devices take turns, so a document that is to be uploaded is not outdated.
LEMMA NeverOutdated ==
    ASSUME Order, NEW d \in Devices, At(d, "upload")
    PROVE  Committable(session[d].client.cursor)
<1>1. /\ session[d].client.cursor \in Cursor /\ maxSequence \in Cursor /\ floor \in Cursor /\ Newest \in Cursor
      /\ ServiceInv /\ session[d].step = "upload"
      /\ SessionInLine(maxSequence, acknowledged[d], d, config[d], session[d])
      /\ SessionInOrder(devices[d], floor, Newest, d, workspace[d], config[d], session[d])
  BY OrderFacts, ClientTypes DEF At
<1>2. Dominates(maxSequence, session[d].client.cursor) /\ Dominates(session[d].client.cursor, Newest)
  BY <1>1 DEF SessionInLine, InLine, SessionInOrder, AppliedInOrder, Applied
<1>3. Dominates(session[d].client.cursor, floor)
  BY <1>1, <1>2, NewestIs, DominatesIsOrder
<1> QED
  BY <1>2, <1>3 DEF Committable, Newest

\* Whatever the reason a synchronization fails for without the service.
LEMMA FailuresInOrder ==
    ASSUME Orderly, Order, LogOrder', NEW d \in Devices,
           ApplyFails(d) \/ UploadFails(d) \/ Unauthorized(d) \/ StepFails(d)
    PROVE  Order'
<1>1. ~At(d, "idle") /\ Fail(d) /\ UNCHANGED serviceVars
  BY DEF ApplyFails, UploadFails, Unauthorized, StepFails, At
<1>2. SessionInOrder(devices[d], floor, Newest, d, workspace[d], config[d], session[d])
  BY OrderFacts
<1>3. Active(d) /\ session[d].step \in Applied => config[d].commits # {}
  <2>1. CASE ApplyFails(d)
    BY <2>1 DEF ApplyFails, At, Applied
  <2>2. ~UploadFails(d)
    BY NeverOutdated DEF UploadFails
  <2>3. CASE Unauthorized(d)
    BY <2>3 DEF Unauthorized
  <2>4. CASE StepFails(d)
    <3>1. At(d, "pull") \/ At(d, "commit")
      BY <2>4 DEF StepFails, Fault, Orderly
    <3> QED
      BY <1>2, <3>1 DEF At, Applied, SessionInOrder, AppliedInOrder
  <2> QED
    BY <2>1, <2>2, <2>3, <2>4
<1>4. /\ requests' \subseteq requests /\ acknowledged' = acknowledged /\ manifests' = manifests /\ Steady
  BY <1>1, SameService, SteadyAlone
<1> QED
  BY <1>1, <1>3, <1>4, FailsInOrder

\* A push fails, or its answer is lost.
LEMMA PushEndsInOrder ==
    ASSUME Order, LogOrder', NEW d \in Devices, PushFails(d) \/ PushInterrupted(d)
    PROVE  Order'
<1>1. Fail(d) /\ (At(d, "push") \/ At(d, "pushing"))
  BY DEF PushFails, PushInterrupted, Awaited
<1>2. ~At(d, "idle") /\ session[d].step \notin Applied
  BY <1>1 DEF At, Applied
<1>3. UNCHANGED serviceVars \/ \E r \in requests : Push(r) \/ RejectPush(r)
  BY DEF PushFails, PushInterrupted
<1>4. Steady /\ requests' \subseteq requests /\ acknowledged' = acknowledged /\ manifests' = manifests
  <2>1. CASE UNCHANGED serviceVars
    BY <2>1, SameService, SteadyAlone
  <2>2. ASSUME NEW r \in requests, Push(r) 
        PROVE  Steady /\ requests' \subseteq requests /\ acknowledged' = acknowledged /\ manifests' = manifests
    BY <2>2, PushSteady
  <2>3. ASSUME NEW r \in requests, RejectPush(r) 
        PROVE  Steady /\ requests' \subseteq requests /\ acknowledged' = acknowledged /\ manifests' = manifests
    BY <2>3, RequestsSteady DEF RejectPush
  <2> QED
    BY <1>3, <2>1, <2>2, <2>3
<1> QED
  BY <1>1, <1>2, <1>4, FailsInOrder

\* The service stops: at most one device waits for an answer.
LEMMA ServiceStopsInOrder ==
    ASSUME Order, LogOrder', ServiceStops
    PROVE  Order'
<1>1. /\ UNCHANGED <<devices, operations, maxSequence, acknowledged, manifests, floor>> /\ requests' = {}
      /\ session' = [d \in Devices |-> IF At(d, "pushing") THEN Idle ELSE session[d]]
      /\ config' = [d \in Devices |-> IF At(d, "pushing") THEN AfterFailure(d)[d] ELSE config[d]]
      /\ workspace' = workspace /\ reverts' = reverts
  BY DEF ServiceStops, ServiceCrash
<1>2. Steady /\ requests' \subseteq requests /\ acknowledged' = acknowledged /\ manifests' = manifests
  BY <1>1, RequestsSteady
<1>3. Types /\ Joined
  BY DEF Order, LogOrder
<1>4. CASE \A d \in Devices : ~At(d, "pushing")
  <2>1. session' = session /\ config' = config
    BY <1>1, <1>3, <1>4 DEF Types
  <2> QED
    BY <1>1, <1>2, <2>1, ServiceGoesOn DEF clientVars
<1>5. ASSUME NEW d \in Devices, At(d, "pushing")
      PROVE  Order'
  <2>1. ~At(d, "idle") /\ session[d].step \notin Applied
    BY <1>5 DEF At, Applied
  <2>2. \A x \in Devices \ {d} : ~At(x, "pushing")
    BY <1>3, <2>1 DEF Joined, At
  <2>3. session' = [session EXCEPT ![d] = Idle]
    BY <1>1, <1>3, <1>5, <2>2 DEF Types
  <2>4. AfterFailure(d) = [config EXCEPT ![d] = Failed(config[d], session[d])]
    BY <1>3 DEF AfterFailure, Failed, Types
  <2>5. config' = AfterFailure(d)
    BY <1>1, <1>3, <1>5, <2>2, <2>4 DEF Types
  <2>6. Fail(d)
    BY <1>1, <2>3, <2>5 DEF Fail
  <2> QED
    BY <1>2, <2>1, <2>6, FailsInOrder
<1> QED
  BY <1>4, <1>5

\* An edit is not an operation yet.
LEMMA EditInOrder ==
    ASSUME Order, LogOrder', NEW d \in Devices, Edit(d)
    PROVE  Order'
<1>1. /\ Types /\ workspace[d] \in Document /\ config[d] \in Config /\ session[d] \in Session
      /\ config[d].client.cursor \in Cursor /\ devices[d] # "absent"
      /\ StoresInOrder(devices[d], acknowledged[d], maxSequence, floor, d, workspace[d], config[d])
      /\ SessionInOrder(devices[d], floor, Newest, d, workspace[d], config[d], session[d])
  BY OrderFacts, ClientTypes DEF Edit
<1>2. PICK w : w = [workspace[d] EXCEPT !.edits = @ + 1]
  OBVIOUS
<1>3. w.ops = workspace[d].ops /\ w.account = workspace[d].account
  BY <1>1, <1>2 DEF Document
<1>4. StoresInOrder(devices[d], acknowledged[d], maxSequence, floor, d, w, config[d])
  BY <1>1, <1>3 DEF StoresInOrder, JournalInOrder
<1>5. SessionInOrder(devices[d], floor, Newest, d, w, config[d], session[d])
  BY <1>1, <1>3 DEF SessionInOrder, StartedInOrder, PulledInOrder, AppliedInOrder, FlowInOrder
<1>6. PICK c \in Config, s \in Session : c = config[d] /\ s = session[d]
  BY <1>1
<1>7. /\ workspace' = [workspace EXCEPT ![d] = w] /\ config' = [config EXCEPT ![d] = c]
      /\ session' = [session EXCEPT ![d] = s] /\ reverts' = reverts /\ UNCHANGED serviceVars
  BY <1>1, <1>2, <1>6 DEF Edit, Types
<1>8. /\ workspace[d].ops \subseteq w.ops /\ (devices[d] = "absent" => w = workspace[d])
      /\ c.linked => config[d].linked /\ Dominates(c.client.cursor, config[d].client.cursor)
      /\ s.step = "idle" \/ ~At(d, "idle") \/ \A x \in Devices \ {d} : At(x, "idle")
  BY <1>1, <1>3, <1>6, DominatesIsOrder DEF At
<1> QED
  BY <1>4, <1>5, <1>6, <1>7, <1>8, LocalGoesOn

\* Nothing is claimed of a device that forgot its configuration.
LEMMA DisconnectInOrder ==
    ASSUME Order, LogOrder', NEW d \in Devices, Disconnect(d)
    PROVE  Order'
<1>1. /\ Types /\ workspace[d] \in Document /\ session[d] \in Session /\ session[d].step = "idle"
      /\ StoresInOrder(devices[d], acknowledged[d], maxSequence, floor, d, workspace[d], config[d])
  BY OrderFacts DEF Disconnect, At
<1>2. PICK w \in Document, c \in Config, s \in Session : w = workspace[d] /\ c = NoConfig /\ s = session[d]
  BY <1>1, FreshTypes
<1>3. /\ workspace' = [workspace EXCEPT ![d] = w] /\ config' = [config EXCEPT ![d] = c]
      /\ session' = [session EXCEPT ![d] = s] /\ reverts' = reverts /\ UNCHANGED serviceVars
  BY <1>1, <1>2 DEF Disconnect, Types
<1>4. StoresInOrder(devices[d], acknowledged[d], maxSequence, floor, d, w, c) /\ ~c.linked
  BY <1>1, <1>2, FreshTypes DEF StoresInOrder
<1>5. SessionInOrder(devices[d], floor, Newest, d, w, c, s)
  BY <1>1, <1>2, IdleInOrder
<1> QED
  BY <1>1, <1>2, <1>3, <1>4, <1>5, LocalGoesOn

-----------------------------------------------------------------------------
(* What a device does: starts *)

\* What a device that has nothing starts with.
LEMMA FirstStores ==
    ASSUME NEW d \in Devices, NEW flow \in {"create", "recover"}, flow = "create" <=> d = FirstDevice,
           NEW low, NEW max \in Cursor, NEW newest, NEW w, w.ops = {}, w.account <=> d = FirstDevice,
           NEW c \in Config, c.linked, c.client = NewClient, c.commits = {}, c.baseline = w.ops,
           NEW s \in Session, s.step = "push", s.client = NewClient, s.flow = flow, s.working = w.ops,
           s.pending = {}, s.received = FALSE
    PROVE  /\ StoresInOrder("active", NoCursor, max, low, d, w, c)
           /\ SessionInOrder("active", low, newest, d, w, c, s)
<1>1. /\ c.client.cursor = NoCursor /\ c.client.next = 1 /\ Covered(NoCursor) = {}
      /\ Own(d, c.client) = {}
  BY FreshTypes, CoveredNothing DEF Own
<1>2. StoresInOrder("active", NoCursor, max, low, d, w, c)
  BY <1>1 DEF StoresInOrder, Ahead
<1>3. SessionInOrder("active", low, newest, d, w, c, s)
  BY <1>1 DEF SessionInOrder, StartedInOrder, PulledInOrder, AppliedInOrder, FlowInOrder,
              Sending, Pulling, Applied
<1> QED
  BY <1>2, <1>3

\* A device joins: it has nothing, and nobody else synchronizes.
LEMMA JoinsInOrder ==
    ASSUME Order, LogOrder', NEW d \in Devices, devices[d] = "absent",
           devices' = [devices EXCEPT ![d] = "active"],
           UNCHANGED <<requests, operations, maxSequence, acknowledged, manifests, floor, workspace, reverts>>,
           d = FirstDevice \/ (devices[FirstDevice] # "absent" /\ maxSequence # NoCursor
                               /\ config[FirstDevice].client.cursor # NoCursor),
           d = FirstDevice => \A x \in Devices : devices[x] = "absent",
           \A x \in Devices : At(x, "idle"),
           NEW flow \in {"create", "recover"}, flow = "create" <=> d = FirstDevice,
           NEW c \in Config, NEW s \in Session,
           config' = [config EXCEPT ![d] = c], session' = [session EXCEPT ![d] = s],
           \/ c = config[d] /\ s = session[d]
           \/ /\ c.linked /\ c.client = NewClient /\ c.commits = {} /\ c.baseline = workspace[d].ops
              /\ s.step = "push" /\ s.client = NewClient /\ s.flow = flow /\ s.working = workspace[d].ops
              /\ s.pending = {} /\ s.received = FALSE
    PROVE  Order'
<1>1. /\ Types /\ ServiceInv /\ maxSequence \in Cursor /\ Joined /\ reverts = {} /\ IsFiniteSet(operations)
      /\ devices \in [Devices -> {"absent", "active", "revoked"}] /\ acknowledged[d] = NoCursor
      /\ Snapshots /\ RequestsHeld /\ ~config[d].linked /\ config[d].commits = {} /\ At(d, "idle")
  BY ServiceTypes DEF Order, LogOrder, RecordInLine, ServiceInv, ServiceTypeOK
<1>2. workspace[d].ops = {} /\ (workspace[d].account <=> d = FirstDevice)
  BY <1>1 DEF Joined
<1>3. /\ config'[d] = c /\ session'[d] = s /\ devices'[d] = "active"
      /\ \A x \in Devices \ {d} : config'[x] = config[x] /\ session'[x] = session[x] /\ devices'[x] = devices[x]
  BY <1>1 DEF Types
<1>4. /\ StoresInOrder("active", NoCursor, maxSequence, floor, d, workspace[d], c)
      /\ SessionInOrder("active", floor, Newest, d, workspace[d], c, s)
  <2>1. CASE c = config[d] /\ s = session[d]
    <3>1. StoresInOrder(devices[d], acknowledged[d], maxSequence, floor, d, workspace[d], config[d])
      BY OrderFacts
    <3>2. StoresInOrder("active", NoCursor, maxSequence, floor, d, workspace[d], config[d])
      BY <1>1, <3>1 DEF StoresInOrder
    <3> QED
      BY <1>1, <2>1, <3>2, IdleInOrder DEF At
  <2>2. CASE ~(c = config[d] /\ s = session[d])
    BY <1>1, <1>2, <2>2, FirstStores
  <2> QED
    BY <2>1, <2>2
<1>5. Newest' = Newest /\ Snapshots' /\ RequestsHeld'
  BY <1>1 DEF Newest, Latest, Snapshots, RequestsHeld, Held
<1>6. Alone(d) /\ StoredInOrder(d)' /\ RunsInOrder(d)'
  BY <1>1, <1>3, <1>4, <1>5 DEF Alone, StoredInOrder, RunsInOrder
<1>7. Joined'
  <2>1. devices'[FirstDevice] # "absent"
    BY <1>3, HostAssumption
  <2>2. config'[FirstDevice].linked /\ config'[FirstDevice].client.cursor = NoCursor =>
          \A x \in Devices \ {FirstDevice} : devices'[x] = "absent"
    BY <1>3, HostAssumption
  <2>3. \A x \in Devices \ {FirstDevice} : devices'[x] # "absent" => maxSequence' # NoCursor
    BY <1>3
  <2>4. \A x \in Devices :
          devices'[x] = "absent" => workspace'[x].ops = {} /\ (workspace'[x].account <=> x = FirstDevice)
    BY <1>1, <1>3 DEF Joined
  <2>5. \A x, y \in Devices : ~At(x, "idle")' /\ ~At(y, "idle")' => x = y
    BY <1>3 DEF At
  <2> QED
    BY <2>1, <2>2, <2>3, <2>4, <2>5 DEF Joined
<1>8. \A x \in Devices \ {d} : (Active(x)' => Active(x)) /\ acknowledged'[x] = acknowledged[x]
  BY <1>3 DEF Active
<1>9. Dominates(maxSequence', maxSequence) /\ IsFiniteSet(operations') /\ floor' = floor /\ reverts' = {}
  BY <1>1, DominatesIsOrder
<1> QED
  BY <1>5, <1>6, <1>7, <1>8, <1>9, OneMoves

\* The account is created with what its first device has: nothing yet.
LEMMA CreateInOrder ==
    ASSUME Order, LogOrder', NEW d \in Devices, CreateAccount(d)
    PROVE  Order'
<1>1. /\ Types /\ d = FirstDevice /\ \A x \in Devices : devices[x] = "absent"
      /\ devices' = [devices EXCEPT ![d] = "active"]
      /\ UNCHANGED <<requests, operations, maxSequence, acknowledged, manifests, floor, workspace, reverts>>
      /\ \A x \in Devices : At(x, "idle")
  BY DEF Order, LogOrder, RecordInLine, CreateAccount, EnrollFirstDevice, AccountExists
<1>2. PICK c \in Config, s \in Session :
         /\ c = [NoConfig EXCEPT !.linked = TRUE, !.baseline = workspace[d].ops]
         /\ s = [Idle EXCEPT !.step = "push", !.flow = "create", !.working = workspace[d].ops]
         /\ c.linked /\ c.client = NewClient /\ c.commits = {} /\ c.baseline = workspace[d].ops
         /\ s.step = "push" /\ s.client = NewClient /\ s.sent = 0 /\ s.flow = "create"
         /\ s.working = workspace[d].ops
  BY <1>1, FirstConfig
<1>3. s.pending = {} /\ s.received = FALSE
  BY <1>2, FreshTypes DEF Idle
<1>4. config' = [config EXCEPT ![d] = c] /\ session' = [session EXCEPT ![d] = s]
  BY <1>2 DEF CreateAccount
<1> QED
  BY <1>1, <1>2, <1>3, <1>4, JoinsInOrder

\* A device recovers an account whose first device has synchronized.
LEMMA RecoverInOrder ==
    ASSUME Orderly, Order, LogOrder', NEW d \in Devices, RecoverAccount(d)
    PROVE  Order'
<1>1. /\ Types /\ maxSequence \in Cursor /\ FirstDevice \in Devices
      /\ devices[d] = "absent" /\ AccountExists
      /\ devices' = [devices EXCEPT ![d] = "active"]
      /\ UNCHANGED <<requests, operations, maxSequence, acknowledged, manifests, floor, workspace, reverts>>
      /\ config[FirstDevice].client.cursor # NoCursor
      /\ \A x \in Devices : At(x, "idle")
  BY ServiceTypes, HostAssumption
  DEF Order, LogOrder, RecoverAccount, RecoverDevice, AddDevice, Turn, Orderly
<1>2. devices[FirstDevice] # "absent" /\ d # FirstDevice
  BY <1>1 DEF AccountExists, Order, Joined
<1>3. maxSequence # NoCursor
  <2>1. /\ config[FirstDevice].linked /\ config[FirstDevice].client.cursor \in Cursor
        /\ ConfigInLine(maxSequence, acknowledged[FirstDevice], FirstDevice, config[FirstDevice])
    BY <1>1, OrderFacts, ClientTypes DEF StoresInOrder
  <2>2. Dominates(maxSequence, config[FirstDevice].client.cursor)
    BY <2>1 DEF ConfigInLine, InLine
  <2> QED
    BY <1>1, <2>1, <2>2, DominatesIsOrder
<1>4. CASE UNCHANGED <<config, session>>
  <2>1. PICK c \in Config, s \in Session : c = config[d] /\ s = session[d]
    BY <1>1, DeviceTypes
  <2>2. config' = [config EXCEPT ![d] = c] /\ session' = [session EXCEPT ![d] = s]
    BY <1>1, <1>4, <2>1 DEF Types
  <2>3. "recover" \in {"create", "recover"} /\ ("recover" = "create" <=> d = FirstDevice)
    BY <1>2
  <2> QED
    BY <1>1, <1>2, <1>3, <2>1, <2>2, <2>3, JoinsInOrder
<1>5. CASE ~UNCHANGED <<config, session>>
  <2>1. PICK c \in Config, s \in Session :
           /\ c = [NoConfig EXCEPT !.linked = TRUE, !.baseline = workspace[d].ops]
           /\ s = [Idle EXCEPT !.step = "push", !.flow = "recover", !.working = workspace[d].ops]
           /\ c.linked /\ c.client = NewClient /\ c.commits = {} /\ c.baseline = workspace[d].ops
           /\ s.step = "push" /\ s.client = NewClient /\ s.sent = 0 /\ s.flow = "recover"
           /\ s.working = workspace[d].ops
    BY <1>1, FirstConfig
  <2>2. s.pending = {} /\ s.received = FALSE
    BY <2>1, FreshTypes DEF Idle
  <2>3. config' = [config EXCEPT ![d] = c] /\ session' = [session EXCEPT ![d] = s]
    BY <1>5, <2>1 DEF RecoverAccount
  <2>4. "recover" \in {"create", "recover"} /\ ("recover" = "create" <=> d = FirstDevice)
    BY <1>2
  <2> QED
    BY <1>1, <1>2, <1>3, <2>1, <2>2, <2>3, <2>4, JoinsInOrder
<1> QED
  BY <1>4, <1>5

\* The baseline is what is stored, so a capture undoes nothing; what it numbers
\* is in document, store and baseline at once.
LEMMA CaptureInOrder ==
    ASSUME Orderly, Order, LogOrder', NEW d \in Devices, Capture(d)
    PROVE  Order' /\ Missing(d) = {}
<1>1. /\ Types /\ ServiceInv /\ reverts = {} /\ workspace[d] \in Document /\ config[d] \in Config
      /\ config[d].client \in Client /\ maxSequence \in Cursor /\ acknowledged[d] \in Cursor
      /\ config[d].linked /\ config[d].commits = {} /\ workspace[d].account
      /\ devices[d] # "absent" /\ \A x \in Devices : At(x, "idle")
      /\ StoresInOrder(devices[d], acknowledged[d], maxSequence, floor, d, workspace[d], config[d])
  BY OrderFacts DEF Capture, Turn, Orderly
<1>2. config[d].client.next \in Nat \ {0} /\ config[d].client.cursor \in Cursor /\ MaxSequence \in Nat
  BY <1>1, ClientTypes, LimitAssumption
<1>3. PICK last \in Nat, document \in SUBSET Ops, advanced \in Client : Captures(d, last, document, advanced)
  BY <1>1, CaptureIs DEF Order
<1>4. /\ last + 1 >= config[d].client.next /\ last <= MaxSequence
      /\ document = workspace[d].ops \cup ({d} \X (config[d].client.next .. last))
      /\ advanced.next = last + 1 /\ advanced.cursor = config[d].client.cursor
  BY <1>3 DEF Captures
<1>5. Missing(d) = {}
  BY <1>1 DEF Missing, StoresInOrder
<1>6. PICK w : w = [workspace[d] EXCEPT !.ops = document, !.edits = 0, !.touched = FALSE]
  OBVIOUS
<1>7. w.ops = document /\ w.account = workspace[d].account
  BY <1>1, <1>6 DEF Document
<1>8. PICK c : c = [config[d] EXCEPT !.baseline = document, !.client = advanced]
  OBVIOUS
<1>9. c.linked /\ c.baseline = document /\ c.client = advanced /\ c.commits = {}
  BY <1>1, <1>8 DEF Config
<1>10. PICK s : s = [Idle EXCEPT !.step = "push", !.flow = "sync", !.client = advanced,
                                 !.first = config[d].client.next, !.working = document]
  OBVIOUS
<1>11. /\ s.step = "push" /\ s.flow = "sync" /\ s.client = advanced /\ s.working = document
       /\ s.pending = {} /\ s.received = FALSE
  BY <1>10, FreshTypes DEF Session
<1>12. Own(d, advanced) = Own(d, config[d].client) \cup ({d} \X (config[d].client.next .. last))
  <2>1. 1 .. advanced.next - 1 = (1 .. config[d].client.next - 1) \cup (config[d].client.next .. last)
    BY <1>2, <1>4
  <2> QED
    BY <2>1 DEF Own
<1>13. {d} \X (config[d].client.next .. last) \subseteq {d} \X (1 .. MaxSequence)
  BY <1>2, <1>4
<1>14. StoresInOrder(devices[d], acknowledged[d], maxSequence, floor, d, w, c)
  BY <1>1, <1>4, <1>7, <1>9, <1>12, <1>13 DEF StoresInOrder
<1>15. SessionInOrder(devices[d], floor, Newest, d, w, c, s)
  BY <1>1, <1>7, <1>9, <1>11
  DEF SessionInOrder, StartedInOrder, PulledInOrder, AppliedInOrder, FlowInOrder, Sending, Pulling, Applied
<1>16. /\ workspace' = [workspace EXCEPT ![d] = w] /\ config' = [config EXCEPT ![d] = c]
       /\ session' = [session EXCEPT ![d] = s]
  BY <1>3, <1>6, <1>8, <1>10 DEF Captures
<1>17. reverts' = reverts
  BY <1>3, <1>5 DEF Captures
<1>18. UNCHANGED serviceVars
  BY DEF Capture
<1>19. /\ workspace[d].ops \subseteq w.ops
       /\ c.linked => config[d].linked /\ Dominates(c.client.cursor, config[d].client.cursor)
  BY <1>1, <1>2, <1>4, <1>7, <1>9, DominatesIsOrder
<1> QED
  BY <1>1, <1>5, <1>14, <1>15, <1>16, <1>17, <1>18, <1>19, LocalGoesOn

\* A pending commit goes on where it was journaled.
LEMMA ResumeInOrder ==
    ASSUME Orderly, Order, LogOrder', NEW d \in Devices, NEW flow \in {"resume", "startup"}, ResumeCommit(d, flow)
    PROVE  Order'
<1>1. /\ Types /\ workspace[d].account /\ \A x \in Devices : At(x, "idle")
      /\ StoresInOrder(devices[d], acknowledged[d], maxSequence, floor, d, workspace[d], config[d])
  BY OrderFacts DEF ResumeCommit, Turn, Orderly
<1>2. PICK commit \in config[d].commits :
         session' = [session EXCEPT ![d] =
            [Idle EXCEPT !.step = "commit", !.flow = flow, !.client = commit.client,
                         !.working = commit.document, !.received = commit.received]]
  BY DEF ResumeCommit
<1>3. JournalInOrder(devices[d], floor, d, workspace[d], config[d], commit)
  BY <1>1 DEF StoresInOrder
<1>4. commit.client \in Client /\ commit.document \subseteq Ops /\ commit.received \in BOOLEAN
  BY <1>1, DeviceTypes
<1>5. PICK s : s = [Idle EXCEPT !.step = "commit", !.flow = flow, !.client = commit.client,
                                !.working = commit.document, !.received = commit.received]
  OBVIOUS
<1>6. /\ s.step = "commit" /\ s.flow = flow /\ s.client = commit.client /\ s.working = commit.document
      /\ s.received = commit.received
  BY <1>4, <1>5, FreshTypes DEF Session
<1>7. ~Commits(s) => workspace[d].ops = commit.document
  BY <1>1, <1>3, <1>6 DEF Commits, JournalInOrder
<1>8. AppliedInOrder(devices[d], floor, Newest, d, workspace[d], config[d], s)
  BY <1>2, <1>3, <1>6, <1>7 DEF AppliedInOrder, JournalInOrder
<1>9. SessionInOrder(devices[d], floor, Newest, d, workspace[d], config[d], s)
  BY <1>1, <1>6, <1>8 DEF SessionInOrder, StartedInOrder, PulledInOrder, FlowInOrder, Sending, Pulling
<1>10. UNCHANGED <<serviceVars, workspace, config, reverts>> /\ session' = [session EXCEPT ![d] = s]
  BY <1>2, <1>5 DEF ResumeCommit
<1> QED
  BY <1>1, <1>9, <1>10, SessionGoesOn

-----------------------------------------------------------------------------
(* What a device does: sending and pulling *)

\* A batch that is sent is of operations the device has stored.
LEMMA SendInOrder ==
    ASSUME Order, LogOrder', NEW d \in Devices, SendBatch(d)
    PROVE  Order'
<1>1. /\ Types /\ ServiceInv /\ LogOrder /\ session[d].step = "push" /\ devices[d] = "active"
      /\ workspace[d] \in Document /\ config[d] \in Config /\ session[d] \in Session /\ config[d].linked
      /\ config[d].client.cursor \in Cursor
      /\ StoresInOrder(devices[d], acknowledged[d], maxSequence, floor, d, workspace[d], config[d])
      /\ SessionInOrder(devices[d], floor, Newest, d, workspace[d], config[d], session[d])
  BY OrderFacts, ClientTypes DEF SendBatch, AuthorizePush, At, Active
<1>2. /\ requests' = requests \cup {[device |-> d, batch |-> NextBatch(d)]}
      /\ UNCHANGED <<devices, operations, maxSequence, acknowledged, manifests, floor>>
      /\ session' = [session EXCEPT ![d].step = "pushing"]
      /\ workspace' = workspace /\ config' = config /\ reverts' = reverts
  BY DEF SendBatch, AuthorizePush
<1>3. PICK low \in Nat, n \in Nat : NextBatch(d) = [i \in 1 .. n |-> low + i] /\ low + n < config[d].client.next
  BY <1>1, Batch DEF Sending
<1>4. PICK r : r = [device |-> d, batch |-> NextBatch(d)]
  OBVIOUS
<1>5. Held(r)
  <2>1. config[d].commits = {}
    BY <1>1 DEF SessionInOrder, StartedInOrder, Sending
  <2>2. Own(d, config[d].client) \subseteq workspace[d].ops
    BY <1>1, <2>1 DEF StoresInOrder
  <2>3. config[d].client.next \in Nat
    BY <1>1, ClientTypes DEF Config
  <2>4. ASSUME NEW i \in 1 .. n PROVE <<d, low + i>> \in Own(d, config[d].client)
    <3>1. low + i \in 1 .. config[d].client.next - 1
      BY <1>3, <2>3
    <3> QED
      BY <3>1 DEF Own
  <2>5. r.device = d /\ DOMAIN r.batch = 1 .. n /\ \A i \in 1 .. n : r.batch[i] = low + i
    BY <1>3, <1>4
  <2> QED
    BY <2>2, <2>4, <2>5 DEF Held
<1>6. PICK w \in Document, c \in Config : w = workspace[d] /\ c = config[d]
  BY <1>1
<1>7. PICK s : s = [session[d] EXCEPT !.step = "pushing"]
  OBVIOUS
<1>8. /\ s.step = "pushing" /\ s.client = session[d].client /\ s.flow = session[d].flow
      /\ s.working = session[d].working /\ s.pending = session[d].pending /\ s.received = session[d].received
  BY <1>1, <1>7 DEF Session
<1>9. SessionInOrder(devices[d], floor, Newest, d, w, c, s)
  BY <1>1, <1>6, <1>8
  DEF SessionInOrder, StartedInOrder, PulledInOrder, AppliedInOrder, FlowInOrder, Sending, Pulling, Applied
<1>10. Steady /\ Newest' = Newest /\ Snapshots'
  BY <1>2, RequestsSteady
<1>11. /\ workspace' = [workspace EXCEPT ![d] = w] /\ config' = [config EXCEPT ![d] = c]
       /\ session' = [session EXCEPT ![d] = s]
  BY <1>1, <1>2, <1>6, <1>7 DEF Types
<1>12. /\ workspace[d].ops \subseteq w.ops /\ (devices[d] = "absent" => w = workspace[d])
       /\ c.linked => config[d].linked /\ Dominates(c.client.cursor, config[d].client.cursor)
       /\ s.step = "idle" \/ ~At(d, "idle") \/ \A x \in Devices \ {d} : At(x, "idle")
       /\ \A q \in requests' \ requests : Held(q)
       /\ \A x \in Devices \ {d} : acknowledged'[x] = acknowledged[x]
       /\ Newest' = Newest \/ \A x \in Devices \ {d} : At(x, "idle")
  BY <1>1, <1>2, <1>4, <1>5, <1>6, <1>10, DominatesIsOrder DEF At
<1>13. /\ StoresInOrder(devices'[d], acknowledged'[d], maxSequence', floor', d, w, c)
       /\ SessionInOrder(devices'[d], floor', Newest', d, w, c, s)
  BY <1>1, <1>2, <1>6, <1>9, <1>10
<1>14. Order /\ LogOrder' /\ Steady /\ Snapshots' /\ reverts' = reverts
  BY <1>2, <1>10
<1> QED
  BY <1>11, <1>12, <1>13, <1>14, GoesOn, ZenonT(30)

\* An answered push lets the synchronization go on.
LEMMA PushSucceedsInOrder ==
    ASSUME Order, LogOrder', NEW d \in Devices, PushSucceeds(d)
    PROVE  Order'
<1>1. /\ Types /\ session[d].step = "pushing"
      /\ workspace[d] \in Document /\ config[d] \in Config /\ session[d] \in Session
      /\ config[d].client.cursor \in Cursor /\ maxSequence \in Cursor /\ floor \in Cursor /\ acknowledged[d] \in Cursor
      /\ StoresInOrder(devices[d], acknowledged[d], maxSequence, floor, d, workspace[d], config[d])
      /\ SessionInOrder(devices[d], floor, Newest, d, workspace[d], config[d], session[d])
  BY OrderFacts, ClientTypes DEF PushSucceeds, Awaited, At
<1>2. PICK r \in requests : Push(r)
  BY DEF PushSucceeds
<1>3. /\ session' = [session EXCEPT ![d] =
            [session[d] EXCEPT !.step = "push", !.sent = session[d].sent + Len(NextBatch(d))]]
      /\ workspace' = workspace /\ config' = config /\ reverts' = reverts
  BY DEF PushSucceeds
<1>4. /\ Steady /\ requests' \subseteq requests /\ UNCHANGED <<devices, acknowledged, manifests, floor>>
  BY <1>2, PushSteady
<1>5. PICK w \in Document, c \in Config : w = workspace[d] /\ c = config[d]
  BY <1>1
<1>6. PICK s : s = [session[d] EXCEPT !.step = "push", !.sent = session[d].sent + Len(NextBatch(d))]
  OBVIOUS
<1>7. /\ s.step = "push" /\ s.client = session[d].client /\ s.flow = session[d].flow
      /\ s.working = session[d].working /\ s.pending = session[d].pending /\ s.received = session[d].received
  BY <1>1, <1>6 DEF Session
<1>8. SessionInOrder(devices[d], floor, Newest, d, w, c, s)
  BY <1>1, <1>5, <1>7
  DEF SessionInOrder, StartedInOrder, PulledInOrder, AppliedInOrder, FlowInOrder, Sending, Pulling, Applied
<1>9. Newest' = Newest /\ Snapshots'
  BY <1>4 DEF Newest, Latest, Snapshots, Order
<1>10. StoresInOrder(devices'[d], acknowledged'[d], maxSequence', floor', d, w, c)
  <2>1. DeviceInLine(maxSequence', acknowledged'[d], d, config'[d], session'[d]) /\ maxSequence' \in Cursor
    BY DEF LogOrder, ServiceInv, ServiceTypeOK
  <2>2. ConfigInLine(maxSequence', acknowledged[d], d, c) /\ maxSequence' \in Cursor
    BY <1>3, <1>4, <1>5, <2>1 DEF DeviceInLine
  <2>3. StoresInOrder(devices[d], acknowledged[d], maxSequence', floor, d, w, c)
    BY <1>1, <1>4, <1>5, <2>2, StoresStay DEF Steady
  <2> QED
    BY <1>4, <2>3
<1>11. SessionInOrder(devices'[d], floor', Newest', d, w, c, s)
  BY <1>4, <1>8, <1>9
<1>12. /\ workspace' = [workspace EXCEPT ![d] = w] /\ config' = [config EXCEPT ![d] = c]
       /\ session' = [session EXCEPT ![d] = s]
  BY <1>1, <1>3, <1>5, <1>6 DEF Types
<1>13. /\ workspace[d].ops \subseteq w.ops /\ (devices[d] = "absent" => w = workspace[d])
       /\ c.linked => config[d].linked /\ Dominates(c.client.cursor, config[d].client.cursor)
       /\ s.step = "idle" \/ ~At(d, "idle") \/ \A x \in Devices \ {d} : At(x, "idle")
       /\ \A q \in requests' \ requests : Held(q)
       /\ \A x \in Devices \ {d} : acknowledged'[x] = acknowledged[x]
       /\ Newest' = Newest \/ \A x \in Devices \ {d} : At(x, "idle")
  BY <1>1, <1>4, <1>5, <1>9, DominatesIsOrder DEF At
<1>14. Order /\ LogOrder' /\ Steady /\ Snapshots' /\ reverts' = reverts
  BY <1>3, <1>4, <1>9
<1> QED
  BY <1>10, <1>11, <1>12, <1>13, <1>14, GoesOn, ZenonT(30)

\* When all is sent, what is stored is the base of what is pulled.
LEMMA EmptyOutboxInOrder ==
    ASSUME Order, LogOrder', NEW d \in Devices, EmptyOutbox(d)
    PROVE  Order'
<1>1. /\ Types /\ session[d].step = "push" /\ config[d] \in Config /\ session[d] \in Session
      /\ session[d].client \in Client
      /\ SessionInLine(maxSequence, acknowledged[d], d, config[d], session[d])
      /\ StoresInOrder(devices[d], acknowledged[d], maxSequence, floor, d, workspace[d], config[d])
      /\ SessionInOrder(devices[d], floor, Newest, d, workspace[d], config[d], session[d])
  BY OrderFacts DEF EmptyOutbox, At
<1>2. PICK emptied : emptied = [session[d].client EXCEPT !.flushed = session[d].client.flushed + session[d].sent]
  OBVIOUS
<1>3. emptied.next = session[d].client.next /\ emptied.cursor = session[d].client.cursor
  BY <1>1, <1>2 DEF Client
<1>4. PICK s : s = [session[d] EXCEPT !.step = "pull", !.client = emptied, !.reached = session[d].client.cursor]
  OBVIOUS
<1>5. /\ s.step = "pull" /\ s.client = emptied /\ s.reached = session[d].client.cursor
      /\ s.flow = session[d].flow /\ s.working = session[d].working /\ s.pending = session[d].pending
      /\ s.received = session[d].received
  BY <1>1, <1>4 DEF Session
<1>6. /\ session[d].client.cursor = config[d].client.cursor /\ config[d].commits = {}
      /\ session[d].flow \in {"create", "recover", "sync"}
      /\ session[d].working = workspace[d].ops /\ session[d].pending = {} /\ ~session[d].received
      /\ config[d].linked /\ session[d].client.next = config[d].client.next
  BY <1>1 DEF SessionInOrder, StartedInOrder, SessionInLine, Sending
<1>7. /\ Own(d, emptied) = Own(d, config[d].client)
      /\ devices[d] = "active" => workspace[d].ops = Covered(s.reached) \cup Own(d, s.client)
      /\ Ahead(devices[d], floor, s.reached)
  BY <1>1, <1>3, <1>5, <1>6 DEF StoresInOrder, Own
<1>8. SessionInOrder(devices[d], floor, Newest, d, workspace[d], config[d], s)
  <2>1. StartedInOrder(workspace[d], config[d], s)
    BY <1>3, <1>5, <1>6 DEF StartedInOrder, Sending
  <2>2. PulledInOrder(devices[d], floor, Newest, d, workspace[d], s)
    BY <1>5, <1>6, <1>7 DEF PulledInOrder
  <2>3. AppliedInOrder(devices[d], floor, Newest, d, workspace[d], config[d], s)
    BY <1>5 DEF AppliedInOrder, Applied
  <2>4. FlowInOrder(d, workspace[d], config[d], s)
    BY <1>1, <1>3, <1>5 DEF SessionInOrder, FlowInOrder, Sending, Pulling
  <2> QED
    BY <2>1, <2>2, <2>3, <2>4 DEF SessionInOrder
<1>9. session' = [session EXCEPT ![d] = [session[d] EXCEPT !.step = "pull",
                     !.client = [session[d].client EXCEPT !.flushed = session[d].client.flushed + session[d].sent],
                     !.reached = session[d].client.cursor]]
  BY Zenon DEF EmptyOutbox
<1>10. session' = [session EXCEPT ![d] = s]
  BY <1>2, <1>4, <1>9, Zenon
<1>11. UNCHANGED <<serviceVars, workspace, config, reverts>> /\ ~At(d, "idle")
  BY <1>1 DEF EmptyOutbox, At
<1> QED
  BY <1>8, <1>10, <1>11, SessionGoesOn

\* The last page brings the whole log.
LEMMA LastPage ==
    ASSUME ServiceInv, IsFiniteSet(operations), NEW after \in Cursor, NEW limit \in Nat,
           NEW page \in Pages(after, limit), Cardinality(page) < limit, NEW a \in Devices
    PROVE  PageCursor(after, page)[a] >= maxSequence[a]
<1>1. page \subseteq Candidates(after) /\ Candidates(after) \subseteq operations /\ page \subseteq operations
  BY DEF Pages, Candidates
<1>2. page = Candidates(after)
  <2>1. IsFiniteSet(Candidates(after))
    BY <1>1, FS_Subset
  <2>2. Cardinality(Candidates(after)) \in Nat
    BY <2>1, FS_CardinalityType
  <2>3. Cardinality(page) = IF Cardinality(Candidates(after)) < limit THEN Cardinality(Candidates(after)) ELSE limit
    BY DEF Pages
  <2>4. Cardinality(page) = Cardinality(Candidates(after))
    BY <2>2, <2>3
  <2> QED
    BY <1>1, <2>1, <2>4, FS_Subset
<1>3. /\ maxSequence[a] \in Nat /\ floor[a] \in Nat /\ after[a] \in Nat
      /\ EffectiveAfter(after)[a] = IF after[a] >= floor[a] THEN after[a] ELSE floor[a]
  BY ServiceTypes DEF Cursor, EffectiveAfter
<1>4. /\ PageCursor(after, page)[a] >= EffectiveAfter(after)[a]
      /\ \A o \in page : o[1] = a => PageCursor(after, page)[a] >= o[2]
      /\ PageCursor(after, page)[a] \in {EffectiveAfter(after)[a]} \cup {o[2] : o \in {p \in page : p[1] = a}}
  BY <1>1, PageCursorIsReached
<1>5. CASE maxSequence[a] > EffectiveAfter(after)[a]
  <2>1. maxSequence[a] \in floor[a] + 1 .. maxSequence[a]
    BY <1>3, <1>5
  <2>2. <<a, maxSequence[a]>> \in operations
    BY <2>1 DEF ServiceInv, RetainedSuffix
  <2>3. <<a, maxSequence[a]>> \in page
    BY <1>2, <1>5, <2>2 DEF Candidates
  <2> QED
    BY <1>4, <2>3
<1>6. CASE ~(maxSequence[a] > EffectiveAfter(after)[a])
  <2>1. PageCursor(after, page)[a] \in Nat
    <3>1. \A o \in page : o[2] \in Nat
      BY <1>1 DEF ServiceInv, ServiceTypeOK, Operation
    <3> QED
      BY <1>3, <1>4, <3>1
  <2> QED
    BY <1>3, <1>4, <1>6, <2>1
<1> QED
  BY <1>5, <1>6

\* The log is what its watermarks cover.
LEMMA LogIsCovered ==
    ASSUME ServiceInv
    PROVE  operations \subseteq Covered(maxSequence) /\ \A o \in operations : o[2] > floor[o[1]]
<1> SUFFICES ASSUME NEW o \in operations
             PROVE  o \in Covered(maxSequence) /\ o[2] > floor[o[1]]
  OBVIOUS
<1>1. PICK a \in Devices : o \in {a} \X (floor[a] + 1 .. maxSequence[a])
  BY DEF ServiceInv, RetainedSuffix
<1>2. floor[a] \in Nat /\ maxSequence[a] \in Nat
  BY ServiceTypes
<1>3. o = <<a, o[2]>> /\ o[1] = a /\ o[2] \in 1 .. maxSequence[a] /\ o[2] > floor[a]
  BY <1>1, <1>2
<1> QED
  BY <1>3 DEF Covered

\* The operations of a page beyond a cursor.
News(page, from) == {o \in page : o[2] > from[o[1]]}

\* The new operations of a page are what its cursor covers beyond the one it
\* continues.
LEMMA PageIsCovered ==
    ASSUME ServiceInv, NEW after \in Cursor, NEW limit, NEW page \in Pages(after, limit),
           NEW from \in Cursor, NEW to \in Cursor, Dominates(from, floor), Dominates(from, after),
           Dominates(maxSequence, to), Dominates(to, from),
           \A a \in Devices : to[a] = Max({from[a], PageCursor(after, page)[a]}),
           \A a \in Devices : PageCursor(after, page)[a] \in Nat
    PROVE  Covered(to) = Covered(from) \cup News(page, from)
<1>1. /\ maxSequence \in Cursor /\ floor \in Cursor
      /\ page \subseteq operations /\ operations \subseteq Covered(maxSequence)
  BY ServiceTypes, LogIsCovered DEF Pages, Candidates
<1>2. ASSUME NEW a \in Devices
      PROVE  /\ from[a] \in Nat /\ to[a] \in Nat /\ maxSequence[a] \in Nat /\ floor[a] \in Nat
             /\ after[a] \in Nat /\ from[a] >= floor[a] /\ from[a] >= after[a]
             /\ to[a] <= maxSequence[a] /\ to[a] >= from[a]
             /\ to[a] \in {from[a], PageCursor(after, page)[a]}
             /\ to[a] >= PageCursor(after, page)[a]
  <2>1. PICK m \in Nat, n \in Nat : m = from[a] /\ n = PageCursor(after, page)[a]
    BY DEF Cursor
  <2>2. to[a] \in {m, n} /\ to[a] >= n
    BY <2>1, LargerOf
  <2> QED
    BY <1>1, <2>1, <2>2 DEF Cursor, Dominates
<1>3. ASSUME NEW o \in Covered(to), o \notin Covered(from)
      PROVE  o \in News(page, from)
  <2>1. PICK a \in Devices, n \in Nat : o = <<a, n>> /\ o[1] = a /\ o[2] = n /\ n \in 1 .. to[a]
    BY <1>2, <1>3, CoveredIs
  <2>2. n > from[a]
    <3>1. n \notin 1 .. from[a]
      BY <1>3, <2>1, CoveredIs
    <3> QED
      BY <1>2, <2>1, <3>1
  <2>3. n \in floor[a] + 1 .. maxSequence[a]
    BY <1>2, <2>1, <2>2
  <2>4. o \in operations
    BY <2>1, <2>3 DEF ServiceInv, RetainedSuffix
  <2>5. o[2] > after[o[1]] /\ o[2] <= PageCursor(after, page)[o[1]]
    BY <1>2, <2>1, <2>2
  <2>6. o \in page
    BY <2>4, <2>5, PageLeavesNothing
  <2> QED
    BY <2>1, <2>2, <2>6 DEF News
<1>4. ASSUME NEW o \in News(page, from) PROVE o \in Covered(to)
  <2>1. o \in page /\ o \in Covered(maxSequence) /\ o \in operations
    BY <1>1 DEF News
  <2>2. PICK a \in Devices : a = o[1] /\ o = <<a, o[2]>> /\ o[2] \in 1 .. maxSequence[a]
    BY <1>1, <2>1, CoveredIs
  <2>3. PageCursor(after, page)[a] >= o[2]
    BY <1>1, <2>1, <2>2, PageCursorIsReached
  <2>4. o[2] \in 1 .. to[a]
    BY <1>2, <2>2, <2>3
  <2> QED
    BY <2>2, <2>4, CoveredIs
<1>5. Covered(from) \subseteq Covered(to)
  BY CoveredGrows
<1> QED
  BY <1>3, <1>4, <1>5

\* While the first device has not synchronized, the log is its own.
LEMMA FirstAlone ==
    ASSUME Order, NEW d \in Devices, At(d, "pull"), session[d].flow # "recover",
           config[d].client.cursor = NoCursor
    PROVE  Covered(maxSequence) \subseteq Own(d, session[d].client)
<1>1. /\ config[d].linked /\ session[d].client \in Client /\ maxSequence \in Cursor
      /\ SessionInLine(maxSequence, acknowledged[d], d, config[d], session[d])
      /\ StoresInOrder(devices[d], acknowledged[d], maxSequence, floor, d, workspace[d], config[d])
      /\ SessionInOrder(devices[d], floor, Newest, d, workspace[d], config[d], session[d])
      /\ session[d].step = "pull"
  BY OrderFacts DEF At
<1>2. d = FirstDevice
  BY <1>1 DEF SessionInOrder, StartedInOrder, FlowInOrder, StoresInOrder, Pulling
<1>3. \A x \in Devices \ {d} : maxSequence[x] = 0
  <2>1. \A x \in Devices \ {d} : devices[x] = "absent"
    BY <1>1, <1>2 DEF Order, Joined
  <2> QED
    BY <2>1 DEF Order, LogOrder, RecordInLine
<1>4. maxSequence[d] < session[d].client.next /\ session[d].client.next \in Nat /\ maxSequence[d] \in Nat
  BY <1>1, ClientTypes DEF SessionInLine, InLine, Cursor
<1> SUFFICES ASSUME NEW o \in Covered(maxSequence) PROVE o \in Own(d, session[d].client)
  OBVIOUS
<1>5. o[1] \in Devices /\ o = <<o[1], o[2]>> /\ o[2] \in 1 .. maxSequence[o[1]]
  BY <1>1, CoveredIs
<1>6. o[1] = d /\ o[2] \in 1 .. session[d].client.next - 1
  BY <1>3, <1>4, <1>5
<1> QED
  BY <1>5, <1>6 DEF Own

\* A pulled page leaves the session with what its cursor says.
LEMMA PullInOrder ==
    ASSUME Order, LogOrder', NEW d \in Devices, PullPage(d)
    PROVE  Order'
<1>1. /\ LogOrder /\ ServiceInv /\ Types /\ session[d].step = "pull" /\ devices[d] = "active"
      /\ config[d] \in Config /\ session[d] \in Session /\ session[d].reached \in Cursor
      /\ config[d].client \in Client /\ session[d].client \in Client
      /\ maxSequence \in Cursor /\ floor \in Cursor /\ acknowledged[d] \in Cursor /\ Newest \in Cursor
      /\ SessionInLine(maxSequence, acknowledged[d], d, config[d], session[d])
      /\ StoresInOrder(devices[d], acknowledged[d], maxSequence, floor, d, workspace[d], config[d])
      /\ SessionInOrder(devices[d], floor, Newest, d, workspace[d], config[d], session[d])
      /\ IsFiniteSet(operations)
  BY OrderFacts DEF PullPage, At, Active, Order, Session
<1>2. PICK page \in SUBSET operations, from \in Cursor, to \in Cursor, s \in Session : Pulls(d, page, from, to, s)
  BY <1>1, PullIs
<1>3. PICK news : news = {o \in page : o[2] > from[o[1]]}
  OBVIOUS
<1>4. PICK old \in Session, w \in Document : old = session[d] /\ w = workspace[d]
  BY <1>1, DeviceTypes
<1>5. PICK boot \in BOOLEAN : boot = Bootstraps(old.reached)
  BY Zenon DEF Bootstraps
<1>6. /\ page \in Pages(old.reached, PullLimit)
      /\ from = IF boot THEN Latest.through ELSE old.reached
      /\ Dominates(maxSequence, from) /\ Dominates(maxSequence, to) /\ Dominates(to, from)
      /\ \A a \in Devices : to[a] = Max({from[a], PageCursor(old.reached, page)[a]})
      /\ s.step = IF Cardinality(page) < PullLimit THEN "apply" ELSE "pull"
      /\ s.working = IF boot THEN Latest.body ELSE old.working
      /\ s.pending = (IF boot THEN {} ELSE old.pending) \cup news
      /\ s.received <=> old.received \/ news # {}
      /\ s.reached = to /\ s.client = old.client /\ s.flow = old.flow
      /\ session' = [session EXCEPT ![d] = s]
  BY <1>2, <1>3, <1>4, <1>5, Zenon DEF Pulls, Pulled
<1>7. /\ old.client.cursor = config[d].client.cursor /\ config[d].commits = {}
      /\ old.flow \in {"create", "recover", "sync"}
      /\ Covered(old.reached) \subseteq old.working \cup old.pending
      /\ old.working \cup old.pending \subseteq Covered(old.reached) \cup Own(d, old.client)
      /\ w.ops \subseteq Covered(old.reached) \cup Own(d, old.client)
      /\ old.flow # "recover" /\ ~old.received => w.ops = Covered(old.reached) \cup Own(d, old.client)
      /\ old.reached = NoCursor \/ Dominates(old.reached, floor)
  BY <1>1, <1>4 DEF SessionInOrder, StartedInOrder, PulledInOrder, Ahead, Pulling
<1>8. /\ old.reached \in Cursor /\ Dominates(old.reached, old.client.cursor) /\ Dominates(maxSequence, old.reached)
      /\ old.client \in Client /\ old.client.cursor \in Cursor /\ old.client.next \in Nat
      /\ old.client.flushed = old.client.next - 1 /\ old.client.flushed <= maxSequence[d]
      /\ maxSequence[d] < old.client.next
  BY <1>1, <1>4, ClientTypes DEF SessionInLine, InLine, Pulling
<1>9. boot => manifests # <<>> /\ old.reached = NoCursor
  BY <1>5, <1>7 DEF Bootstraps
<1>10. ~boot => Dominates(old.reached, floor)
  BY <1>4, <1>5, Zenon DEF PullPage
<1>11. Dominates(from, floor) /\ Dominates(from, old.reached)
  <2>1. CASE boot
    <3>1. from = Newest
      BY <1>6, <1>9, <2>1 DEF Newest
    <3> QED
      BY <1>1, <1>9, <2>1, <3>1, NewestIs, DominatesIsOrder
  <2>2. CASE ~boot
    BY <1>6, <1>8, <1>10, <2>2, DominatesIsOrder
  <2> QED
    BY <2>1, <2>2
<1>12. \A a \in Devices : PageCursor(old.reached, page)[a] \in Nat
  BY <1>1, <1>8, PageCursorInLog
<1>13. Covered(to) = Covered(from) \cup news /\ Covered(from) \subseteq Covered(to)
  <2>1. /\ ServiceInv /\ old.reached \in Cursor /\ page \in Pages(old.reached, PullLimit)
        /\ Dominates(from, floor) /\ Dominates(from, old.reached) /\ Dominates(maxSequence, to) /\ Dominates(to, from)
        /\ \A a \in Devices : to[a] = Max({from[a], PageCursor(old.reached, page)[a]})
        /\ \A a \in Devices : PageCursor(old.reached, page)[a] \in Nat
        /\ news = News(page, from)
    BY <1>1, <1>3, <1>6, <1>8, <1>11, <1>12 DEF News
  <2>2. Covered(to) = Covered(from) \cup news
    BY <2>1, PageIsCovered
  <2> QED
    BY <2>1, <2>2, CoveredGrows
<1>14. /\ Covered(from) \subseteq s.working \cup s.pending
       /\ s.working \cup s.pending \subseteq Covered(from) \cup news \cup Own(d, old.client)
       /\ w.ops \subseteq Covered(from) \cup Own(d, old.client)
  <2>1. CASE boot
    <3>1. Latest.body = Covered(Latest.through)
      <4>1. Len(manifests) \in DOMAIN manifests
        BY <1>1, <1>9, <2>1, LatestIsManifest DEF ServiceInv
      <4> QED
        BY <4>1 DEF Order, Snapshots, Latest
    <3> QED
      BY <1>6, <1>7, <1>9, <2>1, <3>1, CoveredNothing
  <2>2. CASE ~boot
    BY <1>6, <1>7, <2>2
  <2> QED
    BY <2>1, <2>2
<1>15. config[d].client.cursor = NoCursor /\ old.flow # "recover" =>
          Covered(maxSequence) \subseteq Own(d, old.client)
  BY <1>1, <1>4, FirstAlone DEF At
<1>16. boot => config[d].client.cursor = NoCursor
  BY <1>7, <1>8, <1>9, DominatesIsOrder
<1>17. s.flow # "recover" /\ ~s.received => w.ops = Covered(to) \cup Own(d, s.client)
  <2> SUFFICES ASSUME old.flow # "recover", ~s.received
               PROVE  w.ops = Covered(to) \cup Own(d, old.client)
    BY <1>6
  <2>1. news = {} /\ ~old.received /\ Covered(to) = Covered(from)
    BY <1>6, <1>13
  <2>2. w.ops = Covered(old.reached) \cup Own(d, old.client)
    BY <1>7, <2>1
  <2>3. CASE boot
    <3>1. Covered(from) \subseteq Covered(maxSequence)
      BY <1>1, <1>6, CoveredGrows
    <3> QED
      BY <1>9, <1>15, <1>16, <2>1, <2>2, <2>3, <3>1, CoveredNothing
  <2>4. CASE ~boot
    BY <1>6, <2>1, <2>2, <2>4
  <2> QED
    BY <2>3, <2>4
<1>18. Dominates(to, floor)
  BY <1>1, <1>6, <1>11, DominatesIsOrder
<1>19. ASSUME s.step = "apply"
       PROVE  /\ to[d] = old.client.next - 1
              /\ d # FirstDevice => to # NoCursor
              /\ Dominates(to, Newest)
  <2>1. Cardinality(page) < PullLimit /\ PullLimit \in Nat
    BY <1>1, <1>6, <1>19, ServiceTypes
  <2>2. ASSUME NEW a \in Devices PROVE to[a] >= maxSequence[a]
    <3>1. PICK m \in Nat, n \in Nat : m = from[a] /\ n = PageCursor(old.reached, page)[a] /\ to[a] = Max({m, n})
      BY <1>6, <1>12 DEF Cursor
    <3>2. n >= maxSequence[a] /\ to[a] >= n
      BY <1>1, <1>6, <1>8, <2>1, <3>1, LastPage, LargerOf
    <3> QED
      BY <1>1, <3>2 DEF Cursor
  <2>3. Dominates(to, maxSequence)
    BY <2>2 DEF Dominates
  <2>4. to[d] = old.client.next - 1
    <3>1. to[d] \in Nat /\ maxSequence[d] \in Nat /\ to[d] <= maxSequence[d]
      BY <1>1, <1>6 DEF Cursor, Dominates
    <3> QED
      BY <1>8, <2>2, <3>1
  <2>5. d # FirstDevice => to # NoCursor
    <3>1. d # FirstDevice => maxSequence # NoCursor
      BY <1>1 DEF Order, Joined
    <3> QED
      BY <1>1, <2>3, <3>1, DominatesIsOrder
  <2>6. Dominates(to, Newest)
    BY <1>1, <2>3, NewestIs, DominatesIsOrder
  <2> QED
    BY <2>4, <2>5, <2>6
<1>20. PulledInOrder(devices[d], floor, Newest, d, w, s)
  BY <1>6, <1>13, <1>14, <1>17, <1>18, <1>19 DEF PulledInOrder, Ahead
<1>21. old.flow = "create" => ~s.received
  <2> SUFFICES ASSUME old.flow = "create" PROVE news = {} /\ ~old.received
    BY <1>6
  <2>1. old.client.next = 1 /\ ~old.received /\ config[d].client.cursor = NoCursor
    BY <1>1, <1>4 DEF SessionInOrder, FlowInOrder, Pulling
  <2>2. Covered(maxSequence) = {}
    BY <1>15, <2>1 DEF Own
  <2>3. operations = {}
    BY <1>1, <2>2, LogIsCovered
  <2> QED
    BY <1>3, <2>1, <2>3
<1>22. s.step \in Pulling /\ s.step \notin Sending /\ s.step \notin Applied /\ s.step # "idle"
  BY <1>6 DEF Pulling, Sending, Applied
<1>23. SessionInOrder(devices[d], floor, Newest, d, w, config[d], s)
  <2>1. StartedInOrder(w, config[d], s)
    BY <1>6, <1>7, <1>22 DEF StartedInOrder
  <2>2. FlowInOrder(d, w, config[d], s)
    BY <1>1, <1>4, <1>6, <1>21, <1>22 DEF SessionInOrder, FlowInOrder, Pulling
  <2>3. AppliedInOrder(devices[d], floor, Newest, d, w, config[d], s)
    BY <1>22 DEF AppliedInOrder
  <2> QED
    BY <1>20, <2>1, <2>2, <2>3 DEF SessionInOrder
<1>24. UNCHANGED <<serviceVars, workspace, config, reverts>> /\ ~At(d, "idle")
  BY <1>1 DEF PullPage, At
<1> QED
  BY <1>4, <1>6, <1>23, <1>24, SessionGoesOn

\* Without reverts, applying is adding.
LEMMA MergeAdds ==
    ASSUME reverts = {}, NEW document, NEW ops
    PROVE  Merge(document, ops) = document \cup ops
  BY DEF Merge

\* What was applied is what the cursor says.
LEMMA ApplyInOrder ==
    ASSUME Order, LogOrder', NEW d \in Devices, ApplyBatch(d)
    PROVE  Order'
<1>1. /\ LogOrder /\ reverts = {} /\ session[d].step = "apply"
      /\ workspace[d] \in Document /\ config[d] \in Config /\ session[d] \in Session /\ session[d].reached \in Cursor
      /\ session[d].client \in Client
      /\ SessionInLine(maxSequence, acknowledged[d], d, config[d], session[d])
      /\ SessionInOrder(devices[d], floor, Newest, d, workspace[d], config[d], session[d])
  BY OrderFacts DEF ApplyBatch, At, Session
<1>2. PICK applied \in Client, s \in Session : Applies(d, applied, s)
  BY <1>1, ApplyIs
<1>3. PICK old \in Session, w \in Document : old = session[d] /\ w = workspace[d]
  BY <1>1
<1>4. /\ applied.next = old.client.next /\ applied.cursor = old.reached
      /\ s.step \in {"upload", "download"} /\ s.working = old.working \cup old.pending
      /\ s.client = applied /\ s.flow = old.flow /\ s.received = old.received
      /\ session' = [session EXCEPT ![d] = s]
  BY <1>1, <1>2, <1>3, MergeAdds DEF Applies
<1>5. /\ old.client.cursor = config[d].client.cursor /\ config[d].commits = {}
      /\ old.flow \in {"create", "recover", "sync"}
      /\ Covered(old.reached) \subseteq old.working \cup old.pending
      /\ old.working \cup old.pending \subseteq Covered(old.reached) \cup Own(d, old.client)
      /\ w.ops \subseteq Covered(old.reached) \cup Own(d, old.client)
      /\ old.flow # "recover" /\ ~old.received => w.ops = Covered(old.reached) \cup Own(d, old.client)
      /\ Ahead(devices[d], floor, old.reached)
      /\ old.reached[d] = old.client.next - 1
      /\ d # FirstDevice => old.reached # NoCursor
      /\ Dominates(old.reached, Newest)
  BY <1>1, <1>3 DEF SessionInOrder, StartedInOrder, PulledInOrder, Pulling
<1>6. old.flow = "create" => d = FirstDevice /\ old.client.next = 1 /\ ~old.received
  BY <1>1, <1>3 DEF SessionInOrder, FlowInOrder
<1>7. Own(d, old.client) \subseteq Covered(old.reached)
  BY <1>1, <1>3, <1>5, OwnCovered
<1>8. Dominates(applied.cursor, config[d].client.cursor)
  BY <1>1, <1>3, <1>4, <1>5 DEF SessionInLine, Pulling
<1>9. ~Commits(s) => w.ops = s.working
  <2> SUFFICES ASSUME ~Commits(s) PROVE w.ops = s.working
    OBVIOUS
  <2>1. old.flow # "recover" /\ ~old.received
    BY <1>4, <1>5, <1>6 DEF Commits
  <2> QED
    BY <1>4, <1>5, <1>7, <2>1
<1>10. AppliedInOrder(devices[d], floor, Newest, d, w, config[d], s)
  BY <1>4, <1>5, <1>7, <1>8, <1>9 DEF AppliedInOrder
<1>11. s.step \notin Sending \cup Pulling /\ s.step # "idle"
  BY <1>4 DEF Sending, Pulling
<1>12. SessionInOrder(devices[d], floor, Newest, d, w, config[d], s)
  <2>1. FlowInOrder(d, w, config[d], s)
    BY <1>1, <1>3, <1>4, <1>6, <1>11 DEF SessionInOrder, FlowInOrder
  <2> QED
    BY <1>10, <1>11, <2>1 DEF SessionInOrder, StartedInOrder, PulledInOrder
<1>13. UNCHANGED <<serviceVars, workspace, config, reverts>> /\ ~At(d, "idle")
  BY <1>1 DEF ApplyBatch, At
<1> QED
  BY <1>3, <1>4, <1>12, <1>13, SessionGoesOn

-----------------------------------------------------------------------------
(* What a device does: storing what was applied *)

\* Nobody is offered a snapshot that is not what its cursor says.
LEMMA UploadSteady ==
    ASSUME Order, NEW d \in Devices, NEW through \in Cursor, CommitSnapshotManifest(d, through, Covered(through)),
           Covered(through) \in Bodies
    PROVE  /\ Steady /\ UNCHANGED <<devices, requests, operations, maxSequence, acknowledged, floor>>
           /\ Snapshots' /\ Newest' = through
<1>1. /\ manifests' = Retain(Append(manifests, [through |-> through, body |-> Covered(through)]))
      /\ UNCHANGED <<devices, requests, operations, maxSequence, acknowledged, floor>>
  BY DEF CommitSnapshotManifest
<1>2. manifests \in Seq(Manifest) /\ maxSequence \in Cursor /\ IsFiniteSet(operations)
  BY ServiceTypes DEF Order, LogOrder, ServiceInv, ServiceTypeOK
<1>3. PICK new : new = [through |-> through, body |-> Covered(through)]
  OBVIOUS
<1>4. new \in Manifest /\ new.through = through /\ new.body = Covered(through)
  BY <1>3 DEF Manifest
<1>5. PICK list : list = Append(manifests, new)
  OBVIOUS
<1>6. /\ list \in Seq(Manifest) /\ list # <<>> /\ Len(list) = Len(manifests) + 1
      /\ \A j \in 1 .. Len(manifests) : list[j] = manifests[j]
      /\ list[Len(manifests) + 1] = new
  BY <1>2, <1>4, <1>5, AppendProperties
<1>7. /\ manifests' \in Seq(Manifest) /\ manifests' # <<>>
      /\ manifests'[Len(manifests')] = new
      /\ \A i \in DOMAIN manifests' : \E j \in DOMAIN list : manifests'[i] = list[j]
  <2>1. manifests' = Retain(list)
    BY <1>1, <1>3, <1>5, Zenon
  <2> QED
    BY <1>6, <2>1, RetainKeepsLatest
<1>8. ASSUME NEW j \in DOMAIN list PROVE list[j].body = Covered(list[j].through)
  <2>1. CASE j = Len(manifests) + 1
    BY <1>4, <1>6, <2>1
  <2>2. CASE j # Len(manifests) + 1
    <3>1. j \in DOMAIN manifests /\ list[j] = manifests[j]
      BY <1>2, <1>6, <2>2
    <3> QED
      BY <3>1 DEF Order, Snapshots
  <2> QED
    BY <2>1, <2>2
<1>9. Snapshots'
  <2> SUFFICES ASSUME NEW i \in DOMAIN manifests' PROVE manifests'[i].body = Covered(manifests'[i].through)
    BY DEF Snapshots, Covered
  <2> QED
    BY <1>7, <1>8
<1>10. Newest' = through
  BY <1>4, <1>7 DEF Newest, Latest
<1>11. Steady
  BY <1>1, <1>2, DominatesIsOrder DEF Steady, Active
<1> QED
  BY <1>1, <1>9, <1>10, <1>11

\* The uploaded snapshot is what was applied.
LEMMA UploadInOrder ==
    ASSUME Order, LogOrder', NEW d \in Devices, UploadSnapshot(d)
    PROVE  Order'
<1>1. /\ Types /\ session[d].step = "upload" /\ workspace[d] \in Document
      /\ config[d] \in Config /\ session[d] \in Session /\ session[d].client \in Client
      /\ session[d].working \subseteq Ops /\ session[d].client.cursor \in Cursor /\ config[d].client.cursor \in Cursor
      /\ StoresInOrder(devices[d], acknowledged[d], maxSequence, floor, d, workspace[d], config[d])
      /\ SessionInOrder(devices[d], floor, Newest, d, workspace[d], config[d], session[d])
      /\ \A x \in Devices \ {d} : At(x, "idle")
  BY OrderFacts, DeviceTypes, ClientTypes DEF UploadSnapshot, At
<1>2. PICK through \in Cursor : through = session[d].client.cursor
  BY <1>1
<1>3. session[d].working = Covered(through)
  BY <1>1, <1>2 DEF SessionInOrder, AppliedInOrder, Applied
<1>4. /\ CommitSnapshotManifest(d, through, Covered(through)) /\ Covered(through) \in Bodies
      /\ workspace' = workspace /\ config' = config /\ reverts' = reverts
  BY <1>1, <1>2, <1>3, BodyAssumption DEF UploadSnapshot, Ops
<1>5. /\ Steady /\ UNCHANGED <<devices, requests, operations, maxSequence, acknowledged, floor>>
      /\ Snapshots' /\ Newest' = through
  BY <1>4, UploadSteady
<1>6. PICK client : client = [session[d].client EXCEPT !.snapshot = TRUE]
  OBVIOUS
<1>7. client.next = session[d].client.next /\ client.cursor = session[d].client.cursor
  BY <1>1, <1>6 DEF Client
<1>8. PICK s : s = [session[d] EXCEPT !.step = "download", !.client = client]
  OBVIOUS
<1>9. /\ s.step = "download" /\ s.client = client /\ s.flow = session[d].flow
      /\ s.working = session[d].working /\ s.received = session[d].received
  BY <1>1, <1>8 DEF Session
<1>10. session' = [session EXCEPT ![d] =
          [session[d] EXCEPT !.step = "download", !.client = [session[d].client EXCEPT !.snapshot = TRUE]]]
  BY Zenon DEF UploadSnapshot
<1>11. PICK w \in Document, c \in Config : w = workspace[d] /\ c = config[d]
  BY <1>1
<1>12. /\ workspace' = [workspace EXCEPT ![d] = w] /\ config' = [config EXCEPT ![d] = c]
       /\ session' = [session EXCEPT ![d] = s]
  <2>1. session' = [session EXCEPT ![d] = s]
    BY <1>6, <1>8, <1>10, Zenon
  <2> QED
    BY <1>1, <1>4, <1>11, <2>1 DEF Types
<1>13. SessionInOrder(devices[d], floor, Newest', d, w, c, s)
  <2>1. AppliedInOrder(devices[d], floor, Newest, d, w, c, session[d]) /\ FlowInOrder(d, w, c, session[d])
    BY <1>1, <1>11 DEF SessionInOrder
  <2>2. Commits(s) <=> Commits(session[d])
    BY <1>9 DEF Commits
  <2>3. AppliedInOrder(devices[d], floor, Newest', d, w, c, s)
    BY <1>1, <1>7, <1>9, <2>1, <2>2 DEF AppliedInOrder, Applied
  <2>4. FlowInOrder(d, w, c, s)
    BY <1>1, <1>7, <1>9, <2>1 DEF FlowInOrder, Sending, Pulling
  <2> QED
    BY <1>9, <2>3, <2>4 DEF SessionInOrder, StartedInOrder, PulledInOrder, Sending, Pulling
<1>14. /\ workspace[d].ops \subseteq w.ops /\ (devices[d] = "absent" => w = workspace[d])
       /\ c.linked => config[d].linked /\ Dominates(c.client.cursor, config[d].client.cursor)
       /\ s.step = "idle" \/ ~At(d, "idle") \/ \A x \in Devices \ {d} : At(x, "idle")
       /\ \A q \in requests' \ requests : Held(q)
       /\ \A x \in Devices \ {d} : acknowledged'[x] = acknowledged[x]
       /\ Newest' = Newest \/ \A x \in Devices \ {d} : At(x, "idle")
  BY <1>1, <1>5, <1>11, DominatesIsOrder
<1>15. /\ StoresInOrder(devices'[d], acknowledged'[d], maxSequence', floor', d, w, c)
       /\ SessionInOrder(devices'[d], floor', Newest', d, w, c, s)
  BY <1>1, <1>5, <1>11, <1>13
<1>16. Order /\ LogOrder' /\ Steady /\ Snapshots' /\ reverts' = reverts
  BY <1>4, <1>5
<1> QED
  BY <1>12, <1>14, <1>15, <1>16, GoesOn, ZenonT(30)

\* The journaled commit is what was applied.
LEMMA JournalsInOrder ==
    ASSUME Order, LogOrder', NEW d \in Devices, JournalCommit(d)
    PROVE  Order'
<1>1. /\ Types /\ session[d].step = "download" /\ d \notin Mobile /\ config[d].linked
      /\ workspace[d] \in Document /\ config[d] \in Config /\ session[d] \in Session
      /\ config[d].client.cursor \in Cursor
      /\ StoresInOrder(devices[d], acknowledged[d], maxSequence, floor, d, workspace[d], config[d])
      /\ SessionInOrder(devices[d], floor, Newest, d, workspace[d], config[d], session[d])
  BY OrderFacts, ClientTypes DEF JournalCommit, At
<1>2. PICK commit :
         commit = [document |-> session[d].working, client |-> session[d].client, received |-> session[d].received]
  OBVIOUS
<1>3. /\ commit.document = session[d].working /\ commit.client = session[d].client
      /\ commit.received = session[d].received
  BY <1>2
<1>4. PICK c : c = [config[d] EXCEPT !.commits = {commit}]
  OBVIOUS
<1>5. /\ c.linked = config[d].linked /\ c.client = config[d].client /\ c.commits = {commit}
      /\ c.baseline = config[d].baseline
  BY <1>1, <1>4 DEF Config
<1>6. PICK s : s = [session[d] EXCEPT !.step = "commit"]
  OBVIOUS
<1>7. /\ s.step = "commit" /\ s.client = session[d].client /\ s.flow = session[d].flow
      /\ s.working = session[d].working /\ s.received = session[d].received
  BY <1>1, <1>6 DEF Session
<1>8. PICK w \in Document : w = workspace[d]
  BY <1>1
<1>9. /\ AppliedInOrder(devices[d], floor, Newest, d, w, config[d], session[d])
      /\ FlowInOrder(d, w, config[d], session[d])
  BY <1>1, <1>8 DEF SessionInOrder
<1>10. w.account /\ ~commit.received => w.ops = commit.document
  <2> SUFFICES ASSUME w.account, ~session[d].received PROVE w.ops = session[d].working
    BY <1>3
  <2>1. session[d].flow # "recover"
    BY <1>1, <1>8, <1>9 DEF FlowInOrder, StoresInOrder
  <2>2. ~Commits(session[d])
    BY <1>1, <1>9, <2>1 DEF AppliedInOrder, Applied, Commits
  <2> QED
    BY <1>1, <1>9, <2>2 DEF AppliedInOrder, Applied
<1>11. JournalInOrder(devices[d], floor, d, w, c, commit)
  BY <1>1, <1>3, <1>5, <1>9, <1>10 DEF AppliedInOrder, Applied, JournalInOrder
<1>12. StoresInOrder(devices[d], acknowledged[d], maxSequence, floor, d, w, c)
  BY <1>1, <1>5, <1>8, <1>11 DEF StoresInOrder
<1>13. SessionInOrder(devices[d], floor, Newest, d, w, c, s)
  <2>1. Commits(s) <=> Commits(session[d])
    BY <1>7 DEF Commits
  <2>2. AppliedInOrder(devices[d], floor, Newest, d, w, c, s)
    BY <1>1, <1>3, <1>5, <1>7, <1>9, <2>1 DEF AppliedInOrder, Applied
  <2>3. FlowInOrder(d, w, c, s)
    BY <1>1, <1>7, <1>9 DEF FlowInOrder, Sending, Pulling
  <2> QED
    BY <1>7, <2>2, <2>3 DEF SessionInOrder, StartedInOrder, PulledInOrder, Sending, Pulling
<1>14. /\ workspace' = [workspace EXCEPT ![d] = w] /\ config' = [config EXCEPT ![d] = c]
       /\ session' = [session EXCEPT ![d] = s] /\ UNCHANGED serviceVars /\ reverts' = reverts
  BY <1>1, <1>2, <1>4, <1>6, <1>8 DEF JournalCommit, Types
<1>15. /\ workspace[d].ops \subseteq w.ops /\ (devices[d] = "absent" => w = workspace[d])
       /\ c.linked => config[d].linked /\ Dominates(c.client.cursor, config[d].client.cursor)
       /\ ~At(d, "idle")
  BY <1>1, <1>5, <1>8, DominatesIsOrder DEF At
<1> QED
  BY <1>12, <1>13, <1>14, <1>15, LocalGoesOn

\* What is committed is what was applied.
LEMMA CommittedIs ==
    ASSUME Orderly, NEW d \in Devices, CommitWorkspace(d)
    PROVE  /\ Committed(d) = session[d].working /\ ~AlreadyImported(d)
           /\ workspace' = IF Commits(session[d])
                           THEN [workspace EXCEPT ![d] =
                                    [workspace[d] EXCEPT !.ops = session[d].working, !.edits = 0, !.touched = TRUE]]
                           ELSE workspace
<1>1. Committed(d) = session[d].working /\ ~AlreadyImported(d)
  BY DEF Orderly, Committed, AlreadyImported
<1>2. workspace' = IF Commits(session[d]) /\ ~AlreadyImported(d)
                   THEN [workspace EXCEPT ![d] =
                            [workspace[d] EXCEPT !.ops = Committed(d), !.edits = 0, !.touched = TRUE]]
                   ELSE workspace
  BY Zenon DEF CommitWorkspace
<1> QED
  BY <1>1, <1>2, Zenon

\* The store holds what was applied once it is committed.
LEMMA CommitInOrder ==
    ASSUME Orderly, Order, LogOrder', NEW d \in Devices, CommitWorkspace(d)
    PROVE  Order'
<1>1. /\ Types /\ session[d].step = "commit" /\ config[d].linked /\ devices[d] # "absent"
      /\ workspace[d] \in Document /\ config[d] \in Config /\ session[d] \in Session
      /\ config[d].client.cursor \in Cursor /\ maxSequence \in Cursor /\ session[d].client.cursor \in Cursor
      /\ session[d].working \subseteq Ops
      /\ SessionInLine(maxSequence, acknowledged[d], d, config[d], session[d])
      /\ StoresInOrder(devices[d], acknowledged[d], maxSequence, floor, d, workspace[d], config[d])
      /\ SessionInOrder(devices[d], floor, Newest, d, workspace[d], config[d], session[d])
  BY OrderFacts, DeviceTypes, ClientTypes DEF CommitWorkspace, At
<1>2. AppliedInOrder(devices[d], floor, Newest, d, workspace[d], config[d], session[d])
  BY <1>1 DEF SessionInOrder
<1>3. PICK w \in Document :
         /\ workspace' = [workspace EXCEPT ![d] = w]
         /\ w.ops = session[d].working /\ w.account = workspace[d].account
  <2>1. PICK stored : stored = [workspace[d] EXCEPT !.ops = session[d].working, !.edits = 0, !.touched = TRUE]
    OBVIOUS
  <2>2. stored \in Document /\ stored.ops = session[d].working /\ stored.account = workspace[d].account
    BY <1>1, <2>1 DEF Document
  <2>3. CASE Commits(session[d])
    <3>1. workspace' = [workspace EXCEPT ![d] = stored]
      BY <2>1, <2>3, CommittedIs
    <3> QED
      BY <2>2, <3>1
  <2>4. CASE ~Commits(session[d])
    <3>1. workspace' = workspace /\ workspace[d].ops = session[d].working
      BY <1>1, <1>2, <2>4, CommittedIs DEF AppliedInOrder, Applied
    <3>2. workspace' = [workspace EXCEPT ![d] = workspace[d]]
      BY <1>1, <3>1 DEF Types
    <3> QED
      BY <1>1, <3>1, <3>2
  <2> QED
    BY <2>3, <2>4
<1>4. PICK s : s = [session[d] EXCEPT !.step = "finish"]
  OBVIOUS
<1>5. /\ s.step = "finish" /\ s.client = session[d].client /\ s.flow = session[d].flow
      /\ s.working = session[d].working /\ s.received = session[d].received
  BY <1>1, <1>4 DEF Session
<1>6. /\ session[d].working = Covered(session[d].client.cursor) /\ workspace[d].ops \subseteq w.ops
      /\ config[d].commits # {}
      /\ \A commit \in config[d].commits : commit.client = session[d].client
  BY <1>1, <1>2, <1>3 DEF AppliedInOrder, Applied
<1>7. w.ops \subseteq Covered(maxSequence)
  <2>1. Dominates(maxSequence, session[d].client.cursor)
    BY <1>1 DEF SessionInLine, InLine
  <2> QED
    BY <1>1, <1>3, <1>6, <2>1, CoveredGrows
<1>8. PICK c \in Config : c = config[d]
  BY <1>1
<1>9. ASSUME NEW commit \in c.commits
      PROVE  JournalInOrder(devices[d], floor, d, w, c, commit)
  <2>1. JournalInOrder(devices[d], floor, d, workspace[d], c, commit) /\ commit.client = session[d].client
    BY <1>1, <1>6, <1>8 DEF StoresInOrder
  <2>2. commit.document = w.ops
    BY <1>3, <1>6, <2>1 DEF JournalInOrder
  <2> QED
    BY <2>1, <2>2 DEF JournalInOrder
<1>10. StoresInOrder(devices[d], acknowledged[d], maxSequence, floor, d, w, c)
  BY <1>1, <1>3, <1>6, <1>7, <1>8, <1>9 DEF StoresInOrder
<1>11. SessionInOrder(devices[d], floor, Newest, d, w, c, s)
  <2>1. AppliedInOrder(devices[d], floor, Newest, d, w, c, s)
    BY <1>1, <1>2, <1>3, <1>5, <1>8 DEF AppliedInOrder, Applied
  <2>2. FlowInOrder(d, w, c, s)
    BY <1>1, <1>3, <1>5 DEF SessionInOrder, FlowInOrder, Sending, Pulling
  <2> QED
    BY <1>5, <2>1, <2>2 DEF SessionInOrder, StartedInOrder, PulledInOrder, Sending, Pulling
<1>12. /\ config' = [config EXCEPT ![d] = c] /\ session' = [session EXCEPT ![d] = s]
       /\ UNCHANGED serviceVars /\ reverts' = reverts
  BY <1>1, <1>4, <1>8 DEF CommitWorkspace, Types
<1>13. /\ c.linked => config[d].linked /\ Dominates(c.client.cursor, config[d].client.cursor)
       /\ ~At(d, "idle") /\ (devices[d] = "absent" => w = workspace[d])
  BY <1>1, <1>8, DominatesIsOrder DEF At
<1> QED
  BY <1>3, <1>6, <1>10, <1>11, <1>12, <1>13, LocalGoesOn

\* What was applied is stored, in both stores: the synchronization is done but
\* for the acknowledgement.
LEMMA StoredIsDone ==
    ASSUME Order, LogOrder', NEW d \in Devices, UNCHANGED serviceVars, reverts' = reverts,
           session[d].step \in Applied, session' = [session EXCEPT ![d].step = "acknowledge"],
           NEW w, w.ops = session[d].working, w.account \/ ~(workspace[d].account),
           d # FirstDevice /\ w.account => d \in Mobile,
           NEW c, c.linked = config[d].linked, c.client = session[d].client, c.commits = {},
           c.baseline = session[d].working,
           workspace' = [workspace EXCEPT ![d] = w], config' = [config EXCEPT ![d] = c]
    PROVE  Order'
<1>1. /\ config[d].linked /\ devices[d] # "absent"
      /\ config[d] \in Config /\ session[d] \in Session /\ session[d].client \in Client
      /\ config[d].client.cursor \in Cursor /\ maxSequence \in Cursor /\ session[d].client.cursor \in Cursor
      /\ SessionInLine(maxSequence, acknowledged[d], d, config[d], session[d])
      /\ StoresInOrder(devices[d], acknowledged[d], maxSequence, floor, d, workspace[d], config[d])
      /\ SessionInOrder(devices[d], floor, Newest, d, workspace[d], config[d], session[d])
  BY OrderFacts, ClientTypes DEF At, Applied
<1>2. /\ AppliedInOrder(devices[d], floor, Newest, d, workspace[d], config[d], session[d])
      /\ session[d].client.next = config[d].client.next /\ session[d].step # "idle"
      /\ Dominates(maxSequence, session[d].client.cursor)
  BY <1>1 DEF SessionInOrder, SessionInLine, InLine, Applied
<1>3. /\ w.ops = Covered(session[d].client.cursor)
      /\ session[d].client.cursor[d] = session[d].client.next - 1
      /\ d # FirstDevice => session[d].client.cursor # NoCursor
      /\ Ahead(devices[d], floor, session[d].client.cursor)
      /\ Dominates(session[d].client.cursor, config[d].client.cursor)
      /\ workspace[d].ops \subseteq w.ops
  BY <1>2 DEF AppliedInOrder
<1>4. Own(d, session[d].client) \subseteq w.ops /\ w.ops \subseteq Covered(maxSequence)
  BY <1>1, <1>2, <1>3, OwnCovered, CoveredGrows
<1>5. PICK s : s = [session[d] EXCEPT !.step = "acknowledge"]
  OBVIOUS
<1>6. /\ s.step = "acknowledge" /\ s.client = session[d].client /\ s.flow = session[d].flow
      /\ s.working = session[d].working /\ s.received = session[d].received
  BY <1>1, <1>5 DEF Session
<1>7. StoresInOrder(devices[d], acknowledged[d], maxSequence, floor, d, w, c)
  BY <1>1, <1>3, <1>4 DEF StoresInOrder
<1>8. SessionInOrder(devices[d], floor, Newest, d, w, c, s)
  <2>1. AppliedInOrder(devices[d], floor, Newest, d, w, c, s)
    BY <1>1, <1>3, <1>6, DominatesIsOrder DEF AppliedInOrder
  <2>2. FlowInOrder(d, w, c, s)
    BY <1>1, <1>2, <1>6 DEF SessionInOrder, FlowInOrder, Sending, Pulling
  <2> QED
    BY <1>6, <2>1, <2>2 DEF SessionInOrder, StartedInOrder, PulledInOrder, Sending, Pulling
<1>9. session' = [session EXCEPT ![d] = s] /\ ~At(d, "idle")
  BY <1>2, <1>5 DEF At
<1>10. /\ c.linked => config[d].linked /\ Dominates(c.client.cursor, config[d].client.cursor)
       /\ (devices[d] = "absent" => w = workspace[d])
  BY <1>1, <1>3
<1> QED
  BY <1>3, <1>7, <1>8, <1>9, <1>10, LocalGoesOn

\* On a desktop the configuration takes over what the workspace store has.
LEMMA FinishInOrder ==
    ASSUME Order, LogOrder', NEW d \in Devices, FinishCommit(d)
    PROVE  Order'
<1>1. /\ Types /\ session[d].step = "finish" /\ config[d] \in Config /\ workspace[d] \in Document
      /\ StoresInOrder(devices[d], acknowledged[d], maxSequence, floor, d, workspace[d], config[d])
      /\ SessionInOrder(devices[d], floor, Newest, d, workspace[d], config[d], session[d])
  BY OrderFacts DEF FinishCommit, At
<1>2. PICK w \in Document : w = workspace[d]
  BY <1>1
<1>3. w.ops = session[d].working
  BY <1>1, <1>2 DEF SessionInOrder, AppliedInOrder, Applied
<1>4. PICK c : c = [config[d] EXCEPT !.baseline = session[d].working, !.client = session[d].client, !.commits = {}]
  OBVIOUS
<1>5. /\ c.linked = config[d].linked /\ c.client = session[d].client /\ c.commits = {}
      /\ c.baseline = session[d].working
  BY <1>1, <1>4 DEF Config
<1>6. /\ workspace' = [workspace EXCEPT ![d] = w] /\ config' = [config EXCEPT ![d] = c]
      /\ session' = [session EXCEPT ![d].step = "acknowledge"] /\ UNCHANGED serviceVars /\ reverts' = reverts
  BY <1>1, <1>2, <1>4 DEF FinishCommit, Types
<1>7. (d # FirstDevice /\ w.account => d \in Mobile) /\ session[d].step \in Applied
      /\ (w.account \/ ~(workspace[d].account))
  BY <1>1, <1>2 DEF StoresInOrder, Applied
<1> QED
  BY <1>3, <1>5, <1>6, <1>7, StoredIsDone

\* On a mobile both are written at once.
LEMMA SaveInOrder ==
    ASSUME Order, LogOrder', NEW d \in Devices, SaveWorkspaceAndConfig(d)
    PROVE  Order'
<1>1. /\ session[d].step = "download" /\ d \in Mobile /\ config[d] \in Config
      /\ SessionInOrder(devices[d], floor, Newest, d, workspace[d], config[d], session[d])
  BY OrderFacts DEF SaveWorkspaceAndConfig, At
<1>2. PICK w : w = [ops |-> session[d].working, edits |-> 0, touched |-> FALSE, account |-> TRUE]
  OBVIOUS
<1>3. w.ops = session[d].working /\ w.account
  BY <1>2
<1>4. PICK c : c = [config[d] EXCEPT !.baseline = session[d].working, !.client = session[d].client]
  OBVIOUS
<1>5. /\ c.linked = config[d].linked /\ c.client = session[d].client /\ c.commits = {}
      /\ c.baseline = session[d].working
  BY <1>1, <1>4 DEF Config, SessionInOrder, AppliedInOrder, Applied
<1>6. /\ workspace' = [workspace EXCEPT ![d] = w] /\ config' = [config EXCEPT ![d] = c]
      /\ session' = [session EXCEPT ![d].step = "acknowledge"] /\ UNCHANGED serviceVars /\ reverts' = reverts
  BY <1>2, <1>4 DEF SaveWorkspaceAndConfig
<1>7. session[d].step \in Applied
  BY <1>1 DEF Applied
<1> QED
  BY <1>1, <1>3, <1>5, <1>6, <1>7, StoredIsDone

\* What a device acknowledges it has stored, and the service compacts no more
\* than that.
LEMMA AcknowledgeInOrder ==
    ASSUME Served, Order, LogOrder', NEW d \in Devices, AcknowledgeSync(d)
    PROVE  Order'
<1>1. /\ LogOrder /\ Types /\ session[d].step = "acknowledge" /\ devices[d] = "active" /\ config[d].linked
      /\ workspace[d] \in Document /\ config[d] \in Config /\ session[d] \in Session
      /\ config[d].client.cursor \in Cursor /\ session[d].client.cursor \in Cursor
      /\ maxSequence \in Cursor /\ floor \in Cursor
      /\ SessionInLine(maxSequence, acknowledged[d], d, config[d], session[d])
      /\ StoresInOrder(devices[d], acknowledged[d], maxSequence, floor, d, workspace[d], config[d])
      /\ \A x \in Devices \ {d} : At(x, "idle")
  BY OrderFacts, ClientTypes DEF AcknowledgeSync, Acknowledge, Active, At
<1>2. PICK cursor \in Cursor : cursor = session[d].client.cursor
  BY <1>1
<1>3. Acknowledge(d, cursor) /\ acknowledged'[d] = cursor
  BY <1>1, <1>2, AcknowledgeServes DEF AcknowledgeSync
<1>4. /\ Steady /\ UNCHANGED <<devices, requests, maxSequence, manifests>>
      /\ \A x \in Devices \ {d} : acknowledged'[x] = acknowledged[x]
  BY <1>3, AcknowledgeSteady
<1>5. config[d].client.cursor = cursor /\ config[d].commits = {}
  BY <1>1, <1>2 DEF SessionInLine
<1>6. PICK w \in Document, c \in Config : w = workspace[d] /\ c = config[d]
  BY <1>1
<1>7. StoresInOrder(devices[d], cursor, maxSequence, floor, d, w, c)
  BY <1>1, <1>5, <1>6 DEF StoresInOrder
<1>8. StoresInOrder(devices'[d], acknowledged'[d], maxSequence', floor', d, w, c)
  <2>1. DeviceInLine(maxSequence', acknowledged'[d], d, config'[d], session'[d]) /\ floor' \in Cursor
    BY DEF LogOrder, ServiceInv, ServiceTypeOK
  <2>2. ConfigInLine(maxSequence, cursor, d, c)
    BY <1>3, <1>4, <1>6, <2>1 DEF DeviceInLine, AcknowledgeSync
  <2>3. floor' = floor \/ (devices'[d] = "active" => Dominates(cursor, floor'))
    BY <1>3 , <1>4 DEF Steady, Active
  <2>4. Dominates(maxSequence, maxSequence)
    BY <1>1, DominatesIsOrder
  <2>5. StoresInOrder(devices[d], cursor, maxSequence, floor', d, w, c)
    BY <1>1, <1>4, <1>7, <2>1, <2>2, <2>3, <2>4, StoresStay
  <2> QED
    BY <1>3, <1>4, <2>5
<1>9. Idle.step = "idle" /\ SessionInOrder(devices'[d], floor', Newest', d, w, c, Idle)
  BY FreshTypes, IdleInOrder
<1>10. Newest' = Newest /\ Snapshots'
  BY <1>4 DEF Newest, Latest, Snapshots, Order
<1>11. /\ workspace' = [workspace EXCEPT ![d] = w] /\ config' = [config EXCEPT ![d] = c]
       /\ session' = [session EXCEPT ![d] = Idle] /\ reverts' = reverts
  BY <1>1, <1>6 DEF AcknowledgeSync, Types
<1>12. /\ workspace[d].ops \subseteq w.ops /\ (devices[d] = "absent" => w = workspace[d])
       /\ c.linked => config[d].linked /\ Dominates(c.client.cursor, config[d].client.cursor)
       /\ Idle.step = "idle" \/ ~At(d, "idle") \/ \A x \in Devices \ {d} : At(x, "idle")
       /\ \A q \in requests' \ requests : Held(q)
       /\ \A x \in Devices \ {d} : acknowledged'[x] = acknowledged[x]
       /\ Newest' = Newest \/ \A x \in Devices \ {d} : At(x, "idle")
  BY <1>1, <1>4, <1>6, <1>10, DominatesIsOrder
<1>13. Order /\ LogOrder' /\ Steady /\ Snapshots' /\ reverts' = reverts
  BY <1>4, <1>10, <1>11
<1> QED
  BY <1>8, <1>9, <1>11, <1>12, <1>13, GoesOn, ZenonT(30)

-----------------------------------------------------------------------------
(* The invariant *)

\* At the start nobody has anything.
LEMMA InitialOrder == Init => Order
<1> SUFFICES ASSUME Init PROVE Order
  OBVIOUS
<1>1. LogOrder /\ ServiceInv
  BY InitialLog DEF LogOrder
<1>2. /\ reverts = {} /\ operations = {} /\ manifests = <<>> /\ requests = {}
      /\ \A d \in Devices : /\ workspace[d] = NewWorkspace(d) /\ config[d] = NoConfig /\ session[d] = Idle
                            /\ devices[d] = "absent" /\ acknowledged[d] = NoCursor
  BY DEF Init, ServiceInit
<1>3. IsFiniteSet(operations)
  BY <1>2, FS_EmptySet
<1>4. Snapshots /\ RequestsHeld
  BY <1>2 DEF Snapshots, RequestsHeld
<1>5. ASSUME NEW d \in Devices PROVE StoredInOrder(d) /\ RunsInOrder(d)
  <2>1. StoresInOrder(devices[d], acknowledged[d], maxSequence, floor, d, NewWorkspace(d), NoConfig)
    BY FreshTypes DEF StoresInOrder
  <2>2. SessionInOrder(devices[d], floor, Newest, d, workspace[d], config[d], Idle)
    BY FreshTypes, IdleInOrder
  <2> QED
    BY <1>2, <2>1, <2>2 DEF StoredInOrder, RunsInOrder
<1>6. Joined
  BY <1>2, HostAssumption, FreshTypes DEF Joined, At
<1> QED
  BY <1>1, <1>2, <1>3, <1>4, <1>5, <1>6 DEF Order

\* Every step of a synchronization.
LEMMA ProgressInOrder ==
    ASSUME Served, Orderly, Order, LogOrder', NEW d \in Devices, Progress(d)
    PROVE  Order'
<1>1. CASE SendBatch(d) \/ PushSucceeds(d) \/ PushFails(d) \/ EmptyOutbox(d)
  BY <1>1, SendInOrder, PushSucceedsInOrder, PushEndsInOrder, EmptyOutboxInOrder
<1>2. CASE PullPage(d) \/ ApplyBatch(d) \/ UploadSnapshot(d)
  BY <1>2, PullInOrder, ApplyInOrder, UploadInOrder
<1>3. CASE ApplyFails(d) \/ UploadFails(d) \/ Unauthorized(d) \/ AcknowledgeRefused(d)
  BY <1>3, FailuresInOrder, EndsInOrder
<1>4. CASE JournalCommit(d) \/ CommitWorkspace(d) \/ FinishCommit(d) \/ SaveWorkspaceAndConfig(d) \/ AcknowledgeSync(d)
  BY <1>4, JournalsInOrder, CommitInOrder, FinishInOrder, SaveInOrder, AcknowledgeInOrder
<1> QED
  BY <1>1, <1>2, <1>3, <1>4, Zenon DEF Progress

\* Every start of one.
LEMMA StartInOrder ==
    ASSUME Orderly, Order, LogOrder', NEW d \in Devices, Start(d)
    PROVE  Order'
  BY CreateInOrder, RecoverInOrder, CaptureInOrder, ResumeInOrder DEF Start

\* No upload breaks off without its answer.
LEMMA UploadsAnswered ==
    ASSUME Orderly, NEW d \in Devices
    PROVE  ~UploadInterrupted(d)
  BY DEF Orderly, UploadInterrupted, Fault

\* No save of a mobile fails.
LEMMA SavesSucceed ==
    ASSUME Orderly, NEW d \in Devices
    PROVE  ~SaveFails(d)
  BY DEF Orderly, SaveFails, Fault

\* Every disturbance.
LEMMA DisturbanceInOrder ==
    ASSUME Orderly, Order, LogOrder', NEW d \in Devices, Disturbance(d)
    PROVE  Order'
<1>1. CASE PushInterrupted(d) \/ StepFails(d) \/ AcknowledgeInterrupted(d) \/ Crash(d) \/ Disconnect(d)
  BY <1>1, PushEndsInOrder, FailuresInOrder, EndsInOrder, DisconnectInOrder
<1>2. CASE \E x \in Devices : Revoke(d, x)
  BY <1>2, RevokeInOrder
<1> QED
  BY <1>1, <1>2, UploadsAnswered, SavesSucceed DEF Disturbance

\* Whatever happens, documents, snapshots and acknowledgements stay right.
LEMMA EveryStepInOrder ==
    ASSUME Served, Orderly, Order, [Next]_vars
    PROVE  Order'
<1>1. LogOrder'
  BY EveryStep DEF Order
<1>2. CASE \E d \in Devices : Edit(d)
  BY <1>1, <1>2, EditInOrder
<1>3. CASE \E d \in Devices : Start(d)
  BY <1>1, <1>3, StartInOrder
<1>4. CASE \E d \in Devices : Progress(d)
  BY <1>1, <1>4, ProgressInOrder
<1>5. CASE \E d \in Devices : Disturbance(d)
  BY <1>1, <1>5, DisturbanceInOrder
<1>6. CASE LatePush \/ ServiceStops
  BY <1>1, <1>6, LatePushInOrder, ServiceStopsInOrder
<1>7. CASE UNCHANGED vars
  <2>1. UNCHANGED clientVars /\ UNCHANGED serviceVars
    BY <1>7 DEF vars
  <2>2. Steady /\ requests' = requests /\ acknowledged' = acknowledged /\ manifests' = manifests
    BY <2>1, SteadyAlone, SameService
  <2> QED
    BY <1>1, <2>1, <2>2, ServiceGoesOn
<1> QED
  BY <1>2, <1>3, <1>4, <1>5, <1>6, <1>7 DEF Next

\* Documents, snapshots and acknowledgements stay right about each other, however
\* edits, synchronizations, crashes, lost answers and revocations alternate.
THEOREM ReplicasAreOrdered ==
    ASSUME Served, Orderly
    PROVE  Spec => []Order
<1>1. Init => Order
  BY InitialOrder
<1>2. Order /\ [Next]_vars => Order'
  BY EveryStepInOrder
<1> QED
  BY <1>1, <1>2, PTL DEF Spec

\* Between synchronizations the baseline a device stored is its document, although
\* the two are written at different times (StoresAgree), as long as no save of a
\* mobile fails: its catch block stores the new baseline over the old document
\* (SaveFails).
THEOREM BaselinesAreDocuments ==
    ASSUME Served, Orderly
    PROVE  Spec => []StoresAgree
<1>1. Order => StoresAgree
  <2> SUFFICES ASSUME Order PROVE StoresAgree
    OBVIOUS
  <2>1. Types
    BY DEF Order, LogOrder
  <2>2. \A d \in Devices :
          /\ config[d].baseline \subseteq Ops /\ config[d].client \in Client /\ config[d].commits \subseteq Commit
          /\ session[d].client \in Client /\ session[d].working \cup session[d].pending \subseteq Ops
          /\ session[d].reached \in Cursor
    BY <2>1, DeviceTypes
  <2>3. TypeOK
    BY <2>1, <2>2 DEF TypeOK, Types, Document, Ops, Client, Commit
  <2>4. ASSUME NEW d \in Devices, config[d].linked, config[d].commits = {}
        PROVE  config[d].baseline = workspace[d].ops
    BY <2>4, OrderFacts DEF StoresInOrder
  <2> QED
    BY <2>3, <2>4 DEF StoresAgree, BaselineIsWorkspace
<1> QED
  BY <1>1, ReplicasAreOrdered, PTL

\* What a device has acknowledged is in the document it stored.
THEOREM AcknowledgedIsStored ==
    ASSUME Served, Orderly
    PROVE  Spec => []AckedImpliesApplied
<1>1. Order => AckedImpliesApplied
  BY OrderFacts DEF StoresInOrder, AckedImpliesApplied
<1> QED
  BY <1>1, ReplicasAreOrdered, PTL

\* A snapshot the service hands out is the document its cursor says.
THEOREM SnapshotsAreExact ==
    ASSUME Served, Orderly
    PROVE  Spec => []SnapshotIsExact
<1>1. Order => SnapshotIsExact
  BY DEF Order, Snapshots, SnapshotIsExact
<1> QED
  BY <1>1, ReplicasAreOrdered, PTL

\* No capture finds an operation of its baseline missing, as long as no save of a
\* mobile fails (SaveFails).
THEOREM NothingIsReverted ==
    ASSUME Served, Orderly
    PROVE  Spec => []NoPhantomRevert
<1>1. Order => NoPhantomRevert
  BY DEF Order, NoPhantomRevert
<1> QED
  BY <1>1, ReplicasAreOrdered, PTL

-----------------------------------------------------------------------------
(* The devices implement a replicated set of operations. *)

\* A step that leaves documents, watermarks and acknowledgements alone is not
\* seen.
Unseen ==
    /\ \A x \in Devices : workspace'[x].ops = workspace[x].ops
    /\ maxSequence' = maxSequence /\ acknowledged' = acknowledged

\* The abstract state after a step.
LEMMA StutterIs == Unseen => UNCHANGED Replicated!abstractVars
<1> SUFFICES ASSUME Unseen PROVE UNCHANGED Replicated!abstractVars
  OBVIOUS
<1>1. [x \in Devices |-> workspace'[x].ops] = [x \in Devices |-> workspace[x].ops]
  BY DEF Unseen
<1>2. [x \in Devices |-> Covered(acknowledged[x])]' = [x \in Devices |-> Covered(acknowledged[x])]
  BY DEF Unseen, Covered
<1>3. Covered(maxSequence)' = Covered(maxSequence)
  BY DEF Unseen, Covered
<1> QED
  BY <1>1, <1>2, <1>3 DEF Replicated!abstractVars

\* New operations in the document of a device are authored.
LEMMA AuthorIs ==
    ASSUME NEW d \in Devices, NEW new \in SUBSET Ops, new \cap Covered(maxSequence) = {},
           \A x \in Devices : new \cap workspace[x].ops = {},
           workspace'[d].ops = workspace[d].ops \cup new,
           \A x \in Devices \ {d} : workspace'[x].ops = workspace[x].ops,
           maxSequence' = maxSequence, acknowledged' = acknowledged
    PROVE  Replicated!AbstractNext
<1>1. PICK content : content = [x \in Devices |-> workspace[x].ops]
  OBVIOUS
<1>2. \A x \in Devices : content[x] = workspace[x].ops
  BY <1>1
<1>3. new \in SUBSET (Ops \ (Covered(maxSequence) \cup UNION {content[x] : x \in Devices}))
  BY <1>2
<1>4. [x \in Devices |-> workspace'[x].ops] = [content EXCEPT ![d] = @ \cup new]
  BY <1>1
<1>5. [x \in Devices |-> Covered(acknowledged[x])]' = [x \in Devices |-> Covered(acknowledged[x])]
  BY DEF Covered
<1>6. Covered(maxSequence)' = Covered(maxSequence)
  BY DEF Covered
<1>7. new \in SUBSET ((Devices \X (1 .. MaxSequence)) \
          (Covered(maxSequence) \cup UNION {[y \in Devices |-> workspace[y].ops][x] : x \in Devices}))
  <2>1. UNION {content[x] : x \in Devices} = UNION {[y \in Devices |-> workspace[y].ops][x] : x \in Devices}
    BY <1>1, <1>2
  <2> QED
    BY <1>3, <2>1 DEF Ops
<1>8. [x \in Devices |-> workspace[x].ops]' = [[x \in Devices |-> workspace[x].ops] EXCEPT ![d] = @ \cup new]
  BY <1>1, <1>4, Zenon
<1>9. Replicated!Author(d)
  BY <1>5, <1>6, <1>7, <1>8, Zenon DEF Replicated!Author
<1> QED
  BY <1>9 DEF Replicated!AbstractNext

\* Accepted operations of a device are published.
LEMMA PublishIs ==
    ASSUME maxSequence \in Cursor, NEW d \in Devices, NEW n \in Nat,
           maxSequence' = [maxSequence EXCEPT ![d] = @ + n],
           {d} \X (maxSequence[d] + 1 .. maxSequence[d] + n) \subseteq workspace[d].ops,
           workspace' = workspace, acknowledged' = acknowledged
    PROVE  Replicated!AbstractNext
<1>1. PICK max \in Cursor, later \in Cursor :
         /\ max = maxSequence /\ later = maxSequence' /\ later = [max EXCEPT ![d] = @ + n]
         /\ \A a \in Devices : max[a] \in Nat /\ later[a] = IF a = d THEN max[a] + n ELSE max[a]
  BY DEF Cursor
<1>2. PICK some : some = {d} \X (max[d] + 1 .. max[d] + n)
  OBVIOUS
<1>3. Covered(later) = Covered(max) \cup some
  <2>1. ASSUME NEW o \in Covered(later) PROVE o \in Covered(max) \cup some
    <3>1. o[1] \in Devices /\ o = <<o[1], o[2]>> /\ o[2] \in 1 .. later[o[1]]
      BY CoveredIs
    <3>2. o[2] \in 1 .. max[o[1]] \/ (o[1] = d /\ o[2] \in max[d] + 1 .. max[d] + n)
      BY <1>1, <3>1
    <3>3. CASE o[2] \in 1 .. max[o[1]]
      BY <3>1, <3>3, CoveredIs
    <3>4. CASE o[1] = d /\ o[2] \in max[d] + 1 .. max[d] + n
      BY <1>2, <3>1, <3>4
    <3> QED
      BY <3>2, <3>3, <3>4
  <2>2. Covered(max) \subseteq Covered(later)
    <3>1. Dominates(later, max)
      BY <1>1 DEF Dominates
    <3> QED
      BY <3>1, CoveredGrows
  <2>3. ASSUME NEW k \in max[d] + 1 .. max[d] + n PROVE <<d, k>> \in Covered(later)
    <3>1. k \in 1 .. later[d]
      BY <1>1, <2>3
    <3> QED
      BY <3>1, CoveredIs
  <2>4. some \subseteq Covered(later)
    BY <1>2, <2>3
  <2> QED
    BY <2>1, <2>2, <2>4
<1>4. some \in SUBSET workspace[d].ops
  BY <1>1, <1>2
<1>5. Covered(maxSequence)' = Covered(later) /\ Covered(maxSequence) = Covered(max)
  BY <1>1 DEF Covered
<1>6. [x \in Devices |-> Covered(acknowledged[x])]' = [x \in Devices |-> Covered(acknowledged[x])]
  BY DEF Covered
<1>7. PICK content : content = [x \in Devices |-> workspace[x].ops]
  OBVIOUS
<1>8. content[d] = workspace[d].ops /\ [x \in Devices |-> workspace'[x].ops] = content
  BY <1>7
<1>9. Replicated!Publish(d)
  BY <1>3, <1>4, <1>5, <1>6, <1>7, <1>8 DEF Replicated!Publish
<1> QED
  BY <1>9 DEF Replicated!AbstractNext

\* Published operations that a document takes over are learnt.
LEMMA LearnIs ==
    ASSUME NEW d \in Devices, NEW some \in SUBSET Covered(maxSequence),
           workspace'[d].ops = workspace[d].ops \cup some,
           \A x \in Devices \ {d} : workspace'[x].ops = workspace[x].ops,
           maxSequence' = maxSequence, acknowledged' = acknowledged
    PROVE  Replicated!AbstractNext
<1>1. PICK content : content = [x \in Devices |-> workspace[x].ops]
  OBVIOUS
<1>2. [x \in Devices |-> workspace'[x].ops] = [content EXCEPT ![d] = @ \cup some]
  BY <1>1
<1>3. [x \in Devices |-> Covered(acknowledged[x])]' = [x \in Devices |-> Covered(acknowledged[x])]
  BY DEF Covered
<1>4. Covered(maxSequence)' = Covered(maxSequence)
  BY DEF Covered
<1>5. Replicated!Learn(d)
  BY <1>1, <1>2, <1>3, <1>4 DEF Replicated!Learn
<1> QED
  BY <1>5 DEF Replicated!AbstractNext

\* An acknowledgement of what is stored and published confirms it.
LEMMA ConfirmIs ==
    ASSUME acknowledged \in [Devices -> Cursor], NEW d \in Devices, NEW cursor \in Cursor,
           acknowledged' = [acknowledged EXCEPT ![d] = cursor],
           Dominates(cursor, acknowledged[d]),
           Covered(cursor) \subseteq workspace[d].ops \cap Covered(maxSequence),
           workspace' = workspace, maxSequence' = maxSequence
    PROVE  Replicated!AbstractNext
<1>1. Covered(acknowledged[d]) \subseteq Covered(cursor)
  BY CoveredGrows
<1>2. PICK confirmed : confirmed = [x \in Devices |-> Covered(acknowledged[x])]
  OBVIOUS
<1>3. \A x \in Devices : Covered(acknowledged'[x]) = IF x = d THEN Covered(cursor) ELSE Covered(acknowledged[x])
  OBVIOUS
<1>4. [x \in Devices |-> Covered(acknowledged'[x])] = [confirmed EXCEPT ![d] = @ \cup Covered(cursor)]
  BY <1>1, <1>2, <1>3
<1>5. [x \in Devices |-> Covered(acknowledged[x])]' = [confirmed EXCEPT ![d] = @ \cup Covered(cursor)]
  BY <1>4 DEF Covered
<1>6. Covered(maxSequence)' = Covered(maxSequence)
  BY DEF Covered
<1>7. PICK content : content = [x \in Devices |-> workspace[x].ops]
  OBVIOUS
<1>8. content[d] = workspace[d].ops /\ [x \in Devices |-> workspace'[x].ops] = content
  BY <1>7
<1>9. Replicated!Confirm(d)
  BY <1>2, <1>5, <1>6, <1>7, <1>8 DEF Replicated!Confirm
<1> QED
  BY <1>9 DEF Replicated!AbstractNext

\* A capture authors its operations: their numbers are beyond the watermark of the
\* device, and no other document has operations of it that are not published.
LEMMA CaptureAuthors ==
    ASSUME Orderly, Order, NEW d \in Devices, Capture(d)
    PROVE  Replicated!AbstractNext
<1>1. /\ Types /\ maxSequence \in Cursor /\ config[d].client \in Client /\ config[d].linked
      /\ ConfigInLine(maxSequence, acknowledged[d], d, config[d])
      /\ StoresInOrder(devices[d], acknowledged[d], maxSequence, floor, d, workspace[d], config[d])
      /\ workspace[d] \in Document
  BY OrderFacts DEF Capture
<1>2. PICK last \in Nat, document \in SUBSET Ops, advanced \in Client : Captures(d, last, document, advanced)
  BY CaptureIs DEF Order
<1>3. PICK first \in Nat \ {0} : first = config[d].client.next
  BY <1>1, ClientTypes
<1>4. PICK new : new = {d} \X (first .. last)
  OBVIOUS
<1>5. /\ last <= MaxSequence /\ maxSequence[d] < first /\ maxSequence[d] \in Nat /\ MaxSequence \in Nat
  BY <1>1, <1>2, <1>3, LimitAssumption DEF Captures, ConfigInLine, InLine, Cursor
<1>6. new \in SUBSET Ops
  <2>1. first .. last \subseteq 1 .. MaxSequence
    BY <1>5
  <2> QED
    BY <1>4, <2>1 DEF Ops
<1>7. new \cap Covered(maxSequence) = {}
  <2> SUFFICES ASSUME NEW o \in new, o \in Covered(maxSequence) PROVE FALSE
    OBVIOUS
  <2>1. o[1] = d /\ o[2] \in first .. last
    BY <1>4
  <2>2. o[2] \in 1 .. maxSequence[o[1]]
    BY <1>1, CoveredIs
  <2> QED
    BY <1>5, <2>1, <2>2
<1>8. ASSUME NEW x \in Devices PROVE new \cap workspace[x].ops = {}
  <2> SUFFICES ASSUME NEW o \in new, o \in workspace[x].ops PROVE FALSE
    OBVIOUS
  <2>1. o[1] = d /\ o[2] \in first .. last /\ o \notin Covered(maxSequence)
    BY <1>4, <1>7
  <2>2. CASE x = d
    <3>1. o \in Own(d, config[d].client)
      BY <1>1, <2>1, <2>2 DEF StoresInOrder
    <3>2. o[2] \in 1 .. first - 1
      BY <1>3, <3>1 DEF Own
    <3> QED
      BY <2>1, <3>2
  <2>3. CASE x # d
    <3>1. o \in Covered(maxSequence) \cup ({x} \X (1 .. MaxSequence))
      BY OrderFacts DEF StoresInOrder
    <3> QED
      BY <2>1, <2>3, <3>1
  <2> QED
    BY <2>2, <2>3
<1>9. PICK w : w = [workspace[d] EXCEPT !.ops = document, !.edits = 0, !.touched = FALSE]
  OBVIOUS
<1>10. w.ops = workspace[d].ops \cup new /\ workspace' = [workspace EXCEPT ![d] = w]
  BY <1>1, <1>2, <1>3, <1>4, <1>9 DEF Captures, Document
<1>11. /\ workspace'[d].ops = workspace[d].ops \cup new
       /\ \A x \in Devices \ {d} : workspace'[x].ops = workspace[x].ops
  BY <1>1, <1>10 DEF Types
<1>12. maxSequence' = maxSequence /\ acknowledged' = acknowledged
  BY DEF Capture, serviceVars
<1> QED
  BY <1>6, <1>7, <1>8, <1>11, <1>12, AuthorIs

\* What the service accepts, its device holds.
LEMMA PushPublishes ==
    ASSUME Order, NEW r \in requests, Push(r), workspace' = workspace
    PROVE  Replicated!AbstractNext
<1>1. ServiceInv /\ maxSequence \in Cursor
  BY ServiceTypes DEF Order, LogOrder
<1>2. r.device \in Devices /\ acknowledged' = acknowledged
  BY <1>1, PushSteady
<1>3. PICK n \in 0 .. Len(r.batch) :
         Extends(r.device, r.batch, n) /\ maxSequence' = [maxSequence EXCEPT ![r.device] = @ + n]
  BY DEF Push, Accepts
<1>4. r.batch \in Seq(Nat \ {0})
  BY <1>1, BatchAssumption DEF ServiceInv, ServiceTypeOK, Request
<1>5. n \in Nat
  BY <1>3, <1>4
<1>6. \A k \in maxSequence[r.device] + 1 .. maxSequence[r.device] + n : <<r.device, k>> \in workspace[r.device].ops
  BY <1>3 DEF Extends, Fresh, Order, RequestsHeld, Held
<1>7. {r.device} \X (maxSequence[r.device] + 1 .. maxSequence[r.device] + n) \subseteq workspace[r.device].ops
  BY <1>6
<1> QED
  BY <1>1, <1>2, <1>3, <1>5, <1>7, PublishIs

\* What a synchronization stores is published.
LEMMA StoringLearns ==
    ASSUME Orderly, Order, NEW d \in Devices, CommitWorkspace(d) \/ SaveWorkspaceAndConfig(d)
    PROVE  Unseen \/ Replicated!AbstractNext
<1>1. /\ Types /\ maxSequence \in Cursor /\ workspace[d] \in Document /\ session[d].client.cursor \in Cursor
      /\ session[d].step \in {"commit", "download"}
      /\ SessionInLine(maxSequence, acknowledged[d], d, config[d], session[d])
      /\ SessionInOrder(devices[d], floor, Newest, d, workspace[d], config[d], session[d])
  BY OrderFacts, ClientTypes DEF CommitWorkspace, SaveWorkspaceAndConfig, At
<1>2. /\ session[d].working = Covered(session[d].client.cursor) /\ workspace[d].ops \subseteq session[d].working
      /\ Dominates(maxSequence, session[d].client.cursor)
  BY <1>1 DEF SessionInOrder, AppliedInOrder, Applied, SessionInLine, InLine
<1>3. PICK some : some = session[d].working
  OBVIOUS
<1>4. some \in SUBSET Covered(maxSequence)
  BY <1>1, <1>2, <1>3, CoveredGrows
<1>5. maxSequence' = maxSequence /\ acknowledged' = acknowledged
  BY DEF CommitWorkspace, SaveWorkspaceAndConfig, serviceVars
<1>6. workspace' = workspace \/ \E w : w.ops = some /\ workspace' = [workspace EXCEPT ![d] = w]
  <2>1. CASE CommitWorkspace(d)
    <3>1. PICK w : w = [workspace[d] EXCEPT !.ops = session[d].working, !.edits = 0, !.touched = TRUE]
      OBVIOUS
    <3>2. w.ops = some
      BY <1>1, <1>3, <3>1 DEF Document
    <3>3. workspace' = workspace \/ workspace' = [workspace EXCEPT ![d] = w]
      BY <2>1, <3>1, CommittedIs, Zenon
    <3> QED
      BY <3>2, <3>3
  <2>2. CASE SaveWorkspaceAndConfig(d)
    <3>1. PICK w : w = [ops |-> session[d].working, edits |-> 0, touched |-> FALSE, account |-> TRUE]
      OBVIOUS
    <3>2. w.ops = some
      BY <1>3, <3>1
    <3>3. workspace' = [workspace EXCEPT ![d] = w]
      BY <2>2, <3>1, Zenon DEF SaveWorkspaceAndConfig
    <3> QED
      BY <3>2, <3>3
  <2> QED
    BY <2>1, <2>2
<1>7. CASE workspace' = workspace
  BY <1>5, <1>7 DEF Unseen
<1>8. ASSUME NEW w, w.ops = some, workspace' = [workspace EXCEPT ![d] = w]
      PROVE  Replicated!AbstractNext
  <2>1. /\ workspace'[d].ops = workspace[d].ops \cup some
        /\ \A x \in Devices \ {d} : workspace'[x].ops = workspace[x].ops
    BY <1>1, <1>2, <1>3, <1>8 DEF Types
  <2> QED
    BY <1>4, <1>5, <2>1, LearnIs
<1> QED
  BY <1>6, <1>7, <1>8

\* What a device acknowledges it has stored.
LEMMA AcknowledgingConfirms ==
    ASSUME Served, Order, NEW d \in Devices, AcknowledgeSync(d)
    PROVE  Replicated!AbstractNext
<1>1. /\ LogOrder /\ session[d].step = "acknowledge" /\ devices[d] = "active" /\ config[d].linked
      /\ session[d].client.cursor \in Cursor /\ maxSequence \in Cursor /\ config[d].client \in Client
      /\ SessionInLine(maxSequence, acknowledged[d], d, config[d], session[d])
      /\ StoresInOrder(devices[d], acknowledged[d], maxSequence, floor, d, workspace[d], config[d])
  BY OrderFacts, ClientTypes DEF AcknowledgeSync, Acknowledge, Active, At
<1>2. PICK cursor \in Cursor : cursor = session[d].client.cursor
  BY <1>1
<1>3. acknowledged \in [Devices -> Cursor]
  BY <1>1 DEF LogOrder, ServiceInv, ServiceTypeOK
<1>4. /\ config[d].client.cursor = cursor /\ config[d].commits = {}
      /\ Dominates(cursor, acknowledged[d]) /\ Dominates(maxSequence, cursor)
  BY <1>1, <1>2 DEF SessionInLine, InLine
<1>5. Covered(cursor) \subseteq workspace[d].ops \cap Covered(maxSequence)
  BY <1>1, <1>2, <1>4, CoveredGrows DEF StoresInOrder
<1>6. acknowledged' = [acknowledged EXCEPT ![d] = cursor] /\ maxSequence' = maxSequence /\ workspace' = workspace
  <2>1. PICK new : new = [a \in Devices |-> IF cursor[a] = 0 THEN acknowledged[d][a] ELSE cursor[a]]
    OBVIOUS
  <2>2. acknowledged' = [acknowledged EXCEPT ![d] = new] /\ maxSequence' = maxSequence /\ workspace' = workspace
    BY <1>2, <2>1 DEF AcknowledgeSync, Acknowledge
  <2>3. \A a \in Devices : cursor[a] \in Nat /\ acknowledged[d][a] \in Nat /\ cursor[a] >= acknowledged[d][a]
    BY <1>3, <1>4 DEF Cursor, Dominates
  <2>4. \A a \in Devices : new[a] = cursor[a]
    BY <2>1, <2>3
  <2>5. new = cursor
    BY <2>1, <2>4 DEF Cursor
  <2> QED
    BY <2>2, <2>5
<1> QED
  BY <1>1, <1>3, <1>4, <1>5, <1>6, ConfirmIs

\* Every other step of a synchronization, and every start but a capture, is unseen.
LEMMA UnseenSteps ==
    ASSUME Types, NEW d \in Devices,
           \/ Edit(d) \/ CreateAccount(d) \/ RecoverAccount(d) \/ ResumeCommit(d, "resume") \/ ResumeCommit(d, "startup")
           \/ SendBatch(d) \/ PushFails(d) \/ EmptyOutbox(d) \/ PullPage(d) \/ ApplyBatch(d) \/ ApplyFails(d)
           \/ UploadSnapshot(d) \/ UploadFails(d) \/ Unauthorized(d) \/ JournalCommit(d) \/ FinishCommit(d)
           \/ AcknowledgeRefused(d) \/ StepFails(d) \/ AcknowledgeInterrupted(d) \/ Crash(d) \/ Disconnect(d)
           \/ (\E x \in Devices : Revoke(d, x))
    PROVE  Unseen
<1>1. CASE Edit(d)
  <2>1. PICK w : w = [workspace[d] EXCEPT !.edits = @ + 1]
    OBVIOUS
  <2>2. w.ops = workspace[d].ops /\ workspace' = [workspace EXCEPT ![d] = w]
    BY <1>1, <2>1 DEF Edit, Types, Document
  <2> QED
    BY <1>1, <2>2 DEF Unseen, Edit, serviceVars, Types
<1>2. CASE CreateAccount(d) \/ RecoverAccount(d) \/ ResumeCommit(d, "resume") \/ ResumeCommit(d, "startup")
  BY <1>2
  DEF Unseen, CreateAccount, EnrollFirstDevice, RecoverAccount, RecoverDevice, AddDevice, ResumeCommit, serviceVars
<1>3. CASE SendBatch(d) \/ PushFails(d) \/ EmptyOutbox(d) \/ PullPage(d) \/ ApplyBatch(d) \/ ApplyFails(d)
  BY <1>3
  DEF Unseen, SendBatch, AuthorizePush, PushFails, RejectPush, Fail, EmptyOutbox, PullPage, ApplyBatch, ApplyFails,
      serviceVars
<1>4. CASE UploadSnapshot(d) \/ UploadFails(d) \/ Unauthorized(d) \/ JournalCommit(d) \/ FinishCommit(d)
  BY <1>4
  DEF Unseen, UploadSnapshot, CommitSnapshotManifest, UploadFails, Unauthorized, Fail, JournalCommit, FinishCommit,
      serviceVars
<1>5. CASE AcknowledgeRefused(d) \/ StepFails(d) \/ AcknowledgeInterrupted(d) \/ Crash(d) \/ Disconnect(d)
  BY <1>5 DEF Unseen, AcknowledgeRefused, StepFails, Fail, AcknowledgeInterrupted, Crash, Disconnect, serviceVars
<1>6. CASE \E x \in Devices : Revoke(d, x)
  BY <1>6 DEF Unseen, Revoke, RevokeDevice, clientVars
<1> QED
  BY <1>1, <1>2, <1>3, <1>4, <1>5, <1>6, Zenon

\* A push that is handled publishes, one that is not is unseen.
LEMMA HandledPublishes ==
    ASSUME Order,
           LatePush \/ ServiceStops
           \/ \E d \in Devices : PushSucceeds(d) \/ PushInterrupted(d)
    PROVE  Unseen \/ Replicated!AbstractNext
<1>1. workspace' = workspace
  BY DEF LatePush, clientVars, ServiceStops, PushSucceeds, PushInterrupted, Fail
<1>2. (\E r \in requests : Push(r)) \/ (maxSequence' = maxSequence /\ acknowledged' = acknowledged)
  BY DEF LatePush, ServiceStops, ServiceCrash, PushSucceeds, PushInterrupted, RejectPush, serviceVars
<1> QED
  BY <1>1, <1>2, PushPublishes DEF Unseen

\* Every step of the devices and the service authors, publishes, learns or
\* confirms, or changes nothing the owner sees.
LEMMA EveryStepReplicates ==
    ASSUME Served, Orderly, Order, [Next]_vars
    PROVE  [Replicated!AbstractNext]_Replicated!abstractVars
<1>1. Types
  BY DEF Order, LogOrder
<1>2. ASSUME NEW d \in Devices, Edit(d) \/ Start(d)
      PROVE  Unseen \/ Replicated!AbstractNext
  BY <1>1, <1>2, UnseenSteps, CaptureAuthors, Zenon DEF Start
<1>3. ASSUME NEW d \in Devices, Progress(d)
      PROVE  Unseen \/ Replicated!AbstractNext
  <2>1. CASE PushSucceeds(d)
    BY <2>1, HandledPublishes
  <2>2. CASE CommitWorkspace(d) \/ SaveWorkspaceAndConfig(d)
    BY <2>2, StoringLearns
  <2>3. CASE AcknowledgeSync(d)
    BY <2>3, AcknowledgingConfirms
  <2>4. CASE ~PushSucceeds(d) /\ ~CommitWorkspace(d) /\ ~SaveWorkspaceAndConfig(d) /\ ~AcknowledgeSync(d)
    BY <1>1, <1>3, <2>4, UnseenSteps, Zenon DEF Progress
  <2> QED
    BY <2>1, <2>2, <2>3, <2>4, Zenon
<1>4. ASSUME NEW d \in Devices, Disturbance(d)
      PROVE  Unseen \/ Replicated!AbstractNext
  <2>1. CASE PushInterrupted(d)
    BY <2>1, HandledPublishes
  <2>2. CASE ~PushInterrupted(d)
    BY <1>1, <1>4, <2>2, UnseenSteps, UploadsAnswered, SavesSucceed, Zenon DEF Disturbance
  <2> QED
    BY <2>1, <2>2
<1>5. CASE LatePush \/ ServiceStops
  BY <1>5, HandledPublishes, StutterIs
<1>6. CASE UNCHANGED vars
  <2>1. Unseen
    BY <1>6 DEF vars, clientVars, serviceVars, Unseen
  <2> QED
    BY <2>1, StutterIs
<1>7. CASE \E d \in Devices : Edit(d) \/ Start(d) \/ Progress(d) \/ Disturbance(d)
  <2>1. Unseen \/ Replicated!AbstractNext
    BY <1>2, <1>3, <1>4, <1>7, Zenon
  <2> QED
    BY <2>1, StutterIs
<1> QED
  BY <1>5, <1>6, <1>7 DEF Next

\* The devices implement ReplicatedWorkspace: an operation is authored once, learnt
\* only when it is published, confirmed only where it is stored, and never lost,
\* under the conditions of Orderly, no failing save of a mobile among them.
THEOREM DevicesReplicate ==
    ASSUME Served, Orderly
    PROVE  Spec => ImplementsReplication
<1>1. ASSUME Init PROVE Replicated!AbstractInit
  <2>1. /\ \A d \in Devices : workspace[d].ops = {} /\ acknowledged[d] = NoCursor
        /\ maxSequence = NoCursor
    BY <1>1, FreshTypes DEF Init, ServiceInit
  <2>2. [d \in Devices |-> workspace[d].ops] = [d \in Devices |-> {}]
    BY <2>1
  <2>3. [d \in Devices |-> Covered(acknowledged[d])] = [d \in Devices |-> {}]
    BY <2>1, CoveredNothing
  <2>4. Covered(maxSequence) = {}
    BY <2>1, CoveredNothing
  <2> QED
    BY <2>2, <2>3, <2>4 DEF Replicated!AbstractInit
<1>2. Order /\ [Next]_vars => [Replicated!AbstractNext]_Replicated!abstractVars
  BY EveryStepReplicates
<1> QED
  BY <1>1, <1>2, ReplicasAreOrdered, PTL DEF Spec, ImplementsReplication, Replicated!AbstractSpec
=============================================================================
