------------------------ MODULE ReplicaLedgerProofs ------------------------
(***************************************************************************)
(* Proofs about ReplicaLedger: what a ledger holds is the latest of what   *)
(* contends for each field and each tag, so it depends on the document it  *)
(* was made from and on the set of operations it has applied, not on their *)
(* order (LedgerInv); a captured edit stands in the replica of a device    *)
(* whose clock is not behind (CaptureKeepsEdits); and a synchronization    *)
(* does not ask about a conflict it brings the resolution of               *)
(* (ResolvedIsSettled).                                                    *)
(*                                                                         *)
(* First timestamps, then what one operation and a batch do to a ledger    *)
(* (an induction over the batch), then the inductive invariant, one lemma  *)
(* per action, and the theorems.                                           *)
(***************************************************************************)
EXTENDS ReplicaLedger, FiniteSetTheorems, SequenceTheorems, WellFoundedInduction, TLAPS

-----------------------------------------------------------------------------
(* Induction as a fact about sets, which first-order provers can use: the  *)
(* theorems of NaturalsInduction quantify over predicates, those of        *)
(* WellFoundedInduction about relations do not.                            *)

Less == {p \in Nat \X Nat : p[1] < p[2]}

\* Every set of naturals has a least element.
LEMMA LeastNatural ==
    ASSUME NEW T, T \subseteq Nat, T # {}
    PROVE  \E m \in T : \A n \in T : m <= n
<1>1. IsWellFoundedOn(Less, Nat)
  BY NatLessThanWellFounded DEF OpToRel, Less
<1>2. PICK m \in T : \A n \in T : <<n, m>> \notin Less
  BY <1>1, WFMin
<1>3. ASSUME NEW n \in T PROVE m <= n
  <2>1. m \in Nat /\ n \in Nat
    OBVIOUS
  <2>2. ~(n < m)
    BY <1>2, <2>1 DEF Less
  <2> QED
    BY <2>1, <2>2
<1> QED
  BY <1>3

\* Induction: a set with 0 that is closed under successors up to a bound holds
\* everything up to the bound.
LEMMA BoundedInduction ==
    ASSUME NEW T, NEW bound \in Nat, 0 \in T,
           \A n \in 0 .. bound : n < bound /\ n \in T => n + 1 \in T
    PROVE  0 .. bound \subseteq T
<1> SUFFICES ASSUME (0 .. bound) \ T # {} PROVE FALSE
  OBVIOUS
<1>1. PICK m \in (0 .. bound) \ T : \A n \in (0 .. bound) \ T : m <= n
  <2>1. (0 .. bound) \ T \subseteq Nat
    OBVIOUS
  <2> QED
    BY <2>1, LeastNatural
<1>2. m # 0 /\ m - 1 \in 0 .. bound /\ m - 1 < bound
  OBVIOUS
<1>3. m - 1 \in T
  BY <1>1, <1>2
<1>4. (m - 1) + 1 \in T
  BY <1>2, <1>3
<1> QED
  BY <1>4

-----------------------------------------------------------------------------
(* What holds of the data *)

Stamps == Int \X Int \X Int

\* An entity that exists has an id and the time of its last change.
Entities ==
    {NoEntity} \cup
    {e \in [exists : {TRUE}, fields : [Names -> FieldValues], tags : SUBSET Tags] :
        e.fields["id"] = 0 /\ e.fields["updatedAt"] \in Nat}

ConflictIds == [field : Fields, base : FieldValues, alternatives : SUBSET FieldValues]

Conflicts ==
    {c \in [id : ConflictIds, existing : FieldValues, incoming : FieldValues] :
        c.existing # c.incoming}

Partial == UNION {[X -> FieldValues] : X \in SUBSET Names}

\* Operations are stamped by their actor and carry an id only with a time.
Operations ==
    {op \in [action : {"upsert", "delete"}, actor : Devices, sequence : Nat, stamp : Stamps,
             changes : Partial, bases : Partial, added : SUBSET Tags, removed : SUBSET Tags,
             resolves : SUBSET ConflictIds] :
        /\ op.stamp[1] \in Nat /\ op.stamp[2] = 0 /\ op.stamp[3] = op.actor
        /\ DOMAIN op.bases = DOMAIN op.changes
        /\ "id" \in DOMAIN op.changes => op.changes["id"] = 0 /\ "updatedAt" \in DOMAIN op.changes
        /\ "updatedAt" \in DOMAIN op.changes => op.changes["updatedAt"] \in Nat
        /\ op.added \cap op.removed = {}
        /\ op.action = "delete" => DOMAIN op.changes = {} /\ op.resolves = {}}

Records ==
    [known : BOOLEAN, fields : [Names -> FieldValues], stamps : [Names -> Stamps],
     tags : SUBSET Tags, tagStamps : [Tags -> Stamps], tombstone : Stamps,
     applied : SUBSET (Devices \X Nat), conflicts : SUBSET Conflicts,
     resolved : SUBSET ConflictIds]

\* A ledger that has an id has the time of a change.
Ledgers ==
    {l \in Records :
        /\ l.fields["id"] # NoValue => l.stamps["id"] # Never
        /\ l.stamps["id"] # Never => l.fields["id"] = 0 /\ l.stamps["updatedAt"] # Never
        /\ l.stamps["updatedAt"] # Never => l.fields["updatedAt"] \in Nat}

Sessions == [step : {"idle", "push", "pull", "commit"}, seed : Entities, ledger : Ledgers]

\* The operations there are.
Known ==
    {log[i] : i \in DOMAIN log} \cup
    UNION {{outbox[d][k] : k \in DOMAIN outbox[d]} : d \in Devices}

Identity(op) == <<op.actor, op.sequence>>

\* Identities and timestamps tell operations apart.
Distinct(K) ==
    \A o, p \in K : (Identity(o) = Identity(p) \/ o.stamp = p.stamp) => o = p

-----------------------------------------------------------------------------
(* What a ledger stands for *)

\* Of the pairs of a timestamp and a value in C, c is the latest.
Latest(c, C) == c \in C /\ \A x \in C : ~Newer(x[1], c[1])

FieldContenders(seed, S, n) ==
    {<<Seed(seed).stamps[n], Seed(seed).fields[n]>>} \cup
    {<<o.stamp, o.changes[n]>> : o \in {p \in S : n \in DOMAIN p.changes}}

Mark(t, tags) == IF t \in tags THEN 1 ELSE 0

TagContenders(seed, S, t) ==
    {<<Seed(seed).tagStamps[t], Mark(t, Seed(seed).tags)>>} \cup
    {<<o.stamp, Mark(t, o.added)>> : o \in {p \in S : t \in p.added \cup p.removed}}

\* The ledger was made from seed and has applied the operations S.
Stands(l, seed, S) ==
    /\ l.applied = {Identity(o) : o \in S}
    /\ l.tombstone # Never <=> \E o \in S : o.action = "delete"
    /\ \A c \in l.conflicts : c.id \notin l.resolved
    /\ l.tombstone = Never =>
          /\ l.known <=> (seed.exists \/ S # {})
          /\ \A o \in S : o.resolves \subseteq l.resolved
          /\ \A n \in Names : Latest(<<l.stamps[n], l.fields[n]>>, FieldContenders(seed, S, n))
          /\ \A t \in Tags : Latest(<<l.tagStamps[t], Mark(t, l.tags)>>, TagContenders(seed, S, t))

-----------------------------------------------------------------------------
(* The inductive invariant *)

TypeInv ==
    /\ now \in 0 .. MaxEdits
    /\ workspace \in [Devices -> Entities]
    /\ baseline \in [Devices -> Entities]
    /\ outbox \in [Devices -> Seq(Operations)]
    /\ log \in Seq(Operations)
    /\ cursor \in [Devices -> [Devices -> 0 .. Len(log)]]
    /\ conflicts \in [Devices -> SUBSET Conflicts]
    /\ session \in [Devices -> Sessions]

\* Sequences and timestamps of a device grow; an edit that is not captured is
\* later than what its device has captured.
OperationInv ==
    /\ Distinct(Known)
    /\ \A d \in Devices : \A k \in DOMAIN outbox[d] : outbox[d][k].actor = d
    /\ \A o \in Known :
          /\ o.sequence < NextSequence(o.actor)
          /\ o.stamp[1] <= Clock(o.actor)
          /\ workspace[o.actor] # baseline[o.actor] => o.stamp[1] < Clock(o.actor)

\* The ledger of a client stands for operations there are.
SessionInv ==
    \A d \in Devices :
        ~At(d, "idle") =>
            /\ \E S \in SUBSET Known : Stands(session[d].ledger, session[d].seed, S)
            /\ At(d, "commit") => Document(session[d].ledger) \in Entities

ReplicaInv == TypeInv /\ OperationInv /\ SessionInv

\* No entity is newer than the clock of the device, and a change it has not
\* captured is newer than its baseline.
CurrentInv(d) ==
    /\ \A e \in Devices :
          /\ workspace[e].exists => workspace[e].fields["updatedAt"] <= Clock(d)
          /\ baseline[e].exists => baseline[e].fields["updatedAt"] <= Clock(d)
          /\ session[e].seed.exists => session[e].seed.fields["updatedAt"] <= Clock(d)
    /\ \A o \in Known : "updatedAt" \in DOMAIN o.changes => o.changes["updatedAt"] <= Clock(d)
    /\ workspace[d] # baseline[d] /\ baseline[d].exists => baseline[d].fields["updatedAt"] < Clock(d)
    /\ At(d, "push") => Document(session[d].ledger) = workspace[d]


-----------------------------------------------------------------------------
(* Timestamps *)

\* Newer is a strict order in which any two timestamps are related.
LEMMA NewerIsTotal ==
    ASSUME NEW s \in Stamps, NEW t \in Stamps
    PROVE  /\ ~Newer(s, s)
           /\ Newer(s, t) => ~Newer(t, s)
           /\ Newer(s, t) \/ Newer(t, s) \/ s = t
  BY DEF Newer, Stamps

\* Newer is transitive.
LEMMA NewerIsTransitive ==
    ASSUME NEW r \in Stamps, NEW s \in Stamps, NEW t \in Stamps, Newer(r, s), ~Newer(t, s)
    PROVE  ~Newer(t, r)
  BY DEF Newer, Stamps

\* Every operation is newer than no timestamp at all.
LEMMA OperationsAreNewer ==
    ASSUME NEW op \in Operations
    PROVE  /\ Never \in Stamps /\ op.stamp \in Stamps
           /\ op.stamp # Never /\ Newer(op.stamp, Never) /\ ~Newer(Never, op.stamp)
<1>1. op.stamp \in Stamps /\ op.stamp[1] \in Nat
  BY DEF Operations
<1>2. Never \in Stamps /\ Never[1] = -1
  BY DEF Never, Stamps
<1>3. op.stamp[1] > Never[1]
  BY <1>1, <1>2
<1> QED
  BY <1>1, <1>2, <1>3 DEF Newer

\* There is at most one latest pair where timestamps tell pairs apart.
LEMMA LatestIsUnique ==
    ASSUME NEW C, \A x \in C : x[1] \in Stamps, \A x, y \in C : x[1] = y[1] => x = y,
           NEW b, NEW c, Latest(b, C), Latest(c, C)
    PROVE  b = c
<1>1. b \in C /\ c \in C /\ b[1] \in Stamps /\ c[1] \in Stamps
  BY DEF Latest
<1>2. ~Newer(b[1], c[1]) /\ ~Newer(c[1], b[1])
  BY <1>1 DEF Latest
<1>3. b[1] = c[1]
  BY <1>1, <1>2, NewerIsTotal
<1> QED
  BY <1>1, <1>3

\* A newer pair takes over, an older one changes nothing.
LEMMA LatestOfOneMore ==
    ASSUME NEW C, \A y \in C : y[1] \in Stamps, NEW c, Latest(c, C), NEW x, x[1] \in Stamps
    PROVE  Latest(IF Newer(x[1], c[1]) THEN x ELSE c, C \cup {x})
<1>1. c \in C /\ c[1] \in Stamps /\ \A y \in C : ~Newer(y[1], c[1])
  BY DEF Latest
<1>2. CASE Newer(x[1], c[1])
  <2>1. \A y \in C : ~Newer(y[1], x[1])
    BY <1>1, <1>2, NewerIsTransitive
  <2>2. ~Newer(x[1], x[1])
    BY NewerIsTotal
  <2> QED
    BY <1>2, <2>1, <2>2 DEF Latest
<1>3. CASE ~Newer(x[1], c[1])
  BY <1>1, <1>3 DEF Latest
<1> QED
  BY <1>2, <1>3

-----------------------------------------------------------------------------
(* Entities and the ledgers seeded with them *)

\* The three names of fields are not confused.
LEMMA NamesAreDistinct ==
    /\ "id" \in Names /\ "updatedAt" \in Names /\ Fields \subseteq Names
    /\ \A f \in Fields : f # "id" /\ f # "updatedAt"
    /\ NoValue \in FieldValues /\ 0 \in FieldValues /\ NoValue \notin Nat
  BY FieldAssumption, ValueAssumption DEF Names, FieldValues

\* No entity is an entity.
LEMMA NoEntityIsEntity ==
    NoEntity \in Entities /\ NoEntity.exists = FALSE /\ NoEntity.tags = {}
    /\ \A n \in Names : NoEntity.fields[n] = NoValue
  BY DEF NoEntity, Entities

\* What an entity is.
LEMMA EntityShape ==
    ASSUME NEW e \in Entities
    PROVE  /\ e.exists \in BOOLEAN /\ e.fields \in [Names -> FieldValues] /\ e.tags \subseteq Tags
           /\ ~e.exists => e = NoEntity
           /\ e.exists => /\ e.fields["id"] = 0 /\ e.fields["updatedAt"] \in Nat
                          /\ e = [exists |-> TRUE, fields |-> e.fields, tags |-> e.tags]
<1>1. CASE e = NoEntity
  BY <1>1, NamesAreDistinct DEF NoEntity
<1>2. CASE e # NoEntity
  <2>1. /\ e \in [exists : {TRUE}, fields : [Names -> FieldValues], tags : SUBSET Tags]
        /\ e.fields["id"] = 0 /\ e.fields["updatedAt"] \in Nat
    BY <1>2 DEF Entities
  <2> QED
    BY <2>1
<1> QED
  BY <1>1, <1>2

\* How entities that exist are made.
LEMMA EntityMade ==
    ASSUME NEW fields \in [Names -> FieldValues], NEW tags \in SUBSET Tags,
           fields["id"] = 0, fields["updatedAt"] \in Nat
    PROVE  [exists |-> TRUE, fields |-> fields, tags |-> tags] \in Entities
  BY DEF Entities

\* The empty ledger is a ledger.
LEMMA EmptyLedgerIsLedger ==
    /\ EmptyLedger \in Ledgers
    /\ EmptyLedger.known = FALSE /\ EmptyLedger.tombstone = Never /\ EmptyLedger.tags = {}
    /\ EmptyLedger.applied = {} /\ EmptyLedger.conflicts = {} /\ EmptyLedger.resolved = {}
    /\ \A n \in Names : EmptyLedger.stamps[n] = Never /\ EmptyLedger.fields[n] = NoValue
    /\ \A t \in Tags : EmptyLedger.tagStamps[t] = Never
<1>1. Never \in Stamps
  BY DEF Never, Stamps
<1> QED
  BY <1>1, NamesAreDistinct DEF EmptyLedger, Ledgers, Records

\* What the ledger seeded with an entity that exists holds.
LEMMA SeedShape ==
    ASSUME NEW e \in Entities, e.exists
    PROVE  /\ Seed(e) \in Ledgers
           /\ Seed(e).known = TRUE /\ Seed(e).tombstone = Never
           /\ Seed(e).fields = e.fields /\ Seed(e).tags = e.tags
           /\ Seed(e).applied = {} /\ Seed(e).conflicts = {} /\ Seed(e).resolved = {}
           /\ \A n \in Names : Seed(e).stamps[n] =
                  IF e.fields[n] = NoValue THEN Never ELSE <<e.fields["updatedAt"], 1, 0>>
           /\ \A t \in Tags : Seed(e).tagStamps[t] =
                  IF t \in e.tags THEN <<e.fields["updatedAt"], 1, 0>> ELSE Never
<1> DEFINE stamp == <<e.fields["updatedAt"], 1, 0>>
           stamps == [n \in Names |-> IF e.fields[n] = NoValue THEN Never ELSE stamp]
           tagStamps == [t \in Tags |-> IF t \in e.tags THEN stamp ELSE Never]
<1>1. /\ e.fields \in [Names -> FieldValues] /\ e.tags \subseteq Tags
      /\ e.fields["id"] = 0 /\ e.fields["updatedAt"] \in Nat
  BY EntityShape
<1>2. stamp \in Stamps /\ Never \in Stamps /\ stamp # Never
  BY <1>1 DEF Never, Stamps
<1>3. stamps \in [Names -> Stamps] /\ tagStamps \in [Tags -> Stamps]
  BY <1>2
<1>4. Seed(e) = [known |-> TRUE, fields |-> e.fields, stamps |-> stamps, tags |-> e.tags,
                 tagStamps |-> tagStamps, tombstone |-> Never, applied |-> {},
                 conflicts |-> {}, resolved |-> {}]
  BY DEF Seed, EmptyLedger
<1>5. stamps["id"] = stamp /\ stamps["updatedAt"] = stamp
  BY <1>1, NamesAreDistinct
<1> HIDE DEF stamp, stamps, tagStamps
<1>6. Seed(e) \in Ledgers
  BY <1>1, <1>2, <1>3, <1>4, <1>5 DEF Ledgers, Records
<1> QED
  BY <1>4, <1>6 DEF stamp, stamps, tagStamps

\* Every seeded ledger is a ledger, with timestamps no operation has.
LEMMA SeedIsLedger ==
    ASSUME NEW e \in Entities
    PROVE  /\ Seed(e) \in Ledgers
           /\ Seed(e).known = e.exists /\ Seed(e).tombstone = Never
           /\ Seed(e).fields = e.fields /\ Seed(e).tags = e.tags
           /\ Seed(e).applied = {} /\ Seed(e).conflicts = {} /\ Seed(e).resolved = {}
           /\ \A n \in Names : Seed(e).stamps[n] = Never \/ Seed(e).stamps[n][2] = 1
           /\ \A t \in Tags : Seed(e).tagStamps[t] = Never \/ Seed(e).tagStamps[t][2] = 1
<1>1. CASE e.exists
  <2>1. \A n \in Names : Seed(e).stamps[n] = Never \/ Seed(e).stamps[n] = <<e.fields["updatedAt"], 1, 0>>
    BY <1>1, SeedShape
  <2>2. \A t \in Tags : Seed(e).tagStamps[t] = Never \/ Seed(e).tagStamps[t] = <<e.fields["updatedAt"], 1, 0>>
    BY <1>1, SeedShape
  <2>3. <<e.fields["updatedAt"], 1, 0>>[2] = 1
    OBVIOUS
  <2> QED
    BY <1>1, <2>1, <2>2, <2>3, SeedShape
<1>2. CASE ~e.exists
  <2>1. Seed(e) = EmptyLedger /\ e = NoEntity
    BY <1>2, EntityShape DEF Seed
  <2>2. EmptyLedger.fields = NoEntity.fields
    BY DEF EmptyLedger, NoEntity
  <2> QED
    BY <1>2, <2>1, <2>2, EmptyLedgerIsLedger, NoEntityIsEntity
<1>3. e.exists \in BOOLEAN
  BY EntityShape
<1> QED
  BY <1>1, <1>2, <1>3


-----------------------------------------------------------------------------
(* Contenders *)

\* Contenders have timestamps, and where these tell operations apart they tell the
\* contenders for a field apart.
LEMMA FieldContendersAreStamped ==
    ASSUME NEW seed \in Entities, NEW S \in SUBSET Operations, Distinct(S), NEW n \in Names
    PROVE  /\ \A x \in FieldContenders(seed, S, n) : x[1] \in Stamps
           /\ \A x, y \in FieldContenders(seed, S, n) : x[1] = y[1] => x = y
<1> DEFINE first == <<Seed(seed).stamps[n], Seed(seed).fields[n]>>
<1>1. first[1] \in Stamps /\ (first[1] = Never \/ first[1][2] = 1)
  <2>1. Seed(seed).stamps \in [Names -> Stamps]
    BY SeedIsLedger DEF Ledgers, Records
  <2> QED
    BY <2>1, SeedIsLedger
<1>2. ASSUME NEW x \in FieldContenders(seed, S, n)
      PROVE  x = first \/ \E o \in S : n \in DOMAIN o.changes /\ x = <<o.stamp, o.changes[n]>>
  BY <1>2 DEF FieldContenders
<1> HIDE DEF first
<1>3. ASSUME NEW o \in S PROVE o.stamp \in Stamps /\ o.stamp # first[1]
  <2>1. o.stamp \in Stamps /\ o.stamp[2] = 0 /\ o.stamp # Never
    BY OperationsAreNewer DEF Operations
  <2> QED
    BY <2>1, <1>1
<1>4. ASSUME NEW x \in FieldContenders(seed, S, n) PROVE x[1] \in Stamps
  BY <1>1, <1>2, <1>3
<1>5. ASSUME NEW x \in FieldContenders(seed, S, n), NEW y \in FieldContenders(seed, S, n), x[1] = y[1]
      PROVE  x = y
  <2>1. CASE x = first
    BY <1>2, <1>3, <1>5, <2>1
  <2>2. CASE y = first
    BY <1>2, <1>3, <1>5, <2>2
  <2>3. CASE x # first /\ y # first
    <3>1. PICK o \in S : x = <<o.stamp, o.changes[n]>>
      BY <1>2, <2>3
    <3>2. PICK p \in S : y = <<p.stamp, p.changes[n]>>
      BY <1>2, <2>3
    <3>3. o.stamp = p.stamp
      BY <1>5, <3>1, <3>2
    <3>4. o = p
      BY <3>3 DEF Distinct
    <3> QED
      BY <3>1, <3>2, <3>4
  <2> QED
    BY <2>1, <2>2, <2>3
<1> QED
  BY <1>4, <1>5

\* The same for tags.
LEMMA TagContendersAreStamped ==
    ASSUME NEW seed \in Entities, NEW S \in SUBSET Operations, Distinct(S), NEW t \in Tags
    PROVE  /\ \A x \in TagContenders(seed, S, t) : x[1] \in Stamps
           /\ \A x, y \in TagContenders(seed, S, t) : x[1] = y[1] => x = y
<1> DEFINE first == <<Seed(seed).tagStamps[t], Mark(t, Seed(seed).tags)>>
<1>1. first[1] \in Stamps /\ (first[1] = Never \/ first[1][2] = 1)
  <2>1. Seed(seed).tagStamps \in [Tags -> Stamps]
    BY SeedIsLedger DEF Ledgers, Records
  <2> QED
    BY <2>1, SeedIsLedger
<1>2. ASSUME NEW x \in TagContenders(seed, S, t)
      PROVE  x = first \/ \E o \in S : x = <<o.stamp, Mark(t, o.added)>>
  BY <1>2 DEF TagContenders
<1> HIDE DEF first
<1>3. ASSUME NEW o \in S PROVE o.stamp \in Stamps /\ o.stamp # first[1]
  <2>1. o.stamp \in Stamps /\ o.stamp[2] = 0 /\ o.stamp # Never
    BY OperationsAreNewer DEF Operations
  <2> QED
    BY <2>1, <1>1
<1>4. ASSUME NEW x \in TagContenders(seed, S, t) PROVE x[1] \in Stamps
  BY <1>1, <1>2, <1>3
<1>5. ASSUME NEW x \in TagContenders(seed, S, t), NEW y \in TagContenders(seed, S, t), x[1] = y[1]
      PROVE  x = y
  <2>1. CASE x = first
    BY <1>2, <1>3, <1>5, <2>1
  <2>2. CASE y = first
    BY <1>2, <1>3, <1>5, <2>2
  <2>3. CASE x # first /\ y # first
    <3>1. PICK o \in S : x = <<o.stamp, Mark(t, o.added)>>
      BY <1>2, <2>3
    <3>2. PICK p \in S : y = <<p.stamp, Mark(t, p.added)>>
      BY <1>2, <2>3
    <3>3. o.stamp = p.stamp
      BY <1>5, <3>1, <3>2
    <3>4. o = p
      BY <3>3 DEF Distinct
    <3> QED
      BY <3>1, <3>2, <3>4
  <2> QED
    BY <2>1, <2>2, <2>3
<1> QED
  BY <1>4, <1>5

\* An operation contends for the tags it adds and removes.
LEMMA TagContendersOfOneMore ==
    ASSUME NEW seed, NEW S, NEW op, NEW t
    PROVE  /\ t \in op.added \cup op.removed =>
                  TagContenders(seed, S \cup {op}, t) =
                      TagContenders(seed, S, t) \cup {<<op.stamp, Mark(t, op.added)>>}
           /\ t \notin op.added \cup op.removed =>
                  TagContenders(seed, S \cup {op}, t) = TagContenders(seed, S, t)
  BY DEF TagContenders

-----------------------------------------------------------------------------
(* One operation *)

\* What the fields of an operation are.
LEMMA OperationShape ==
    ASSUME NEW op \in Operations
    PROVE  /\ op.action \in {"upsert", "delete"} /\ op.actor \in Devices /\ op.sequence \in Nat
           /\ op.stamp \in Stamps
           /\ DOMAIN op.changes \subseteq Names /\ DOMAIN op.bases = DOMAIN op.changes
           /\ \A n \in DOMAIN op.changes : op.changes[n] \in FieldValues /\ op.bases[n] \in FieldValues
           /\ op.added \subseteq Tags /\ op.removed \subseteq Tags /\ op.added \cap op.removed = {}
           /\ op.resolves \subseteq ConflictIds
           /\ "id" \in DOMAIN op.changes => op.changes["id"] = 0 /\ "updatedAt" \in DOMAIN op.changes
           /\ "updatedAt" \in DOMAIN op.changes => op.changes["updatedAt"] \in Nat
           /\ op.action = "delete" => DOMAIN op.changes = {} /\ op.resolves = {}
<1>1. op.changes \in Partial /\ op.bases \in Partial /\ DOMAIN op.bases = DOMAIN op.changes
  BY DEF Operations
<1>2. DOMAIN op.changes \subseteq Names /\ \A n \in DOMAIN op.changes : op.changes[n] \in FieldValues
  BY <1>1 DEF Partial
<1>3. \A n \in DOMAIN op.bases : op.bases[n] \in FieldValues
  BY <1>1 DEF Partial
<1> QED
  BY <1>1, <1>2, <1>3 DEF Operations

\* Conflicts are about the fields a user edits: an id never differs.
LEMMA DetectedAreConflicts ==
    ASSUME NEW l \in Ledgers, NEW op \in Operations
    PROVE  Detected(l, op) \subseteq Conflicts
<1> SUFFICES ASSUME NEW m \in DOMAIN op.changes \ {"updatedAt"},
                    l.stamps[m] # Never, l.fields[m] # op.changes[m]
             PROVE  Conflict(l, op, m) \in Conflicts
  BY DEF Detected
<1>1. m \in Names /\ op.changes[m] \in FieldValues /\ op.bases[m] \in FieldValues
  BY OperationShape
<1>2. l.fields[m] \in FieldValues
  BY <1>1 DEF Ledgers, Records
<1>3. m # "id"
  <2> SUFFICES ASSUME m = "id" PROVE FALSE
    OBVIOUS
  <2>1. op.changes["id"] = 0
    BY OperationShape
  <2>2. l.fields["id"] = 0
    BY DEF Ledgers
  <2> QED
    BY <2>1, <2>2
<1>4. m \in Fields
  BY <1>1, <1>3 DEF Names
<1>5. [field |-> m, base |-> op.bases[m], alternatives |-> {l.fields[m], op.changes[m]}] \in ConflictIds
  BY <1>1, <1>2, <1>4 DEF ConflictIds
<1> QED
  BY <1>1, <1>2, <1>5 DEF Conflict, Conflicts

\* What an operation that is not hidden writes.
LEMMA WrittenShape ==
    ASSUME NEW l \in Ledgers, NEW op \in Operations
    PROVE  /\ Written(l, op).known = TRUE /\ Written(l, op).tombstone = Never
           /\ Written(l, op).applied = l.applied
           /\ Written(l, op).resolved = l.resolved \cup op.resolves
           /\ \A c \in Written(l, op).conflicts :
                 \/ c \in Detected(l, op) /\ c.id \notin Written(l, op).resolved
                 \/ c \in l.conflicts /\ c.id \notin op.resolves
           /\ \A n \in Names : Written(l, op).fields[n] = IF n \in Winners(l, op) THEN op.changes[n] ELSE l.fields[n]
           /\ \A n \in Names : Written(l, op).stamps[n] = IF n \in Winners(l, op) THEN op.stamp ELSE l.stamps[n]
           /\ Written(l, op).tags = (l.tags \cup (op.added \cap TagWinners(l, op))) \ (op.removed \cap TagWinners(l, op))
           /\ \A t \in Tags : Written(l, op).tagStamps[t] = IF t \in TagWinners(l, op) THEN op.stamp ELSE l.tagStamps[t]
           /\ Written(l, op) \in Records
<1> DEFINE resolved == l.resolved \cup op.resolves
           found == {c \in Detected(l, op) : c.id \notin resolved}
           foundIds == {c.id : c \in found}
           conflicts1 == {c \in l.conflicts : c.id \notin op.resolves \cup foundIds} \cup found
           fields == [n \in Names |-> IF n \in Winners(l, op) THEN op.changes[n] ELSE l.fields[n]]
           stamps == [n \in Names |-> IF n \in Winners(l, op) THEN op.stamp ELSE l.stamps[n]]
           tags == (l.tags \cup (op.added \cap TagWinners(l, op))) \ (op.removed \cap TagWinners(l, op))
           tagStamps == [t \in Tags |-> IF t \in TagWinners(l, op) THEN op.stamp ELSE l.tagStamps[t]]
<1>1. PICK w : w = [l EXCEPT !.known = TRUE, !.tombstone = Never, !.resolved = resolved,
                    !.conflicts = conflicts1, !.fields = fields, !.stamps = stamps,
                    !.tags = tags, !.tagStamps = tagStamps]
  OBVIOUS
<1>2. Written(l, op) = w
  BY <1>1 DEF Written
<1>3. \A c \in conflicts1 : \/ c \in Detected(l, op) /\ c.id \notin resolved
                            \/ c \in l.conflicts /\ c.id \notin op.resolves
  OBVIOUS
<1>4. l \in Records /\ Never \in Stamps
  BY DEF Ledgers, Never, Stamps
<1>5. /\ \A n \in Names : fields[n] = IF n \in Winners(l, op) THEN op.changes[n] ELSE l.fields[n]
      /\ \A n \in Names : stamps[n] = IF n \in Winners(l, op) THEN op.stamp ELSE l.stamps[n]
      /\ \A t \in Tags : tagStamps[t] = IF t \in TagWinners(l, op) THEN op.stamp ELSE l.tagStamps[t]
  OBVIOUS
<1>6. /\ l.fields \in [Names -> FieldValues] /\ l.stamps \in [Names -> Stamps]
      /\ l.tags \subseteq Tags /\ l.tagStamps \in [Tags -> Stamps]
      /\ l.conflicts \subseteq Conflicts /\ l.resolved \subseteq ConflictIds
  BY <1>4 DEF Records
<1>7. \A n \in Winners(l, op) : op.changes[n] \in FieldValues
  BY OperationShape DEF Winners
<1>8. fields \in [Names -> FieldValues] /\ stamps \in [Names -> Stamps]
  BY <1>6, <1>7, OperationShape
<1>9. tags \in SUBSET Tags /\ tagStamps \in [Tags -> Stamps]
  BY <1>6, OperationShape
<1>10. conflicts1 \in SUBSET Conflicts /\ resolved \in SUBSET ConflictIds
  BY <1>6, DetectedAreConflicts, OperationShape
<1>11. tags = (l.tags \cup (op.added \cap TagWinners(l, op))) \ (op.removed \cap TagWinners(l, op))
       /\ resolved = l.resolved \cup op.resolves
  OBVIOUS
<1> HIDE DEF resolved, conflicts1, fields, stamps, tags, tagStamps
<1>12. /\ w.known = TRUE /\ w.tombstone = Never /\ w.applied = l.applied /\ w.resolved = resolved
       /\ w.conflicts = conflicts1 /\ w.fields = fields /\ w.stamps = stamps /\ w.tags = tags
       /\ w.tagStamps = tagStamps
  BY <1>1, <1>4 DEF Records
<1>13. w \in Records
  BY <1>1, <1>4, <1>8, <1>9, <1>10 DEF Records
<1> QED
  BY <1>2, <1>3, <1>5, <1>11, <1>12, <1>13

\* A ledger that writes an operation is a ledger.
LEMMA WrittenIsLedger ==
    ASSUME NEW l \in Ledgers, NEW op \in Operations
    PROVE  Written(l, op) \in Ledgers
<1> DEFINE fields == Written(l, op).fields
           stamps == Written(l, op).stamps
<1>1. /\ Written(l, op) \in Records
      /\ \A n \in Names : fields[n] = IF n \in Winners(l, op) THEN op.changes[n] ELSE l.fields[n]
      /\ \A n \in Names : stamps[n] = IF n \in Winners(l, op) THEN op.stamp ELSE l.stamps[n]
  BY WrittenShape
<1>2. /\ l.fields["id"] # NoValue => l.stamps["id"] # Never
      /\ l.stamps["id"] # Never => l.fields["id"] = 0 /\ l.stamps["updatedAt"] # Never
      /\ l.stamps["updatedAt"] # Never => l.fields["updatedAt"] \in Nat
  BY DEF Ledgers
<1>3. Winners(l, op) = {n \in DOMAIN op.changes : Newer(op.stamp, l.stamps[n])}
  BY DEF Winners
<1> HIDE DEF fields, stamps
<1>4. fields["id"] # NoValue => stamps["id"] # Never
  BY <1>1, <1>2, NamesAreDistinct, OperationsAreNewer
<1>5. stamps["updatedAt"] # Never => fields["updatedAt"] \in Nat
  BY <1>1, <1>2, <1>3, NamesAreDistinct, OperationShape
<1>6. ASSUME stamps["id"] # Never PROVE fields["id"] = 0 /\ stamps["updatedAt"] # Never
  <2>1. CASE "id" \in Winners(l, op)
    <3>1. op.changes["id"] = 0 /\ "updatedAt" \in DOMAIN op.changes
      BY <1>3, <2>1, OperationShape
    <3>2. "updatedAt" \in Winners(l, op) \/ l.stamps["updatedAt"] # Never
      BY <1>3, <3>1, OperationsAreNewer
    <3> QED
      BY <1>1, <2>1, <3>1, <3>2, NamesAreDistinct, OperationsAreNewer
  <2>2. CASE "id" \notin Winners(l, op)
    BY <1>1, <1>2, <1>6, <2>2, NamesAreDistinct, OperationsAreNewer
  <2> QED
    BY <2>1, <2>2
<1> QED
  BY <1>1, <1>4, <1>5, <1>6 DEF Ledgers, fields, stamps

\* Writing an operation keeps the latest value of every field.
LEMMA WrittenFieldsAreLatest ==
    ASSUME NEW l \in Ledgers, NEW op \in Operations, NEW seed \in Entities,
           NEW S \in SUBSET Operations, Distinct(S), NEW n \in Names,
           Latest(<<l.stamps[n], l.fields[n]>>, FieldContenders(seed, S, n))
    PROVE  Latest(<<Written(l, op).stamps[n], Written(l, op).fields[n]>>,
                  FieldContenders(seed, S \cup {op}, n))
<1>1. /\ n \in Winners(l, op) => Written(l, op).fields[n] = op.changes[n] /\ Written(l, op).stamps[n] = op.stamp
      /\ n \notin Winners(l, op) => Written(l, op).fields[n] = l.fields[n] /\ Written(l, op).stamps[n] = l.stamps[n]
  <2>1. /\ \A m \in Names : Written(l, op).fields[m] = IF m \in Winners(l, op) THEN op.changes[m] ELSE l.fields[m]
        /\ \A m \in Names : Written(l, op).stamps[m] = IF m \in Winners(l, op) THEN op.stamp ELSE l.stamps[m]
    BY WrittenShape
  <2> QED
    BY <2>1
<1>2. /\ n \in DOMAIN op.changes =>
             FieldContenders(seed, S \cup {op}, n) =
                 FieldContenders(seed, S, n) \cup {<<op.stamp, op.changes[n]>>}
      /\ n \notin DOMAIN op.changes =>
             FieldContenders(seed, S \cup {op}, n) = FieldContenders(seed, S, n)
  BY DEF FieldContenders
<1>3. CASE n \in DOMAIN op.changes
  <2> DEFINE c == <<l.stamps[n], l.fields[n]>>
             x == <<op.stamp, op.changes[n]>>
  <2>1. c[1] = l.stamps[n] /\ x[1] = op.stamp /\ x[1] \in Stamps
    BY OperationShape
  <2>2. \A y \in FieldContenders(seed, S, n) : y[1] \in Stamps
    BY FieldContendersAreStamped
  <2>3. n \in Winners(l, op) <=> Newer(x[1], c[1])
    BY <1>3, <2>1 DEF Winners
  <2>4. <<Written(l, op).stamps[n], Written(l, op).fields[n]>> = IF Newer(x[1], c[1]) THEN x ELSE c
    BY <1>1, <2>3
  <2> HIDE DEF c, x
  <2>5. Latest(IF Newer(x[1], c[1]) THEN x ELSE c, FieldContenders(seed, S, n) \cup {x})
    BY <2>1, <2>2, LatestOfOneMore DEF c
  <2> QED
    BY <1>2, <1>3, <2>4, <2>5 DEF x
<1>4. CASE n \notin DOMAIN op.changes
  BY <1>1, <1>2, <1>4 DEF Winners
<1> QED
  BY <1>3, <1>4

\* Writing an operation keeps the latest decision about every tag.
LEMMA WrittenTagsAreLatest ==
    ASSUME NEW l \in Ledgers, NEW op \in Operations, NEW seed \in Entities,
           NEW S \in SUBSET Operations, Distinct(S), NEW t \in Tags,
           Latest(<<l.tagStamps[t], Mark(t, l.tags)>>, TagContenders(seed, S, t))
    PROVE  Latest(<<Written(l, op).tagStamps[t], Mark(t, Written(l, op).tags)>>,
                  TagContenders(seed, S \cup {op}, t))
<1>1. /\ Written(l, op).tags = (l.tags \cup (op.added \cap TagWinners(l, op))) \ (op.removed \cap TagWinners(l, op))
      /\ t \in TagWinners(l, op) => Written(l, op).tagStamps[t] = op.stamp
      /\ t \notin TagWinners(l, op) => Written(l, op).tagStamps[t] = l.tagStamps[t]
  <2>1. /\ Written(l, op).tags = (l.tags \cup (op.added \cap TagWinners(l, op))) \ (op.removed \cap TagWinners(l, op))
        /\ \A u \in Tags : Written(l, op).tagStamps[u] = IF u \in TagWinners(l, op) THEN op.stamp ELSE l.tagStamps[u]
    BY WrittenShape
  <2> QED
    BY <2>1
<1>2. /\ t \in op.added \cup op.removed =>
             TagContenders(seed, S \cup {op}, t) =
                 TagContenders(seed, S, t) \cup {<<op.stamp, Mark(t, op.added)>>}
      /\ t \notin op.added \cup op.removed =>
             TagContenders(seed, S \cup {op}, t) = TagContenders(seed, S, t)
  BY TagContendersOfOneMore
<1>3. TagWinners(l, op) = {u \in op.added \cup op.removed : Newer(op.stamp, l.tagStamps[u])}
  BY DEF TagWinners
<1>4. op.added \cap op.removed = {} /\ op.stamp \in Stamps
  BY OperationShape
<1>6. Mark(t, Written(l, op).tags) = IF t \in TagWinners(l, op) THEN Mark(t, op.added) ELSE Mark(t, l.tags)
  BY <1>1, <1>3, <1>4 DEF Mark
<1>7. CASE t \in op.added \cup op.removed
  <2> DEFINE c == <<l.tagStamps[t], Mark(t, l.tags)>>
             x == <<op.stamp, Mark(t, op.added)>>
  <2>1. c[1] = l.tagStamps[t] /\ x[1] = op.stamp /\ x[1] \in Stamps
    BY <1>4
  <2>2. \A y \in TagContenders(seed, S, t) : y[1] \in Stamps
    BY TagContendersAreStamped
  <2>3. t \in TagWinners(l, op) <=> Newer(x[1], c[1])
    BY <1>3, <1>7, <2>1
  <2>4. <<Written(l, op).tagStamps[t], Mark(t, Written(l, op).tags)>> = IF Newer(x[1], c[1]) THEN x ELSE c
    BY <1>1, <1>6, <2>3
  <2> HIDE DEF c, x
  <2>5. Latest(IF Newer(x[1], c[1]) THEN x ELSE c, TagContenders(seed, S, t) \cup {x})
    BY <2>1, <2>2, LatestOfOneMore DEF c
  <2> QED
    BY <1>2, <1>7, <2>4, <2>5 DEF x
<1>8. CASE t \notin op.added \cup op.removed
  BY <1>1, <1>2, <1>3, <1>6, <1>8
<1> QED
  BY <1>7, <1>8

Seen(l, op) == [l EXCEPT !.applied = @ \cup {<<op.actor, op.sequence>>}]

Deleted(l, op) ==
    [l EXCEPT !.known = TRUE, !.tombstone = IF Newer(op.stamp, @) THEN op.stamp ELSE @]

\* A ledger notes that it has applied an operation.
LEMMA SeenIsLedger ==
    ASSUME NEW l \in Ledgers, NEW op \in Operations
    PROVE  /\ Seen(l, op) \in Ledgers
           /\ Seen(l, op).applied = l.applied \cup {Identity(op)}
           /\ Seen(l, op).known = l.known /\ Seen(l, op).fields = l.fields /\ Seen(l, op).stamps = l.stamps
           /\ Seen(l, op).tags = l.tags /\ Seen(l, op).tagStamps = l.tagStamps /\ Seen(l, op).tombstone = l.tombstone
           /\ Seen(l, op).conflicts = l.conflicts /\ Seen(l, op).resolved = l.resolved
<1>1. l \in Records /\ l.applied \subseteq Devices \X Nat
  BY DEF Ledgers, Records
<1>2. l.applied \cup {<<op.actor, op.sequence>>} \in SUBSET (Devices \X Nat)
  BY <1>1, OperationShape
<1>3. /\ Seen(l, op) \in Records
      /\ Seen(l, op).applied = l.applied \cup {<<op.actor, op.sequence>>}
      /\ Seen(l, op).known = l.known /\ Seen(l, op).fields = l.fields /\ Seen(l, op).stamps = l.stamps
      /\ Seen(l, op).tags = l.tags /\ Seen(l, op).tagStamps = l.tagStamps /\ Seen(l, op).tombstone = l.tombstone
      /\ Seen(l, op).conflicts = l.conflicts /\ Seen(l, op).resolved = l.resolved
  BY <1>1, <1>2 DEF Records, Seen
<1>4. Seen(l, op) \in Ledgers
  BY <1>3 DEF Ledgers
<1> QED
  BY <1>3, <1>4 DEF Identity

\* A deletion makes a tombstone or finds a newer one.
LEMMA DeletedIsLedger ==
    ASSUME NEW l \in Ledgers, NEW op \in Operations
    PROVE  /\ Deleted(l, op) \in Ledgers
           /\ Deleted(l, op).tombstone # Never
           /\ Deleted(l, op).applied = l.applied /\ Deleted(l, op).conflicts = l.conflicts
           /\ Deleted(l, op).resolved = l.resolved
<1> DEFINE tombstone == IF Newer(op.stamp, l.tombstone) THEN op.stamp ELSE l.tombstone
<1>1. l \in Records /\ l.tombstone \in Stamps
  BY DEF Ledgers, Records
<1>2. tombstone \in Stamps /\ tombstone # Never
  BY <1>1, OperationsAreNewer
<1>3. Deleted(l, op) = [l EXCEPT !.known = TRUE, !.tombstone = tombstone]
  BY DEF Deleted
<1> HIDE DEF tombstone
<1>4. /\ Deleted(l, op) \in Records
      /\ Deleted(l, op).tombstone = tombstone /\ Deleted(l, op).fields = l.fields /\ Deleted(l, op).stamps = l.stamps
      /\ Deleted(l, op).applied = l.applied /\ Deleted(l, op).conflicts = l.conflicts
      /\ Deleted(l, op).resolved = l.resolved
  BY <1>1, <1>2, <1>3 DEF Records
<1>5. Deleted(l, op) \in Ledgers
  BY <1>4 DEF Ledgers
<1> QED
  BY <1>2, <1>4, <1>5

\* A ledger that applies an operation stands for one operation more.
LEMMA ApplyStands ==
    ASSUME NEW K \in SUBSET Operations, Distinct(K), NEW seed \in Entities,
           NEW S \in SUBSET K, NEW op \in K, NEW l \in Ledgers, Stands(l, seed, S)
    PROVE  Apply(l, op) \in Ledgers /\ Stands(Apply(l, op), seed, S \cup {op})
<1> DEFINE seen == Seen(l, op)
<1>1. seen = [l EXCEPT !.applied = @ \cup {<<op.actor, op.sequence>>}]
  BY DEF Seen
<1>2. /\ op \in Operations /\ S \in SUBSET Operations /\ Distinct(S)
      /\ {Identity(o) : o \in S \cup {op}} = {Identity(o) : o \in S} \cup {Identity(op)}
  BY DEF Distinct
<1>3. /\ seen \in Ledgers /\ seen.applied = {Identity(o) : o \in S \cup {op}}
      /\ seen.known = l.known /\ seen.fields = l.fields /\ seen.stamps = l.stamps
      /\ seen.tags = l.tags /\ seen.tagStamps = l.tagStamps /\ seen.tombstone = l.tombstone
      /\ seen.conflicts = l.conflicts /\ seen.resolved = l.resolved
  <2>1. l.applied = {Identity(o) : o \in S}
    BY DEF Stands
  <2> QED
    BY <1>2, <2>1, SeenIsLedger
<1> HIDE DEF seen
<1>4. CASE Duplicate(l, op)
  <2>1. Apply(l, op) = l
    BY <1>4 DEF Apply
  <2>2. PICK o \in S : Identity(o) = Identity(op)
    BY <1>4 DEF Duplicate, Stands, Identity
  <2>3. o = op
    BY <2>2 DEF Distinct
  <2>4. S \cup {op} = S
    BY <2>3
  <2> QED
    BY <2>1, <2>4
<1>5. CASE ~Duplicate(l, op) /\ op.action = "delete"
  <2> DEFINE deleted == Deleted(seen, op)
  <2>1. deleted = [seen EXCEPT !.known = TRUE, !.tombstone = IF Newer(op.stamp, @) THEN op.stamp ELSE @]
    BY DEF Deleted
  <2>2. Apply(l, op) = deleted
    BY <1>1, <1>5, <2>1 DEF Apply
  <2>3. /\ deleted \in Ledgers /\ deleted.tombstone # Never /\ deleted.applied = seen.applied
        /\ deleted.conflicts = seen.conflicts /\ deleted.resolved = seen.resolved
    BY <1>2, <1>3, DeletedIsLedger
  <2> HIDE DEF deleted
  <2>4. \A c \in deleted.conflicts : c.id \notin deleted.resolved
    BY <1>3, <2>3 DEF Stands
  <2>5. Stands(deleted, seed, S \cup {op})
    BY <1>3, <1>5, <2>3, <2>4 DEF Stands
  <2> QED
    BY <2>2, <2>3, <2>5
<1>6. CASE ~Duplicate(l, op) /\ op.action # "delete" /\ Hidden(l, op)
  <2>1. Hidden(seen, op) /\ l.tombstone # Never
    BY <1>3, <1>6 DEF Hidden
  <2>2. Apply(l, op) = seen
    BY <1>1, <1>6 DEF Apply
  <2>3. /\ \E o \in S : o.action = "delete"
        /\ \A c \in seen.conflicts : c.id \notin seen.resolved
    BY <1>3, <2>1 DEF Stands
  <2>4. Stands(seen, seed, S \cup {op})
    BY <1>3, <2>1, <2>3 DEF Stands
  <2> QED
    BY <1>3, <2>2, <2>4
<1>7. CASE ~Duplicate(l, op) /\ op.action # "delete" /\ ~Hidden(l, op)
  <2> DEFINE w == Written(seen, op)
  <2>1. Apply(l, op) = w
    BY <1>1, <1>7 DEF Apply
  <2>2. l.tombstone = Never
    BY <1>2, <1>7, OperationShape DEF Hidden
  <2>3. w \in Ledgers
    BY <1>2, <1>3, WrittenIsLedger
  <2>4. /\ w.known = TRUE /\ w.tombstone = Never /\ w.applied = seen.applied
        /\ w.resolved = seen.resolved \cup op.resolves
        /\ \A c \in w.conflicts : \/ c \in Detected(seen, op) /\ c.id \notin w.resolved
                                  \/ c \in seen.conflicts /\ c.id \notin op.resolves
    BY <1>2, <1>3, WrittenShape
  <2>5. /\ \A n \in Names : Latest(<<seen.stamps[n], seen.fields[n]>>, FieldContenders(seed, S, n))
        /\ \A t \in Tags : Latest(<<seen.tagStamps[t], Mark(t, seen.tags)>>, TagContenders(seed, S, t))
    BY <1>3, <2>2 DEF Stands
  <2>6. \A n \in Names : Latest(<<w.stamps[n], w.fields[n]>>, FieldContenders(seed, S \cup {op}, n))
    BY <1>2, <1>3, <2>5, WrittenFieldsAreLatest
  <2>7. \A t \in Tags : Latest(<<w.tagStamps[t], Mark(t, w.tags)>>, TagContenders(seed, S \cup {op}, t))
    BY <1>2, <1>3, <2>5, WrittenTagsAreLatest
  <2> HIDE DEF w
  <2>8. \A c \in w.conflicts : c.id \notin w.resolved
    BY <1>3, <2>4 DEF Stands
  <2>9. \A o \in S \cup {op} : o.resolves \subseteq w.resolved
    BY <1>3, <2>2, <2>4 DEF Stands
  <2>10. \A o \in S \cup {op} : o.action # "delete"
    BY <1>7, <2>2 DEF Stands
  <2>11. Stands(w, seed, S \cup {op})
    BY <1>3, <2>4, <2>6, <2>7, <2>8, <2>9, <2>10 DEF Stands
  <2> QED
    BY <2>1, <2>3, <2>11
<1> QED
  BY <1>4, <1>5, <1>6, <1>7

-----------------------------------------------------------------------------
(* A batch *)

\* f gives the ledgers after the first operations of a batch, up to the bound.
Unfolds(f, l, ops, bound) ==
    f = [n \in 0 .. bound |-> IF n = 0 THEN l ELSE Apply(f[n - 1], ops[n])]

\* There are such ledgers.
LEMMA UnfoldingExists ==
    ASSUME NEW l, NEW ops, NEW bound \in Nat
    PROVE  \E f : Unfolds(f, l, ops, bound)
<1> DEFINE T == {n \in 0 .. bound : \E f : Unfolds(f, l, ops, n)}
<1>1. 0 \in T
  <2> DEFINE f == [n \in 0 .. 0 |-> l]
  <2>1. Unfolds(f, l, ops, 0)
    BY DEF Unfolds
  <2> QED
    BY <2>1
<1>2. \A n \in 0 .. bound : n < bound /\ n \in T => n + 1 \in T
  <2> SUFFICES ASSUME NEW n \in 0 .. bound, n < bound, NEW f, Unfolds(f, l, ops, n)
               PROVE  \E g : Unfolds(g, l, ops, n + 1)
    OBVIOUS
  <2>1. PICK g : g = [k \in 0 .. n + 1 |-> IF k = n + 1 THEN Apply(f[n], ops[n + 1]) ELSE f[k]]
    OBVIOUS
  <2>2. ASSUME NEW k \in 0 .. n + 1
        PROVE  g[k] = IF k = 0 THEN l ELSE Apply(g[k - 1], ops[k])
    <3>1. CASE k = n + 1
      BY <2>1, <3>1
    <3>2. CASE k # n + 1
      <4>1. k \in 0 .. n /\ g[k] = f[k] /\ (k # 0 => k - 1 \in 0 .. n /\ g[k - 1] = f[k - 1])
        BY <2>1, <3>2
      <4> QED
        BY <4>1 DEF Unfolds
    <3> QED
      BY <3>1, <3>2
  <2>3. Unfolds(g, l, ops, n + 1)
    BY <2>1, <2>2 DEF Unfolds
  <2> QED
    BY <2>3
<1>3. bound \in T
  <2> HIDE DEF T
  <2>1. 0 .. bound \subseteq T
    BY <1>1, <1>2, BoundedInduction
  <2> QED
    BY <2>1
<1> QED
  BY <1>3

\* A ledger that applies a batch stands for its operations as well.
LEMMA ApplyAllStands ==
    ASSUME NEW K \in SUBSET Operations, Distinct(K), NEW seed \in Entities,
           NEW S \in SUBSET K, NEW ops \in Seq(K), NEW l \in Ledgers, Stands(l, seed, S)
    PROVE  /\ ApplyAll(l, ops) \in Ledgers
           /\ Stands(ApplyAll(l, ops), seed, S \cup {ops[i] : i \in DOMAIN ops})
<1> DEFINE f == CHOOSE g : Unfolds(g, l, ops, Len(ops))
           upTo(n) == S \cup {ops[i] : i \in 1 .. n}
           T == {n \in 0 .. Len(ops) : f[n] \in Ledgers /\ Stands(f[n], seed, upTo(n))}
<1>1. Len(ops) \in Nat /\ DOMAIN ops = 1 .. Len(ops) /\ \A i \in 1 .. Len(ops) : ops[i] \in K
  OBVIOUS
<1>2. Unfolds(f, l, ops, Len(ops))
  BY <1>1, UnfoldingExists
<1>3. ApplyAll(l, ops) = f[Len(ops)]
  BY DEF ApplyAll, Unfolds
<1> HIDE DEF f
<1>4. 0 \in T
  <2>1. f[0] = l
    BY <1>1, <1>2 DEF Unfolds
  <2>2. upTo(0) = S
    <3>1. 1 .. 0 = {}
      OBVIOUS
    <3> QED
      BY <3>1
  <2> HIDE DEF upTo
  <2> QED
    BY <1>1, <2>1, <2>2
<1>5. \A n \in 0 .. Len(ops) : n < Len(ops) /\ n \in T => n + 1 \in T
  <2> SUFFICES ASSUME NEW n \in 0 .. Len(ops), n < Len(ops), f[n] \in Ledgers, Stands(f[n], seed, upTo(n))
               PROVE  n + 1 \in T
    OBVIOUS
  <2>1. n + 1 \in 1 .. Len(ops) /\ n + 1 \in 0 .. Len(ops) /\ n + 1 # 0 /\ (n + 1) - 1 = n
    BY <1>1
  <2>2. f[n + 1] = Apply(f[n], ops[n + 1])
    BY <1>2, <2>1 DEF Unfolds
  <2>3. ops[n + 1] \in K
    BY <1>1, <2>1
  <2>4. upTo(n) \in SUBSET K
    BY <1>1
  <2>5. upTo(n + 1) = upTo(n) \cup {ops[n + 1]}
    <3>1. 1 .. n + 1 = (1 .. n) \cup {n + 1}
      OBVIOUS
    <3> QED
      BY <3>1
  <2> HIDE DEF upTo
  <2>6. f[n + 1] \in Ledgers /\ Stands(f[n + 1], seed, upTo(n) \cup {ops[n + 1]})
    <3>1. PICK before \in Ledgers : before = f[n]
      OBVIOUS
    <3>2. PICK earlier \in SUBSET K : earlier = upTo(n)
      BY <2>4
    <3>3. PICK op \in K : op = ops[n + 1]
      BY <2>3
    <3>4. Stands(before, seed, earlier)
      BY <3>1, <3>2
    <3>5. Apply(before, op) \in Ledgers /\ Stands(Apply(before, op), seed, earlier \cup {op})
      BY <3>4, ApplyStands
    <3> QED
      BY <2>2, <3>1, <3>2, <3>3, <3>5
  <2> QED
    BY <2>1, <2>5, <2>6
<1>6. Len(ops) \in T
  <2> HIDE DEF T
  <2>1. 0 .. Len(ops) \subseteq T
    BY <1>1, <1>4, <1>5, BoundedInduction
  <2> QED
    BY <1>1, <2>1
<1> QED
  BY <1>1, <1>3, <1>6

\* An empty batch changes nothing.
LEMMA ApplyNothing ==
    ASSUME NEW l PROVE ApplyAll(l, <<>>) = l
<1> DEFINE f == CHOOSE g : Unfolds(g, l, <<>>, 0)
<1>1. Unfolds(f, l, <<>>, 0)
  BY UnfoldingExists
<1>2. Len(<<>>) = 0 /\ ApplyAll(l, <<>>) = f[Len(<<>>)]
  BY DEF ApplyAll, Unfolds
<1> HIDE DEF f
<1> QED
  BY <1>1, <1>2 DEF Unfolds

\* A batch of one operation applies it.
LEMMA ApplyOne ==
    ASSUME NEW l, NEW op PROVE ApplyAll(l, <<op>>) = Apply(l, op)
<1> DEFINE f == CHOOSE g : Unfolds(g, l, <<op>>, 1)
<1>1. Unfolds(f, l, <<op>>, 1)
  BY UnfoldingExists
<1>2. Len(<<op>>) = 1 /\ ApplyAll(l, <<op>>) = f[Len(<<op>>)] /\ <<op>>[1] = op
  BY DEF ApplyAll, Unfolds
<1> HIDE DEF f
<1>3. f[0] = l
  BY <1>1 DEF Unfolds
<1>4. f[1] = Apply(f[0], op)
  BY <1>1, <1>2 DEF Unfolds
<1> QED
  BY <1>2, <1>3, <1>4

\* A seeded ledger stands for no operation.
LEMMA SeedStands ==
    ASSUME NEW seed \in Entities
    PROVE  Stands(Seed(seed), seed, {})
<1>1. Seed(seed).stamps \in [Names -> Stamps] /\ Seed(seed).tagStamps \in [Tags -> Stamps]
  BY SeedIsLedger DEF Ledgers, Records
<1>2. ASSUME NEW n \in Names
      PROVE  Latest(<<Seed(seed).stamps[n], Seed(seed).fields[n]>>, FieldContenders(seed, {}, n))
  BY <1>1, NewerIsTotal DEF FieldContenders, Latest
<1>3. ASSUME NEW t \in Tags
      PROVE  Latest(<<Seed(seed).tagStamps[t], Mark(t, Seed(seed).tags)>>, TagContenders(seed, {}, t))
  BY <1>1, NewerIsTotal DEF TagContenders, Latest
<1> QED
  BY <1>2, <1>3, SeedIsLedger DEF Stands

\* Two ledgers made from the same document that have applied the same operations
\* stand for the same document.
LEMMA DocumentIsDetermined ==
    ASSUME NEW seed \in Entities, NEW S \in SUBSET Operations, Distinct(S),
           NEW l \in Ledgers, NEW m \in Ledgers, Stands(l, seed, S), Stands(m, seed, S)
    PROVE  Document(l) = Document(m)
<1>1. l.tombstone = Never <=> m.tombstone = Never
  BY DEF Stands
<1>2. CASE l.tombstone # Never
  BY <1>1, <1>2 DEF Document
<1>3. CASE l.tombstone = Never
  <2>1. /\ \A n \in Names : Latest(<<l.stamps[n], l.fields[n]>>, FieldContenders(seed, S, n))
        /\ \A n \in Names : Latest(<<m.stamps[n], m.fields[n]>>, FieldContenders(seed, S, n))
        /\ \A t \in Tags : Latest(<<l.tagStamps[t], Mark(t, l.tags)>>, TagContenders(seed, S, t))
        /\ \A t \in Tags : Latest(<<m.tagStamps[t], Mark(t, m.tags)>>, TagContenders(seed, S, t))
        /\ l.known <=> m.known
    BY <1>1, <1>3 DEF Stands
  <2>2. ASSUME NEW n \in Names PROVE l.fields[n] = m.fields[n]
    <3>1. <<l.stamps[n], l.fields[n]>> = <<m.stamps[n], m.fields[n]>>
      BY <2>1, FieldContendersAreStamped, LatestIsUnique
    <3> QED
      BY <3>1
  <2>3. ASSUME NEW t \in Tags PROVE t \in l.tags <=> t \in m.tags
    <3>1. <<l.tagStamps[t], Mark(t, l.tags)>> = <<m.tagStamps[t], Mark(t, m.tags)>>
      BY <2>1, TagContendersAreStamped, LatestIsUnique
    <3>2. Mark(t, l.tags) = Mark(t, m.tags)
      BY <3>1
    <3> QED
      BY <3>2 DEF Mark
  <2>4. l.fields \in [Names -> FieldValues] /\ m.fields \in [Names -> FieldValues]
        /\ l.tags \subseteq Tags /\ m.tags \subseteq Tags
    BY DEF Ledgers, Records
  <2>5. l.fields = m.fields
    BY <2>2, <2>4
  <2>6. l.tags = m.tags
    BY <2>3, <2>4
  <2> QED
    BY <1>1, <2>1, <2>5, <2>6 DEF Document
<1> QED
  BY <1>2, <1>3

-----------------------------------------------------------------------------
(* Captured operations *)

\* What turns one entity into another that exists is an operation.
LEMMA UpsertIsOperation ==
    ASSUME NEW old \in Entities, NEW new \in Entities, new.exists,
           NEW resolves \in SUBSET ConflictIds, NEW actor \in Devices, NEW sequence \in Nat, NEW w \in Nat
    PROVE  Upsert(old, new, resolves, actor, sequence, <<w, 0, actor>>) \in Operations
<1> DEFINE changed == {n \in Names : old.fields[n] # new.fields[n]}
           changes == [n \in changed |-> new.fields[n]]
           bases == [n \in changed |-> old.fields[n]]
           stamp == <<w, 0, actor>>
<1>1. /\ old.fields \in [Names -> FieldValues] /\ old.tags \subseteq Tags
      /\ new.fields \in [Names -> FieldValues] /\ new.tags \subseteq Tags
      /\ new.fields["id"] = 0 /\ new.fields["updatedAt"] \in Nat
  BY EntityShape
<1>2. changes \in Partial /\ bases \in Partial /\ DOMAIN bases = DOMAIN changes
  <2>1. changes \in [changed -> FieldValues] /\ bases \in [changed -> FieldValues] /\ changed \in SUBSET Names
    BY <1>1
  <2> QED
    BY <2>1 DEF Partial
<1>3. "updatedAt" \in DOMAIN changes => changes["updatedAt"] \in Nat
  BY <1>1
<1>4. "id" \in DOMAIN changes => changes["id"] = 0 /\ "updatedAt" \in DOMAIN changes
  <2> SUFFICES ASSUME "id" \in changed PROVE changes["id"] = 0 /\ "updatedAt" \in changed
    OBVIOUS
  <2>1. old.fields["id"] # 0
    BY <1>1
  <2>2. old = NoEntity
    BY <2>1, EntityShape
  <2>3. old.fields["updatedAt"] = NoValue
    BY <2>2, NoEntityIsEntity, NamesAreDistinct
  <2> QED
    BY <1>1, <2>3, NamesAreDistinct
<1>5. stamp \in Stamps /\ stamp[1] = w /\ stamp[2] = 0 /\ stamp[3] = actor
  BY DeviceAssumption DEF Stamps
<1>6. Upsert(old, new, resolves, actor, sequence, stamp) =
        [action |-> "upsert", actor |-> actor, sequence |-> sequence, stamp |-> stamp,
         changes |-> changes, bases |-> bases,
         added |-> new.tags \ old.tags, removed |-> old.tags \ new.tags, resolves |-> resolves]
  BY DEF Upsert
<1> HIDE DEF changes, bases, stamp
<1> QED
  BY <1>1, <1>2, <1>3, <1>4, <1>5, <1>6 DEF Operations, stamp

\* A deletion is an operation.
LEMMA DeletionIsOperation ==
    ASSUME NEW actor \in Devices, NEW sequence \in Nat, NEW w \in Nat
    PROVE  Deletion(actor, sequence, <<w, 0, actor>>) \in Operations
<1> DEFINE stamp == <<w, 0, actor>>
<1>1. stamp \in Stamps /\ stamp[1] = w /\ stamp[2] = 0 /\ stamp[3] = actor
  BY DeviceAssumption DEF Stamps
<1>2. PICK nothing : nothing = <<>>
  OBVIOUS
<1>3. nothing \in [{} -> FieldValues] /\ DOMAIN nothing = {}
  BY <1>2
<1>4. nothing \in Partial
  BY <1>3 DEF Partial
<1>5. Deletion(actor, sequence, stamp) =
        [action |-> "delete", actor |-> actor, sequence |-> sequence, stamp |-> stamp,
         changes |-> nothing, bases |-> nothing, added |-> {}, removed |-> {}, resolves |-> {}]
  BY <1>2 DEF Deletion
<1> HIDE DEF stamp
<1> QED
  BY <1>1, <1>3, <1>4, <1>5 DEF Operations, stamp

\* The operation op of a device turns old into new.
Makes(op, old, new, resolves, actor, sequence, w) ==
    /\ op.actor = actor /\ op.sequence = sequence /\ op.stamp = <<w, 0, actor>>
    /\ new.exists => op = Upsert(old, new, resolves, actor, sequence, <<w, 0, actor>>)
    /\ ~new.exists => op.action = "delete"
    /\ "updatedAt" \in DOMAIN op.changes =>
          new.exists /\ op.changes["updatedAt"] = new.fields["updatedAt"]

\* What createLocalOperations makes of a change: a seeded replica never restores.
LEMMA LocalOperationsShape ==
    ASSUME NEW old \in Entities, NEW new \in Entities, old # new,
           NEW resolves \in SUBSET ConflictIds, NEW actor \in Devices, NEW sequence \in Nat, NEW w \in Nat
    PROVE  \E op \in Operations :
               /\ LocalOperations(Seed(old), old, new, resolves, actor, sequence, <<w, 0, actor>>) = <<op>>
               /\ Makes(op, old, new, resolves, actor, sequence, w)
<1> DEFINE stamp == <<w, 0, actor>>
           u == Upsert(old, new, resolves, actor, sequence, stamp)
           x == Deletion(actor, sequence, stamp)
<1>1. CASE new.exists
  <2>1. u \in Operations
    BY <1>1, UpsertIsOperation
  <2>2. [u EXCEPT !.action = u.action] = u
    BY <2>1 DEF Operations
  <2>3. Seed(old).tombstone = Never
    BY SeedIsLedger
  <2>4. LocalOperations(Seed(old), old, new, resolves, actor, sequence, stamp) =
          <<[u EXCEPT !.action = u.action]>>
    BY <1>1, <2>3 DEF LocalOperations
  <2>5. u.actor = actor /\ u.sequence = sequence /\ u.stamp = stamp
        /\ u.changes = [n \in {m \in Names : old.fields[m] # new.fields[m]} |-> new.fields[n]]
    BY DEF Upsert
  <2>6. "updatedAt" \in DOMAIN u.changes => u.changes["updatedAt"] = new.fields["updatedAt"]
    BY <2>5
  <2> QED
    BY <1>1, <2>1, <2>2, <2>4, <2>5, <2>6 DEF Makes
<1>2. CASE ~new.exists
  <2>1. x \in Operations
    BY DeletionIsOperation
  <2>2. LocalOperations(Seed(old), old, new, resolves, actor, sequence, stamp) = <<x>>
    BY <1>2 DEF LocalOperations
  <2>3. x.action = "delete" /\ x.actor = actor /\ x.sequence = sequence /\ x.stamp = stamp
    BY DEF Deletion
  <2>4. DOMAIN x.changes = {}
    BY <2>1, <2>3, OperationShape
  <2> HIDE DEF x
  <2> QED
    BY <1>2, <2>1, <2>2, <2>3, <2>4 DEF Makes
<1>3. new.exists \in BOOLEAN
  BY EntityShape
<1> QED
  BY <1>1, <1>2, <1>3

\* An unchanged document is what its seeded ledger stands for.
LEMMA SeedDocument ==
    ASSUME NEW e \in Entities PROVE Document(Seed(e)) = e
<1>1. Seed(e).known = e.exists /\ Seed(e).tombstone = Never /\ Seed(e).fields = e.fields /\ Seed(e).tags = e.tags
  BY SeedIsLedger
<1> QED
  BY <1>1, EntityShape DEF Document

\* A captured revision that is later than its baseline stands in the replica.
LEMMA CapturedUpsertStands ==
    ASSUME NEW old \in Entities, NEW new \in Entities, new.exists,
           NEW resolves \in SUBSET ConflictIds, NEW actor \in Devices, NEW sequence \in Nat, NEW w \in Nat,
           old.exists => old.fields["updatedAt"] < w,
           NEW op, op = Upsert(old, new, resolves, actor, sequence, <<w, 0, actor>>)
    PROVE  Document(Apply(Seed(old), op)) = new
<1> DEFINE l == Seed(old)
           seen == Seen(l, op)
           r == Written(seen, op)
<1>1. op \in Operations
  BY UpsertIsOperation
<1>2. /\ op.action = "upsert" /\ op.stamp = <<w, 0, actor>>
      /\ op.changes = [n \in {m \in Names : old.fields[m] # new.fields[m]} |-> new.fields[n]]
      /\ op.added = new.tags \ old.tags /\ op.removed = old.tags \ new.tags
  BY DEF Upsert
<1>3. /\ l \in Ledgers /\ l.tombstone = Never /\ l.applied = {}
      /\ l.fields = old.fields /\ l.tags = old.tags
  BY SeedIsLedger
<1>4. /\ \A n \in Names : Newer(op.stamp, l.stamps[n])
      /\ \A t \in Tags : Newer(op.stamp, l.tagStamps[t])
  <2>1. Newer(op.stamp, Never)
    BY <1>1, OperationsAreNewer
  <2>2. CASE old.exists
    <3>1. old.fields["updatedAt"] \in Nat
      BY <2>2, EntityShape
    <3>2. Newer(op.stamp, <<old.fields["updatedAt"], 1, 0>>)
      BY <1>2, <2>2, <3>1 DEF Newer
    <3> QED
      BY <2>1, <2>2, <3>2, SeedShape
  <2>3. CASE ~old.exists
    <3>1. l = EmptyLedger
      BY <2>3 DEF Seed
    <3> QED
      BY <2>1, <3>1, EmptyLedgerIsLedger
  <2> QED
    BY <2>2, <2>3, EntityShape
<1> HIDE DEF l
<1>5. /\ seen \in Ledgers
      /\ seen.fields = l.fields /\ seen.stamps = l.stamps
      /\ seen.tags = l.tags /\ seen.tagStamps = l.tagStamps /\ seen.tombstone = l.tombstone
  BY <1>1, <1>3, SeenIsLedger
<1>6. seen = [l EXCEPT !.applied = @ \cup {<<op.actor, op.sequence>>}]
  BY DEF Seen
<1> HIDE DEF seen
<1>7. Apply(l, op) = r
  <2>1. ~Duplicate(l, op) /\ ~Hidden(l, op)
    BY <1>3 DEF Duplicate, Hidden
  <2> QED
    BY <1>2, <1>6, <2>1 DEF Apply
<1>8. /\ r.known = TRUE /\ r.tombstone = Never
      /\ \A n \in Names : r.fields[n] = IF n \in Winners(seen, op) THEN op.changes[n] ELSE seen.fields[n]
      /\ r.tags = (seen.tags \cup (op.added \cap TagWinners(seen, op))) \ (op.removed \cap TagWinners(seen, op))
      /\ r \in Records
  BY <1>1, <1>5, WrittenShape
<1> HIDE DEF r
<1>9. Winners(seen, op) = {m \in Names : old.fields[m] # new.fields[m]}
  BY <1>2, <1>4, <1>5 DEF Winners
<1>10. TagWinners(seen, op) = op.added \cup op.removed
  BY <1>1, <1>4, <1>5, OperationShape DEF TagWinners
<1>11. new.fields \in [Names -> FieldValues] /\ old.tags \subseteq Tags /\ new.tags \subseteq Tags
       /\ new = [exists |-> TRUE, fields |-> new.fields, tags |-> new.tags]
  BY EntityShape
<1>12. r.fields = new.fields
  <2>1. \A n \in Names : r.fields[n] = new.fields[n]
    BY <1>2, <1>3, <1>5, <1>8, <1>9
  <2>2. r.fields \in [Names -> FieldValues]
    BY <1>8 DEF Records
  <2> QED
    BY <1>11, <2>1, <2>2
<1>13. r.tags = new.tags
  BY <1>2, <1>3, <1>5, <1>8, <1>10, <1>11
<1>14. Document(r) = [exists |-> TRUE, fields |-> new.fields, tags |-> new.tags]
  BY <1>8, <1>12, <1>13 DEF Document
<1> QED
  BY <1>7, <1>11, <1>14 DEF l

\* A captured deletion stands in the replica.
LEMMA CapturedDeletionStands ==
    ASSUME NEW old \in Entities, NEW op \in Operations, op.action = "delete"
    PROVE  Document(Apply(Seed(old), op)) = NoEntity
<1>1. Seed(old) \in Ledgers /\ Seed(old).applied = {}
  BY SeedIsLedger
<1>2. Seen(Seed(old), op) \in Ledgers
  BY <1>1, SeenIsLedger
<1>3. Deleted(Seen(Seed(old), op), op).tombstone # Never
  BY <1>2, DeletedIsLedger
<1>4. Apply(Seed(old), op) = Deleted(Seen(Seed(old), op), op)
  <2>1. ~Duplicate(Seed(old), op)
    BY <1>1 DEF Duplicate
  <2> QED
    BY <2>1 DEF Apply, Seen, Deleted
<1> QED
  BY <1>3, <1>4 DEF Document

-----------------------------------------------------------------------------
(* The log and the outboxes *)

\* What a valid document is made of.
LEMMA DocumentIsEntity ==
    ASSUME NEW l \in Ledgers, Document(l).exists => Document(l).fields["id"] # NoValue
    PROVE  Document(l) \in Entities
<1>1. CASE l.known /\ l.tombstone = Never
  <2>1. Document(l) = [exists |-> TRUE, fields |-> l.fields, tags |-> l.tags]
    BY <1>1 DEF Document
  <2>2. l.fields["id"] # NoValue
    BY <2>1
  <2>3. l.fields["id"] = 0 /\ l.fields["updatedAt"] \in Nat
    BY <2>2 DEF Ledgers
  <2>4. l.fields \in [Names -> FieldValues] /\ l.tags \in SUBSET Tags
    BY DEF Ledgers, Records
  <2> QED
    BY <2>1, <2>3, <2>4, EntityMade
<1>2. CASE ~(l.known /\ l.tombstone = Never)
  BY <1>2, NoEntityIsEntity DEF Document
<1> QED
  BY <1>1, <1>2

\* What is in the log and in the outboxes are operations.
LEMMA KnownAreOperations ==
    ASSUME TypeInv
    PROVE  /\ Known \in SUBSET Operations
           /\ \A i \in DOMAIN log : log[i] \in Known
           /\ \A d \in Devices : \A k \in DOMAIN outbox[d] : outbox[d][k] \in Known
<1>1. \A i \in DOMAIN log : log[i] \in Operations
  BY DEF TypeInv
<1>2. ASSUME NEW d \in Devices PROVE \A k \in DOMAIN outbox[d] : outbox[d][k] \in Operations
  <2>1. outbox[d] \in Seq(Operations)
    BY DEF TypeInv
  <2> QED
    BY <2>1
<1> QED
  BY <1>1, <1>2 DEF Known

\* How many operations of a device a sequence of operations holds.
Count(ops, d) == Cardinality({i \in DOMAIN ops : ops[i].actor = d})

\* At most all of them.
LEMMA CountIsBounded ==
    ASSUME NEW ops \in Seq(Operations), NEW d
    PROVE  /\ IsFiniteSet({i \in DOMAIN ops : ops[i].actor = d})
           /\ Count(ops, d) \in 0 .. Len(ops)
<1> DEFINE mine == {i \in DOMAIN ops : ops[i].actor = d}
<1>1. Len(ops) \in Nat /\ DOMAIN ops = 1 .. Len(ops)
  OBVIOUS
<1>2. IsFiniteSet(1 .. Len(ops)) /\ Cardinality(1 .. Len(ops)) = Len(ops)
  BY <1>1, FS_Interval
<1>3. mine \subseteq 1 .. Len(ops)
  BY <1>1
<1>4. IsFiniteSet(mine) /\ Cardinality(mine) <= Len(ops)
  BY <1>2, <1>3, FS_Subset
<1>5. Cardinality(mine) \in Nat
  BY <1>4, FS_CardinalityType
<1> QED
  BY <1>1, <1>4, <1>5 DEF Count

\* A sequence of operations of one device adds them to the count of the device.
LEMMA CountOfConcatenation ==
    ASSUME NEW ops \in Seq(Operations), NEW more \in Seq(Operations), NEW a,
           \A k \in DOMAIN more : more[k].actor = a, NEW d
    PROVE  /\ d = a => Count(ops \o more, d) = Count(ops, d) + Len(more)
           /\ d # a => Count(ops \o more, d) = Count(ops, d)
<1> DEFINE all == ops \o more
           low == {i \in DOMAIN ops : ops[i].actor = d}
           high == (Len(ops) + 1) .. (Len(ops) + Len(more))
<1>1. /\ Len(ops) \in Nat /\ Len(more) \in Nat
      /\ DOMAIN ops = 1 .. Len(ops) /\ DOMAIN more = 1 .. Len(more)
      /\ DOMAIN all = 1 .. (Len(ops) + Len(more))
      /\ \A i \in 1 .. Len(ops) : all[i] = ops[i]
      /\ \A i \in high : all[i] = more[i - Len(ops)] /\ i - Len(ops) \in 1 .. Len(more)
  OBVIOUS
<1>2. IsFiniteSet(low) /\ Cardinality(low) \in Nat
  BY CountIsBounded, FS_CardinalityType
<1>3. \A i \in high : all[i].actor = a
  BY <1>1
<1>4. DOMAIN all = (1 .. Len(ops)) \cup high
  BY <1>1
<1>5. CASE d = a
  <2>1. {i \in DOMAIN all : all[i].actor = d} = low \cup high
    BY <1>1, <1>3, <1>4, <1>5
  <2>2. low \cap high = {}
    BY <1>1
  <2>3. IsFiniteSet(high) /\ Cardinality(high) = Len(more)
    <3>1. PICK first \in Int, last \in Int : first = Len(ops) + 1 /\ last = Len(ops) + Len(more)
      BY <1>1
    <3>2. IsFiniteSet(first .. last)
      BY FS_Interval
    <3>3. Cardinality(first .. last) = IF first > last THEN 0 ELSE last - first + 1
      BY FS_Interval
    <3>4. Cardinality(first .. last) = Len(more)
      BY <1>1, <3>1, <3>3
    <3> QED
      BY <3>1, <3>2, <3>4
  <2>4. Cardinality(low \cup high) = Cardinality(low) + Cardinality(high) - Cardinality(low \cap high)
    BY <1>2, <2>3, FS_Union
  <2>5. Cardinality(low \cap high) = 0
    BY <2>2, FS_EmptySet
  <2>6. Cardinality(low \cup high) = Cardinality(low) + Len(more)
    BY <1>1, <1>2, <2>3, <2>4, <2>5
  <2>7. Count(all, d) = Cardinality(low \cup high) /\ Count(ops, d) = Cardinality(low)
    BY <2>1 DEF Count
  <2> QED
    BY <1>5, <2>6, <2>7
<1>6. CASE d # a
  <2>1. {i \in DOMAIN all : all[i].actor = d} = low
    BY <1>1, <1>3, <1>4, <1>6
  <2> QED
    BY <1>6, <2>1 DEF Count
<1> QED
  BY <1>5, <1>6

\* The service has accepted at most what is in its log, and sequences are positive.
LEMMA AcceptedIsBounded ==
    ASSUME TypeInv, NEW d \in Devices
    PROVE  /\ Accepted(d) = Count(log, d) /\ Accepted(d) \in 0 .. Len(log)
           /\ Len(outbox[d]) \in Nat
           /\ NextSequence(d) = 1 + Len(outbox[d]) + Accepted(d) /\ NextSequence(d) \in Nat
<1>1. log \in Seq(Operations) /\ outbox[d] \in Seq(Operations)
  BY DEF TypeInv
<1>2. Accepted(d) = Count(log, d)
  BY DEF Accepted, Count
<1>3. Accepted(d) \in 0 .. Len(log)
  BY <1>1, <1>2, CountIsBounded
<1>4. Len(outbox[d]) \in Nat
  BY <1>1
<1> QED
  BY <1>2, <1>3, <1>4 DEF NextSequence

\* f gives what the service sends of the first entries of its log.
Sends(f, d, bound) ==
    f = [n \in 0 .. bound |->
            IF n = 0 THEN <<>>
            ELSE IF log[n].sequence > cursor[d][log[n].actor] THEN Append(f[n - 1], log[n])
            ELSE f[n - 1]]

\* There is such a table.
LEMMA SendingExists ==
    ASSUME NEW d, NEW bound \in Nat PROVE \E f : Sends(f, d, bound)
<1> DEFINE Next1(s, n) == IF log[n].sequence > cursor[d][log[n].actor] THEN Append(s, log[n]) ELSE s
           T == {n \in 0 .. bound : \E f : Sends(f, d, n)}
<1>1. 0 \in T
  <2> DEFINE f == [n \in 0 .. 0 |-> <<>>]
  <2>1. Sends(f, d, 0)
    BY DEF Sends
  <2> QED
    BY <2>1
<1>2. \A n \in 0 .. bound : n < bound /\ n \in T => n + 1 \in T
  <2> SUFFICES ASSUME NEW n \in 0 .. bound, n < bound, NEW f, Sends(f, d, n)
               PROVE  \E g : Sends(g, d, n + 1)
    OBVIOUS
  <2>1. PICK g : g = [k \in 0 .. n + 1 |-> IF k = n + 1 THEN Next1(f[n], n + 1) ELSE f[k]]
    OBVIOUS
  <2>2. f = [k \in 0 .. n |-> IF k = 0 THEN <<>> ELSE Next1(f[k - 1], k)]
    BY DEF Sends
  <2>3. ASSUME NEW k \in 0 .. n + 1
        PROVE  g[k] = IF k = 0 THEN <<>> ELSE Next1(g[k - 1], k)
    <3> HIDE DEF Next1
    <3>1. CASE k = n + 1
      BY <2>1, <3>1
    <3>2. CASE k # n + 1
      <4>1. k \in 0 .. n /\ g[k] = f[k] /\ (k # 0 => k - 1 \in 0 .. n /\ g[k - 1] = f[k - 1])
        BY <2>1, <3>2
      <4>2. f[k] = IF k = 0 THEN <<>> ELSE Next1(f[k - 1], k)
        BY <2>2, <4>1
      <4> QED
        BY <4>1, <4>2
    <3> QED
      BY <3>1, <3>2
  <2>4. g = [k \in 0 .. n + 1 |-> IF k = 0 THEN <<>> ELSE Next1(g[k - 1], k)]
    <3> HIDE DEF Next1
    <3> QED
      BY <2>1, <2>3
  <2>5. Sends(g, d, n + 1)
    BY <2>4 DEF Sends
  <2> QED
    BY <2>5
<1>3. bound \in T
  <2> HIDE DEF T
  <2>1. 0 .. bound \subseteq T
    BY <1>1, <1>2, BoundedInduction
  <2> QED
    BY <2>1
<1> QED
  BY <1>3

\* The service sends operations of its log.
LEMMA UnseenAreKnown ==
    ASSUME TypeInv, NEW d \in Devices
    PROVE  Unseen(d) \in Seq(Known)
<1> DEFINE f == CHOOSE g : Sends(g, d, Len(log))
           T == {n \in 0 .. Len(log) : f[n] \in Seq(Known)}
<1>1. Len(log) \in Nat /\ DOMAIN log = 1 .. Len(log)
  BY DEF TypeInv
<1>2. Sends(f, d, Len(log))
  BY <1>1, SendingExists
<1>3. Unseen(d) = f[Len(log)]
  BY DEF Unseen, Sends
<1> HIDE DEF f
<1>4. 0 \in T
  <2>1. f[0] = <<>>
    BY <1>1, <1>2 DEF Sends
  <2>2. <<>> \in Seq(Known) /\ 0 \in 0 .. Len(log)
    BY <1>1
  <2>3. f[0] \in Seq(Known)
    BY <2>1, <2>2
  <2> QED
    BY <2>2, <2>3
<1>5. \A n \in 0 .. Len(log) : n < Len(log) /\ n \in T => n + 1 \in T
  <2> SUFFICES ASSUME NEW n \in 0 .. Len(log), n < Len(log), f[n] \in Seq(Known)
               PROVE  n + 1 \in T
    OBVIOUS
  <2>1. n + 1 \in 1 .. Len(log) /\ n + 1 \in 0 .. Len(log) /\ n + 1 # 0 /\ (n + 1) - 1 = n
    BY <1>1
  <2>2. f[n + 1] = Append(f[n], log[n + 1]) \/ f[n + 1] = f[n]
    BY <1>2, <2>1 DEF Sends
  <2>3. log[n + 1] \in Known
    BY <1>1, <2>1, KnownAreOperations
  <2>4. Append(f[n], log[n + 1]) \in Seq(Known)
    BY <2>3
  <2> QED
    BY <2>1, <2>2, <2>4
<1>6. Len(log) \in T
  <2> HIDE DEF T
  <2>1. 0 .. Len(log) \subseteq T
    BY <1>1, <1>4, <1>5, BoundedInduction
  <2> QED
    BY <1>1, <2>1
<1> QED
  BY <1>3, <1>6

-----------------------------------------------------------------------------
(* The invariant of the replicas *)

\* What all devices share at first is an entity.
LEMMA SharedIsEntity ==
    ASSUME NEW value \in Values
    PROVE  /\ Shared(value) \in Entities /\ Shared(value).exists = TRUE
           /\ Shared(value).fields["updatedAt"] = 0
<1> DEFINE fields == [n \in Names |-> IF n \in Fields THEN value ELSE 0]
<1>1. fields \in [Names -> FieldValues] /\ fields["id"] = 0 /\ fields["updatedAt"] = 0
  BY NamesAreDistinct DEF FieldValues
<1>2. Shared(value) = [exists |-> TRUE, tags |-> {}, fields |-> fields]
  BY DEF Shared
<1> HIDE DEF fields
<1> QED
  BY <1>1, <1>2 DEF Entities

\* Nothing happens in a session that has ended.
LEMMA NoClientIsSession ==
    NoClient \in Sessions /\ NoClient.step = "idle" /\ ~NoClient.seed.exists
  BY NoEntityIsEntity, EmptyLedgerIsLedger DEF NoClient, Sessions

\* The replicas start consistent.
LEMMA InitReplica == Init => ReplicaInv
<1> SUFFICES ASSUME Init PROVE ReplicaInv
  OBVIOUS
<1>1. PICK value \in Values : /\ workspace = [d \in Devices |-> Shared(value)]
                              /\ baseline = [d \in Devices |-> Shared(value)]
  BY DEF Init
<1>2. /\ now = 0 /\ outbox = [d \in Devices |-> <<>>] /\ log = <<>>
      /\ cursor = [d \in Devices |-> [a \in Devices |-> 0]]
      /\ conflicts = [d \in Devices |-> {}] /\ session = [d \in Devices |-> NoClient]
  BY DEF Init
<1>3. TypeInv
  <2>1. workspace \in [Devices -> Entities] /\ baseline \in [Devices -> Entities]
    BY <1>1, SharedIsEntity
  <2>2. now \in 0 .. MaxEdits
    BY <1>2, BoundAssumption
  <2>3. outbox \in [Devices -> Seq(Operations)] /\ log \in Seq(Operations)
    BY <1>2
  <2>4. cursor \in [Devices -> [Devices -> 0 .. Len(log)]]
    BY <1>2
  <2>5. conflicts \in [Devices -> SUBSET Conflicts] /\ session \in [Devices -> Sessions]
    BY <1>2, NoClientIsSession
  <2> QED
    BY <2>1, <2>2, <2>3, <2>4, <2>5 DEF TypeInv
<1>4. Known = {} /\ \A d \in Devices : DOMAIN outbox[d] = {}
  <2>1. DOMAIN log = {}
    BY <1>2
  <2>2. \A d \in Devices : DOMAIN outbox[d] = {}
    BY <1>2
  <2> QED
    BY <2>1, <2>2 DEF Known
<1>5. OperationInv
  BY <1>4 DEF OperationInv, Distinct
<1>6. SessionInv
  BY <1>2, NoClientIsSession DEF SessionInv, At
<1> QED
  BY <1>3, <1>5, <1>6 DEF ReplicaInv

\* What no step of a device changes of the others.
LEMMA SequencesStay ==
    ASSUME UNCHANGED <<log, outbox>>
    PROVE  Known' = Known /\ \A d \in Devices : NextSequence(d)' = NextSequence(d)
  BY DEF Known, NextSequence, Accepted

\* An edit keeps the invariant.
LEMMA EditedKeepsReplica ==
    ASSUME ReplicaInv, NEW d \in Devices, NEW entity \in Entities, Edited(d, entity)
    PROVE  ReplicaInv'
<1>1. /\ At(d, "idle") /\ now < MaxEdits /\ now' = now + 1
      /\ workspace' = [workspace EXCEPT ![d] = entity]
      /\ UNCHANGED <<baseline, outbox, log, cursor, conflicts, session>>
  BY DEF Edited, Touch
<1>2. TypeInv /\ OperationInv /\ SessionInv
  BY DEF ReplicaInv
<1>3. TypeInv'
  <2>1. now' \in 0 .. MaxEdits
    BY <1>1, <1>2, BoundAssumption DEF TypeInv
  <2>2. workspace' \in [Devices -> Entities]
    BY <1>1, <1>2 DEF TypeInv
  <2> QED
    BY <1>1, <1>2, <2>1, <2>2 DEF TypeInv
<1>4. Known' = Known /\ \A e \in Devices : NextSequence(e)' = NextSequence(e)
  BY <1>1, SequencesStay
<1>5. OperationInv'
  <2>1. ASSUME NEW o \in Known
        PROVE  o.sequence < NextSequence(o.actor)' /\ o.stamp[1] < Clock(o.actor)'
    <3>1. o.actor \in Devices /\ o.stamp[1] \in Nat
      BY <1>2, KnownAreOperations, OperationShape DEF Operations
    <3>2. o.sequence < NextSequence(o.actor) /\ o.stamp[1] <= now + Skew[o.actor]
      BY <1>2 DEF OperationInv, Clock
    <3>3. Skew[o.actor] \in Nat /\ now \in Nat
      BY <1>2, <3>1, ClockAssumption DEF TypeInv
    <3> QED
      BY <1>1, <1>4, <3>1, <3>2, <3>3 DEF Clock
  <2>2. \A o \in Known : o.stamp[1] <= Clock(o.actor)'
    <3>1. \A o \in Known : o.stamp[1] \in Nat /\ Clock(o.actor)' \in Nat
      <4>1. \A o \in Known : o.actor \in Devices /\ o.stamp[1] \in Nat
        BY <1>2, KnownAreOperations, OperationShape DEF Operations
      <4>2. now' \in Nat
        BY <1>3, BoundAssumption DEF TypeInv
      <4> QED
        BY <4>1, <4>2, ClockAssumption DEF Clock
    <3> QED
      BY <2>1, <3>1
  <2> QED
    BY <1>1, <1>2, <1>4, <2>1, <2>2 DEF OperationInv
<1>6. SessionInv'
  BY <1>1, <1>2, <1>4 DEF SessionInv, At
<1> QED
  BY <1>3, <1>5, <1>6 DEF ReplicaInv

\* An entity that exists and is stamped is an entity.
LEMMA StampedIsEntity ==
    ASSUME NEW e \in [exists : {TRUE}, fields : [Names -> FieldValues], tags : SUBSET Tags],
           e.fields["id"] = 0, NEW w \in Nat
    PROVE  LET stamped == [e EXCEPT !.fields["updatedAt"] = w] IN
           /\ stamped \in Entities /\ stamped.exists = TRUE /\ stamped.fields["updatedAt"] = w
<1>1. "updatedAt" \in Names /\ "id" \in Names /\ w \in FieldValues
  BY NamesAreDistinct DEF FieldValues
<1>2. PICK stamped : stamped = [e EXCEPT !.fields["updatedAt"] = w]
  OBVIOUS
<1>3. /\ stamped \in [exists : {TRUE}, fields : [Names -> FieldValues], tags : SUBSET Tags]
      /\ stamped.fields["id"] = 0 /\ stamped.fields["updatedAt"] = w
  BY <1>1, <1>2
<1>4. stamped \in Entities
  BY <1>3 DEF Entities
<1> QED
  BY <1>2, <1>3, <1>4

\* The clocks show times.
LEMMA ClockIsNatural ==
    ASSUME TypeInv, NEW d \in Devices
    PROVE  now \in Nat /\ Skew[d] \in Nat /\ Clock(d) = now + Skew[d] /\ Clock(d) \in Nat
<1>1. now \in Nat
  BY BoundAssumption DEF TypeInv
<1> QED
  BY <1>1, ClockAssumption DEF Clock

\* What the user makes of an entity is an entity, stamped by the clock.
LEMMA EditsMakeEntities ==
    ASSUME TypeInv, NEW d \in Devices, now' = now + 1, NEW e \in Entities, e.exists
    PROVE  /\ \A f \in Fields, v \in FieldValues :
                 LET edited == Stamped(d, [e EXCEPT !.fields[f] = v]) IN
                 edited \in Entities /\ edited.exists /\ edited.fields["updatedAt"] = Clock(d)'
           /\ \A tags \in SUBSET Tags :
                 LET edited == Stamped(d, [e EXCEPT !.tags = tags]) IN
                 edited \in Entities /\ edited.exists /\ edited.fields["updatedAt"] = Clock(d)'
<1>1. PICK w \in Nat : w = Clock(d)'
  BY ClockIsNatural DEF Clock
<1>2. /\ e \in [exists : {TRUE}, fields : [Names -> FieldValues], tags : SUBSET Tags]
      /\ e.fields["id"] = 0
  <2>1. e.fields \in [Names -> FieldValues] /\ e.tags \subseteq Tags /\ e.fields["id"] = 0
        /\ e = [exists |-> TRUE, fields |-> e.fields, tags |-> e.tags]
    BY EntityShape
  <2> QED
    BY <2>1
<1>3. ASSUME NEW f \in Fields, NEW v \in FieldValues
      PROVE  LET edited == Stamped(d, [e EXCEPT !.fields[f] = v]) IN
             edited \in Entities /\ edited.exists /\ edited.fields["updatedAt"] = Clock(d)'
  <2>1. PICK x : x = [e EXCEPT !.fields[f] = v]
    OBVIOUS
  <2>2. /\ x \in [exists : {TRUE}, fields : [Names -> FieldValues], tags : SUBSET Tags]
        /\ x.fields["id"] = 0
    BY <1>2, <2>1, NamesAreDistinct
  <2> QED
    BY <1>1, <2>1, <2>2, StampedIsEntity DEF Stamped
<1>4. ASSUME NEW tags \in SUBSET Tags
      PROVE  LET edited == Stamped(d, [e EXCEPT !.tags = tags]) IN
             edited \in Entities /\ edited.exists /\ edited.fields["updatedAt"] = Clock(d)'
  <2>1. PICK x : x = [e EXCEPT !.tags = tags]
    OBVIOUS
  <2>2. /\ x \in [exists : {TRUE}, fields : [Names -> FieldValues], tags : SUBSET Tags]
        /\ x.fields["id"] = 0
    BY <1>2, <2>1
  <2> QED
    BY <1>1, <2>1, <2>2, StampedIsEntity DEF Stamped
<1> QED
  BY <1>3, <1>4

\* A capture adds the operation that makes the difference, if there is one.
LEMMA CapturedShape ==
    ASSUME TypeInv, NEW d \in Devices, NEW entity \in Entities, NEW resolves \in SUBSET ConflictIds,
           Captured(d, entity, resolves), now' \in Nat
    PROVE  \/ /\ entity = baseline[d]
              /\ outbox' = outbox /\ Known' = Known
              /\ session'[d].ledger = Seed(baseline[d])
           \/ /\ entity # baseline[d]
              /\ \E op \in Operations :
                    /\ outbox' = [outbox EXCEPT ![d] = Append(@, op)]
                    /\ Known' = Known \cup {op}
                    /\ session'[d].ledger = Apply(Seed(baseline[d]), op)
                    /\ Makes(op, baseline[d], entity, resolves, d, NextSequence(d), Clock(d)')
<1> DEFINE old == baseline[d]
           ops == LocalOperations(Seed(old), old, entity, resolves, d, NextSequence(d), Tick(d)')
<1>1. /\ outbox' = [outbox EXCEPT ![d] = @ \o ops]
      /\ session' = [session EXCEPT ![d] =
             [step |-> "push", seed |-> old, ledger |-> ApplyAll(Seed(old), ops)]]
      /\ UNCHANGED log
  BY DEF Captured
<1>2. old \in Entities /\ outbox \in [Devices -> Seq(Operations)] /\ outbox[d] \in Seq(Operations)
      /\ session \in [Devices -> Sessions]
  BY DEF TypeInv
<1>3. PICK w \in Nat : w = Clock(d)' /\ Tick(d)' = <<w, 0, d>>
  BY ClockAssumption DEF Clock, Tick
<1>4. NextSequence(d) \in Nat
  BY AcceptedIsBounded
<1>5. session'[d].ledger = ApplyAll(Seed(old), ops)
  BY <1>1, <1>2
<1>6. CASE entity = old
  <2>1. ops = <<>>
    BY <1>6 DEF LocalOperations
  <2>2. outbox[d] \o <<>> = outbox[d]
    BY <1>2
  <2>3. outbox' = outbox
    BY <1>1, <1>2, <2>1, <2>2
  <2>4. Known' = Known
    BY <1>1, <2>3, SequencesStay
  <2>5. session'[d].ledger = Seed(old)
    BY <1>5, <2>1, ApplyNothing
  <2> QED
    BY <1>6, <2>3, <2>4, <2>5
<1>7. CASE entity # old
  <2>1. PICK op \in Operations :
           ops = <<op>> /\ Makes(op, old, entity, resolves, d, NextSequence(d), w)
    <3>1. PICK s \in Nat : s = NextSequence(d)
      BY <1>4
    <3>2. PICK b \in Entities : b = old
      BY <1>2
    <3>3. ops = LocalOperations(Seed(b), b, entity, resolves, d, s, <<w, 0, d>>)
      BY <1>3, <3>1, <3>2
    <3>4. PICK op \in Operations :
             /\ LocalOperations(Seed(b), b, entity, resolves, d, s, <<w, 0, d>>) = <<op>>
             /\ Makes(op, b, entity, resolves, d, s, w)
      BY <1>7, <3>2, LocalOperationsShape
    <3> HIDE DEF ops
    <3> QED
      BY <3>1, <3>2, <3>3, <3>4
  <2> HIDE DEF ops
  <2>2. outbox[d] \o <<op>> = Append(outbox[d], op)
    BY <1>2
  <2>3. outbox' = [outbox EXCEPT ![d] = Append(@, op)]
    BY <1>1, <2>1, <2>2
  <2>4. session'[d].ledger = Apply(Seed(old), op)
    BY <1>5, <2>1, ApplyOne
  <2>5. Known' = Known \cup {op}
    <3>1. /\ outbox'[d] = Append(outbox[d], op)
          /\ \A e \in Devices \ {d} : outbox'[e] = outbox[e]
      BY <1>2, <2>3
    <3>2. {outbox'[d][k] : k \in DOMAIN outbox'[d]} = {outbox[d][k] : k \in DOMAIN outbox[d]} \cup {op}
      <4>1. /\ DOMAIN outbox[d] = 1 .. Len(outbox[d]) /\ Len(outbox[d]) \in Nat
            /\ DOMAIN Append(outbox[d], op) = 1 .. Len(outbox[d]) + 1
            /\ \A k \in 1 .. Len(outbox[d]) : Append(outbox[d], op)[k] = outbox[d][k]
            /\ Append(outbox[d], op)[Len(outbox[d]) + 1] = op
        BY <1>2
      <4>2. 1 .. Len(outbox[d]) + 1 = (1 .. Len(outbox[d])) \cup {Len(outbox[d]) + 1}
        BY <4>1
      <4> QED
        BY <3>1, <4>1, <4>2
    <3>3. UNION {{outbox'[e][k] : k \in DOMAIN outbox'[e]} : e \in Devices} =
          (UNION {{outbox[e][k] : k \in DOMAIN outbox[e]} : e \in Devices}) \cup {op}
      BY <3>1, <3>2
    <3> QED
      BY <1>1, <3>3 DEF Known
  <2> QED
    BY <1>3, <1>7, <2>1, <2>3, <2>4, <2>5
<1> QED
  BY <1>6, <1>7

\* A capture keeps the invariant.
LEMMA CapturedKeepsReplica ==
    ASSUME ReplicaInv, NEW d \in Devices, NEW entity \in Entities, NEW resolves \in SUBSET ConflictIds,
           Captured(d, entity, resolves), now' \in 0 .. MaxEdits,
           \/ now' = now /\ entity = workspace[d]
           \/ now' = now + 1
    PROVE  ReplicaInv'
<1>1. TypeInv /\ OperationInv /\ SessionInv
  BY DEF ReplicaInv
<1>2. /\ workspace' = [workspace EXCEPT ![d] = entity]
      /\ baseline' = [baseline EXCEPT ![d] = entity]
      /\ conflicts' = [conflicts EXCEPT ![d] = {c \in @ : c.id \notin resolves}]
      /\ \E l : session' = [session EXCEPT ![d] = [step |-> "push", seed |-> baseline[d], ledger |-> l]]
      /\ UNCHANGED <<log, cursor>>
  BY DEF Captured
<1>3. now \in Nat /\ now' \in Nat /\ now <= now' /\ \A e \in Devices : Skew[e] \in Nat
  BY <1>1, ClockIsNatural, BoundAssumption DEF TypeInv
<1>4. /\ workspace \in [Devices -> Entities] /\ baseline \in [Devices -> Entities]
      /\ outbox \in [Devices -> Seq(Operations)] /\ session \in [Devices -> Sessions]
  BY <1>1 DEF TypeInv
<1>5. /\ workspace'[d] = entity /\ baseline'[d] = entity
      /\ session'[d].step = "push" /\ session'[d].seed = baseline[d]
      /\ \A e \in Devices \ {d} : /\ workspace'[e] = workspace[e] /\ baseline'[e] = baseline[e]
                                  /\ session'[e] = session[e]
  BY <1>2, <1>4
<1>6. /\ outbox' \in [Devices -> Seq(Operations)]
      /\ Known \subseteq Known'
      /\ Distinct(Known')
      /\ \A e \in Devices : \A k \in DOMAIN outbox'[e] : outbox'[e][k].actor = e
      /\ \A o \in Known' : o.sequence < NextSequence(o.actor)'
      /\ \A o \in Known' : o.stamp[1] <= Clock(o.actor)'
      /\ \A o \in Known' : workspace'[o.actor] # baseline'[o.actor] => o.stamp[1] < Clock(o.actor)'
      /\ session'[d].ledger \in Ledgers
      /\ \E S \in SUBSET Known' : Stands(session'[d].ledger, baseline[d], S)
  <2>1. ASSUME NEW o \in Known
        PROVE  /\ o \in Operations /\ o.actor \in Devices /\ o.stamp[1] \in Nat /\ o.sequence \in Nat
               /\ o.stamp[2] = 0 /\ o.stamp[3] = o.actor
               /\ o.sequence < NextSequence(o.actor)
               /\ o.stamp[1] <= Clock(o.actor)' /\ o.stamp[1] <= Clock(o.actor)
               /\ workspace[o.actor] # baseline[o.actor] => o.stamp[1] < Clock(o.actor)'
    <3>1. /\ o \in Operations /\ o.actor \in Devices /\ o.stamp[1] \in Nat /\ o.sequence \in Nat
          /\ o.stamp[2] = 0 /\ o.stamp[3] = o.actor
      BY <1>1, KnownAreOperations DEF Operations
    <3>2. /\ o.sequence < NextSequence(o.actor)
          /\ o.stamp[1] <= now + Skew[o.actor]
          /\ workspace[o.actor] # baseline[o.actor] => o.stamp[1] < now + Skew[o.actor]
      BY <1>1 DEF OperationInv, Clock
    <3> QED
      BY <1>3, <3>1, <3>2 DEF Clock
  <2>2. CASE entity = baseline[d] /\ outbox' = outbox /\ Known' = Known /\ session'[d].ledger = Seed(baseline[d])
    <3>1. \A e \in Devices : NextSequence(e)' = NextSequence(e)
      BY <1>2, <2>2, SequencesStay
    <3>2. \A o \in Known' : workspace'[o.actor] # baseline'[o.actor] => o.stamp[1] < Clock(o.actor)'
      BY <1>5, <2>1, <2>2
    <3>3. Seed(baseline[d]) \in Ledgers /\ Stands(Seed(baseline[d]), baseline[d], {})
      BY <1>4, SeedIsLedger, SeedStands
    <3>4. \A o \in Known' : o.sequence < NextSequence(o.actor)' /\ o.stamp[1] <= Clock(o.actor)'
      BY <2>1, <2>2, <3>1
    <3>5. \E S \in SUBSET Known' : Stands(session'[d].ledger, baseline[d], S)
      BY <2>2, <3>3
    <3> QED
      BY <1>1, <1>4, <2>2, <3>2, <3>3, <3>4, <3>5 DEF OperationInv
  <2>3. ASSUME entity # baseline[d], NEW op \in Operations,
               outbox' = [outbox EXCEPT ![d] = Append(@, op)], Known' = Known \cup {op},
               session'[d].ledger = Apply(Seed(baseline[d]), op),
               op.actor = d, op.sequence = NextSequence(d), op.stamp = <<Clock(d)', 0, d>>
        PROVE  /\ outbox' \in [Devices -> Seq(Operations)]
               /\ Distinct(Known')
               /\ \A e \in Devices : \A k \in DOMAIN outbox'[e] : outbox'[e][k].actor = e
               /\ \A o \in Known' : o.sequence < NextSequence(o.actor)'
               /\ \A o \in Known' : o.stamp[1] <= Clock(o.actor)'
               /\ \A o \in Known' : workspace'[o.actor] # baseline'[o.actor] => o.stamp[1] < Clock(o.actor)'
               /\ session'[d].ledger \in Ledgers
               /\ \E S \in SUBSET Known' : Stands(session'[d].ledger, baseline[d], S)
    <3>1. Clock(d)' \in Nat /\ Clock(d)' = now' + Skew[d] /\ op.stamp[1] = Clock(d)'
      BY <1>3, <2>3 DEF Clock
    <3>2. ASSUME NEW o \in Known, o.actor = d PROVE o.stamp[1] < Clock(d)' /\ o.sequence < op.sequence
      <4>1. o.sequence < op.sequence
        BY <2>1, <2>3, <3>2
      <4>2. CASE now' = now /\ entity = workspace[d]
        BY <2>1, <2>3, <3>2, <4>2
      <4>3. CASE now' = now + 1
        <5>1. o.stamp[1] \in Nat /\ o.stamp[1] <= now + Skew[d]
          BY <2>1, <3>2 DEF Clock
        <5> QED
          BY <1>3, <3>1, <4>1, <4>3, <5>1
      <4> QED
        BY <4>1, <4>2, <4>3
    <3>3. ASSUME NEW o \in Known PROVE Identity(o) # Identity(op) /\ o.stamp # op.stamp
      <4>1. CASE o.actor = d
        BY <2>1, <2>3, <3>1, <3>2, <4>1, AcceptedIsBounded, <1>1 DEF Identity
      <4>2. CASE o.actor # d
        <5>1. op.stamp[3] = d
          BY <2>3
        <5> QED
          BY <2>1, <2>3, <4>2, <5>1 DEF Identity
      <4> QED
        BY <4>1, <4>2
    <3>4. Distinct(Known')
      <4>1. Distinct(Known)
        BY <1>1 DEF OperationInv
      <4>2. SUFFICES ASSUME NEW o \in Known \cup {op}, NEW p \in Known \cup {op},
                            Identity(o) = Identity(p) \/ o.stamp = p.stamp
                     PROVE  o = p
        BY <2>3 DEF Distinct
      <4>3. CASE o \in Known /\ p \in Known
        BY <4>1, <4>2, <4>3 DEF Distinct
      <4>4. CASE o = op /\ p \in Known
        BY <3>3, <4>2, <4>4
      <4>5. CASE o \in Known /\ p = op
        BY <3>3, <4>2, <4>5
      <4>6. CASE o = op /\ p = op
        BY <4>6
      <4> QED
        BY <4>3, <4>4, <4>5, <4>6
    <3>5. /\ outbox'[d] = Append(outbox[d], op)
          /\ \A e \in Devices \ {d} : outbox'[e] = outbox[e]
      BY <1>4, <2>3
    <3>6. outbox' \in [Devices -> Seq(Operations)] /\ outbox[d] \in Seq(Operations)
      BY <1>4, <2>3
    <3>7. ASSUME NEW e \in Devices, NEW k \in DOMAIN outbox'[e] PROVE outbox'[e][k].actor = e
      <4>1. \A j \in DOMAIN outbox[e] : outbox[e][j].actor = e
        BY <1>1 DEF OperationInv
      <4>2. CASE e # d
        BY <3>5, <4>1, <4>2
      <4>3. CASE e = d
        <5>1. k \in 1 .. Len(outbox[d]) + 1
          BY <3>5, <3>6, <4>3
        <5>2. CASE k = Len(outbox[d]) + 1
          <6>1. outbox'[d][k] = op
            BY <3>5, <3>6, <5>2
          <6> QED
            BY <2>3, <4>3, <6>1
        <5>3. CASE k # Len(outbox[d]) + 1
          <6>1. k \in DOMAIN outbox[d] /\ outbox'[d][k] = outbox[d][k]
            BY <3>5, <3>6, <5>1, <5>3
          <6> QED
            BY <4>1, <4>3, <6>1
        <5> QED
          BY <5>2, <5>3
      <4> QED
        BY <4>2, <4>3
    <3>8. NextSequence(d)' = NextSequence(d) + 1 /\ \A e \in Devices \ {d} : NextSequence(e)' = NextSequence(e)
      <4>1. \A e \in Devices : Accepted(e)' = Accepted(e)
        BY <1>2 DEF Accepted
      <4>2. Len(outbox'[d]) = Len(outbox[d]) + 1
        BY <3>5, <3>6
      <4>3. NextSequence(d) = 1 + Len(outbox[d]) + Accepted(d) /\ Len(outbox[d]) \in Nat /\ Accepted(d) \in Nat
        BY <1>1, AcceptedIsBounded
      <4>4. NextSequence(d)' = 1 + Len(outbox'[d]) + Accepted(d)'
        BY DEF NextSequence
      <4>5. NextSequence(d)' = NextSequence(d) + 1
        BY <4>1, <4>2, <4>3, <4>4
      <4>6. \A e \in Devices \ {d} : NextSequence(e)' = NextSequence(e)
        BY <3>5, <4>1 DEF NextSequence
      <4> QED
        BY <4>5, <4>6
    <3>9. ASSUME NEW o \in Known' PROVE o.sequence < NextSequence(o.actor)' /\ o.stamp[1] <= Clock(o.actor)'
      <4>1. CASE o \in Known
        <5>1. NextSequence(o.actor) \in Nat /\ NextSequence(o.actor)' >= NextSequence(o.actor)
          BY <1>1, <2>1, <3>8, <4>1, AcceptedIsBounded
        <5>2. NextSequence(o.actor)' \in Int
          BY <1>1, <2>1, <3>8, <4>1, AcceptedIsBounded
        <5> QED
          BY <2>1, <4>1, <5>1, <5>2
      <4>2. CASE o = op
        <5>1. NextSequence(d) \in Nat
          BY <1>1, AcceptedIsBounded
        <5> QED
          BY <2>3, <3>1, <3>8, <4>2, <5>1
      <4> QED
        BY <2>3, <4>1, <4>2
    <3>10. \A o \in Known' : workspace'[o.actor] # baseline'[o.actor] => o.stamp[1] < Clock(o.actor)'
      BY <1>5, <2>1, <2>3
    <3>11. /\ Apply(Seed(baseline[d]), op) \in Ledgers
           /\ Stands(Apply(Seed(baseline[d]), op), baseline[d], {} \cup {op})
      <4>1. Distinct({op}) /\ {op} \in SUBSET Operations /\ {} \in SUBSET {op}
        BY DEF Distinct
      <4>2. baseline[d] \in Entities /\ Seed(baseline[d]) \in Ledgers /\ Stands(Seed(baseline[d]), baseline[d], {})
        BY <1>4, SeedIsLedger, SeedStands
      <4> QED
        BY <4>1, <4>2, ApplyStands
    <3>12. \E S \in SUBSET Known' : Stands(session'[d].ledger, baseline[d], S)
      <4>1. {} \cup {op} \in SUBSET Known'
        BY <2>3
      <4> QED
        BY <2>3, <3>11, <4>1
    <3> QED
      BY <2>3, <3>4, <3>6, <3>7, <3>9, <3>10, <3>11, <3>12
  <2>4. \/ entity = baseline[d] /\ outbox' = outbox /\ Known' = Known /\ session'[d].ledger = Seed(baseline[d])
        \/ /\ entity # baseline[d]
           /\ \E op \in Operations :
                 /\ outbox' = [outbox EXCEPT ![d] = Append(@, op)] /\ Known' = Known \cup {op}
                 /\ session'[d].ledger = Apply(Seed(baseline[d]), op)
                 /\ op.actor = d /\ op.sequence = NextSequence(d) /\ op.stamp = <<Clock(d)', 0, d>>
    <3>1. \/ entity = baseline[d] /\ outbox' = outbox /\ Known' = Known /\ session'[d].ledger = Seed(baseline[d])
          \/ /\ entity # baseline[d]
             /\ \E op \in Operations :
                   /\ outbox' = [outbox EXCEPT ![d] = Append(@, op)] /\ Known' = Known \cup {op}
                   /\ session'[d].ledger = Apply(Seed(baseline[d]), op)
                   /\ Makes(op, baseline[d], entity, resolves, d, NextSequence(d), Clock(d)')
      BY <1>1, <1>3, CapturedShape
    <3>2. ASSUME NEW op, Makes(op, baseline[d], entity, resolves, d, NextSequence(d), Clock(d)')
          PROVE  op.actor = d /\ op.sequence = NextSequence(d) /\ op.stamp = <<Clock(d)', 0, d>>
      BY <3>2 DEF Makes
    <3> QED
      BY <3>1, <3>2
  <2>5. CASE \E op \in Operations :
                 /\ outbox' = [outbox EXCEPT ![d] = Append(@, op)] /\ Known' = Known \cup {op}
                 /\ session'[d].ledger = Apply(Seed(baseline[d]), op)
                 /\ op.actor = d /\ op.sequence = NextSequence(d) /\ op.stamp = <<Clock(d)', 0, d>>
    <3>1. \/ entity # baseline[d]
          \/ /\ entity = baseline[d] /\ outbox' = outbox /\ Known' = Known
             /\ session'[d].ledger = Seed(baseline[d])
      BY <2>4
    <3>2. CASE entity # baseline[d]
      <4>1. Known \subseteq Known'
        BY <2>5
      <4> QED
        BY <2>3, <2>5, <3>2, <4>1
    <3> QED
      BY <2>2, <3>1, <3>2
  <2> QED
    BY <2>2, <2>4, <2>5
<1>7. TypeInv'
  <2>1. workspace' \in [Devices -> Entities] /\ baseline' \in [Devices -> Entities]
    BY <1>2, <1>4
  <2>2. conflicts' \in [Devices -> SUBSET Conflicts]
    BY <1>1, <1>2 DEF TypeInv
  <2>3. session' \in [Devices -> Sessions]
    <3>1. session'[d] = [step |-> "push", seed |-> baseline[d], ledger |-> session'[d].ledger]
      BY <1>2, <1>4
    <3>2. session'[d] \in Sessions
      BY <1>4, <1>6, <3>1 DEF Sessions
    <3> QED
      BY <1>2, <1>4, <3>2
  <2>4. now' \in 0 .. MaxEdits /\ log' \in Seq(Operations) /\ cursor' \in [Devices -> [Devices -> 0 .. Len(log')]]
    BY <1>1, <1>2 DEF TypeInv
  <2> QED
    BY <1>6, <2>1, <2>2, <2>3, <2>4 DEF TypeInv
<1>8. OperationInv'
  BY <1>6 DEF OperationInv
<1>9. SessionInv'
  <2>1. ASSUME NEW e \in Devices, e # d, ~At(e, "idle")'
        PROVE  /\ \E S \in SUBSET Known' : Stands(session'[e].ledger, session'[e].seed, S)
               /\ At(e, "commit")' => Document(session'[e].ledger) \in Entities
    <3>1. ~At(e, "idle") /\ (At(e, "commit")' => At(e, "commit")) /\ session'[e] = session[e]
      BY <1>5, <2>1 DEF At
    <3>2. /\ \E S \in SUBSET Known : Stands(session[e].ledger, session[e].seed, S)
          /\ At(e, "commit") => Document(session[e].ledger) \in Entities
      BY <1>1, <3>1 DEF SessionInv
    <3> QED
      BY <1>6, <3>1, <3>2
  <2>2. ~At(d, "commit")'
    BY <1>5 DEF At
  <2> QED
    BY <1>5, <1>6, <2>1, <2>2 DEF SessionInv
<1> QED
  BY <1>7, <1>8, <1>9 DEF ReplicaInv

\* What the user does to an entity, and what it becomes.
LEMMA EditsAreEntities ==
    ASSUME TypeInv, NEW d \in Devices, SetField(d) \/ ToggleTag(d) \/ Delete(d) \/ Recreate(d)
    PROVE  \E entity \in Entities :
               /\ Edited(d, entity)
               /\ entity.exists => entity.fields["updatedAt"] = Clock(d)'
<1>1. workspace[d] \in Entities
  BY DEF TypeInv
<1>2. ASSUME NEW entity, Edited(d, entity) PROVE now' = now + 1
  BY <1>2 DEF Edited, Touch
<1>3. CASE SetField(d)
  <2>1. PICK f \in Fields, v \in Values : Edited(d, Stamped(d, [workspace[d] EXCEPT !.fields[f] = v]))
    BY <1>3 DEF SetField
  <2>2. workspace[d].exists /\ v \in FieldValues
    BY <1>3 DEF SetField, FieldValues
  <2>3. PICK entity : entity = Stamped(d, [workspace[d] EXCEPT !.fields[f] = v])
    OBVIOUS
  <2>4. entity \in Entities /\ entity.fields["updatedAt"] = Clock(d)'
    BY <1>1, <1>2, <2>1, <2>2, <2>3, EditsMakeEntities
  <2> QED
    BY <2>1, <2>3, <2>4
<1>4. CASE ToggleTag(d)
  <2>1. PICK t \in Tags : Edited(d, Stamped(d, [workspace[d] EXCEPT
                              !.tags = IF t \in @ THEN @ \ {t} ELSE @ \cup {t}]))
    BY <1>4 DEF ToggleTag
  <2>2. workspace[d].exists
    BY <1>4 DEF ToggleTag
  <2>3. PICK tags : tags = IF t \in workspace[d].tags THEN workspace[d].tags \ {t} ELSE workspace[d].tags \cup {t}
    OBVIOUS
  <2>4. tags \in SUBSET Tags
    BY <1>1, <2>3, EntityShape
  <2>5. PICK entity : entity = Stamped(d, [workspace[d] EXCEPT !.tags = tags])
    OBVIOUS
  <2>6. Edited(d, entity)
    BY <2>1, <2>3, <2>5
  <2>7. entity \in Entities /\ entity.fields["updatedAt"] = Clock(d)'
    BY <1>1, <1>2, <2>2, <2>4, <2>5, <2>6, EditsMakeEntities
  <2> QED
    BY <2>6, <2>7
<1>5. CASE Delete(d)
  BY <1>5, NoEntityIsEntity DEF Delete
<1>6. CASE Recreate(d)
  <2>1. PICK v \in Values : Edited(d, Stamped(d, Shared(v)))
    BY <1>6 DEF Recreate
  <2>2. PICK w \in Nat : w = Clock(d)'
    BY <1>2, <2>1, ClockIsNatural DEF Clock
  <2>3. PICK e : e = Shared(v)
    OBVIOUS
  <2>4. e \in Entities /\ e.exists
    BY <2>3, SharedIsEntity
  <2>5. e \in [exists : {TRUE}, fields : [Names -> FieldValues], tags : SUBSET Tags] /\ e.fields["id"] = 0
    <3>1. e.fields \in [Names -> FieldValues] /\ e.tags \subseteq Tags /\ e.fields["id"] = 0
          /\ e = [exists |-> TRUE, fields |-> e.fields, tags |-> e.tags]
      BY <2>4, EntityShape
    <3>2. [exists |-> TRUE, fields |-> e.fields, tags |-> e.tags]
            \in [exists : {TRUE}, fields : [Names -> FieldValues], tags : SUBSET Tags]
      BY <3>1
    <3> QED
      BY <3>1, <3>2
  <2>6. PICK entity : entity = Stamped(d, e)
    OBVIOUS
  <2>7. entity \in Entities /\ entity.fields["updatedAt"] = Clock(d)'
    BY <2>2, <2>5, <2>6, StampedIsEntity DEF Stamped
  <2> QED
    BY <2>1, <2>3, <2>6, <2>7
<1> QED
  BY <1>3, <1>4, <1>5, <1>6

\* A choice of the user is an entity, captured at a moment of its own.
LEMMA ResolveCaptures ==
    ASSUME TypeInv, NEW d \in Devices, Resolve(d)
    PROVE  \E entity \in Entities, resolves \in SUBSET ConflictIds :
               /\ Captured(d, entity, resolves) /\ now' = now + 1 /\ now' \in 0 .. MaxEdits
               /\ entity.exists /\ entity.fields["updatedAt"] = Clock(d)'
<1>1. PICK c \in conflicts[d] :
         /\ workspace[d].exists
         /\ Touch(d)
         /\ \E choice \in {c.existing, c.incoming} :
               Captured(d, Stamped(d, [workspace[d] EXCEPT !.fields[c.id.field] = choice]), {c.id})
  BY DEF Resolve
<1>2. PICK choice \in {c.existing, c.incoming} :
         Captured(d, Stamped(d, [workspace[d] EXCEPT !.fields[c.id.field] = choice]), {c.id})
  BY <1>1
<1>3. workspace[d] \in Entities /\ conflicts[d] \subseteq Conflicts
  BY DEF TypeInv
<1>4. c.id \in ConflictIds /\ c.id.field \in Fields /\ choice \in FieldValues
  <2>1. c \in Conflicts
    BY <1>3
  <2>2. c.id \in ConflictIds /\ c.existing \in FieldValues /\ c.incoming \in FieldValues
    BY <2>1 DEF Conflicts
  <2> QED
    BY <2>2 DEF ConflictIds
<1>5. now' = now + 1 /\ now' \in 0 .. MaxEdits
  BY <1>1, BoundAssumption DEF Touch, TypeInv
<1>6. PICK field \in Fields : field = c.id.field
  BY <1>4
<1>7. PICK entity : entity = Stamped(d, [workspace[d] EXCEPT !.fields[field] = choice])
  OBVIOUS
<1>8. entity \in Entities /\ entity.exists /\ entity.fields["updatedAt"] = Clock(d)'
  BY <1>1, <1>3, <1>4, <1>5, <1>7, EditsMakeEntities
<1>9. Captured(d, entity, {c.id}) /\ {c.id} \in SUBSET ConflictIds
  BY <1>2, <1>4, <1>6, <1>7
<1> QED
  BY <1>5, <1>8, <1>9

\* A push moves the outbox to the log: the operations there are stay the same.
LEMMA PushKeepsReplica ==
    ASSUME ReplicaInv, NEW d \in Devices, Push(d)
    PROVE  ReplicaInv' /\ Known' = Known
<1>1. TypeInv /\ OperationInv /\ SessionInv
  BY DEF ReplicaInv
<1>2. /\ At(d, "push") /\ log' = log \o outbox[d]
      /\ outbox' = [outbox EXCEPT ![d] = <<>>]
      /\ session' = [session EXCEPT ![d].step = "pull"]
      /\ UNCHANGED <<now, workspace, baseline, cursor, conflicts, failures>>
  BY DEF Push
<1>3. /\ log \in Seq(Operations) /\ outbox \in [Devices -> Seq(Operations)]
      /\ outbox[d] \in Seq(Operations) /\ session \in [Devices -> Sessions] /\ session[d] \in Sessions
  BY <1>1 DEF TypeInv
<1>4. /\ Len(log) \in Nat /\ Len(outbox[d]) \in Nat
      /\ DOMAIN log = 1 .. Len(log) /\ DOMAIN outbox[d] = 1 .. Len(outbox[d])
      /\ log' \in Seq(Operations) /\ Len(log') = Len(log) + Len(outbox[d])
      /\ DOMAIN log' = 1 .. Len(log) + Len(outbox[d])
      /\ \A i \in 1 .. Len(log) : log'[i] = log[i]
      /\ \A i \in 1 .. Len(outbox[d]) : log'[Len(log) + i] = outbox[d][i]
  BY <1>2, <1>3
<1>5. outbox'[d] = <<>> /\ \A e \in Devices \ {d} : outbox'[e] = outbox[e]
  BY <1>2, <1>3
<1>6. Known' = Known
  <2>1. {log'[i] : i \in DOMAIN log'} = {log[i] : i \in DOMAIN log} \cup {outbox[d][k] : k \in DOMAIN outbox[d]}
    <3>1. ASSUME NEW i \in 1 .. Len(log) + Len(outbox[d])
          PROVE  \/ i \in 1 .. Len(log)
                 \/ \E k \in 1 .. Len(outbox[d]) : i = Len(log) + k
      <4>1. CASE i > Len(log)
        <5>1. i - Len(log) \in 1 .. Len(outbox[d]) /\ i = Len(log) + (i - Len(log))
          BY <1>4, <4>1
        <5> QED
          BY <5>1
      <4> QED
        BY <1>4, <4>1
    <3>2. /\ \A i \in 1 .. Len(log) : i \in 1 .. Len(log) + Len(outbox[d])
          /\ \A k \in 1 .. Len(outbox[d]) : Len(log) + k \in 1 .. Len(log) + Len(outbox[d])
      BY <1>4
    <3>3. ASSUME NEW j \in DOMAIN log'
          PROVE  (\E i \in DOMAIN log : log'[j] = log[i]) \/ (\E k \in DOMAIN outbox[d] : log'[j] = outbox[d][k])
      <4>1. CASE j \in 1 .. Len(log)
        BY <1>4, <4>1
      <4>2. CASE j \notin 1 .. Len(log)
        <5>1. PICK k \in 1 .. Len(outbox[d]) : j = Len(log) + k
          BY <1>4, <3>1, <4>2
        <5>2. log'[j] = outbox[d][k] /\ k \in DOMAIN outbox[d]
          BY <1>4, <5>1
        <5> QED
          BY <5>2
      <4> QED
        BY <4>1, <4>2
    <3>4. ASSUME NEW i \in DOMAIN log PROVE \E j \in DOMAIN log' : log[i] = log'[j]
      BY <1>4, <3>2
    <3>5. ASSUME NEW k \in DOMAIN outbox[d] PROVE \E j \in DOMAIN log' : outbox[d][k] = log'[j]
      BY <1>4, <3>2
    <3> QED
      BY <3>3, <3>4, <3>5
  <2> DEFINE accepted == {log[i] : i \in DOMAIN log}
             mine == {outbox[d][k] : k \in DOMAIN outbox[d]}
             others == UNION {{outbox[e][k] : k \in DOMAIN outbox[e]} : e \in Devices \ {d}}
  <2>2. {outbox'[d][k] : k \in DOMAIN outbox'[d]} = {}
    BY <1>5
  <2>3. UNION {{outbox[e][k] : k \in DOMAIN outbox[e]} : e \in Devices} = mine \cup others
    OBVIOUS
  <2>4. UNION {{outbox'[e][k] : k \in DOMAIN outbox'[e]} : e \in Devices} = others
    BY <1>5, <2>2
  <2>5. Known = accepted \cup (mine \cup others)
    BY <2>3 DEF Known
  <2>6. Known' = (accepted \cup mine) \cup others
    BY <2>1, <2>4 DEF Known
  <2> HIDE DEF accepted, mine, others
  <2> QED
    BY <2>5, <2>6
<1>7. \A e \in Devices : NextSequence(e)' = NextSequence(e)
  <2>1. ASSUME NEW e \in Devices PROVE Accepted(e)' = IF e = d THEN Accepted(e) + Len(outbox[d]) ELSE Accepted(e)
    <3>1. \A k \in DOMAIN outbox[d] : outbox[d][k].actor = d
      BY <1>1 DEF OperationInv
    <3>2. Count(log \o outbox[d], e) = IF e = d THEN Count(log, e) + Len(outbox[d]) ELSE Count(log, e)
      <4>1. PICK ops \in Seq(Operations) : ops = log
        BY <1>3
      <4>2. PICK more \in Seq(Operations) : more = outbox[d]
        BY <1>3
      <4>3. \A k \in DOMAIN more : more[k].actor = d
        BY <3>1, <4>2
      <4>4. CASE e = d
        <5>1. Count(ops \o more, d) = Count(ops, d) + Len(more)
          BY <4>3, CountOfConcatenation
        <5> QED
          BY <4>1, <4>2, <4>4, <5>1
      <4>5. CASE e # d
        <5>1. Count(ops \o more, e) = Count(ops, e)
          BY <4>3, <4>5, CountOfConcatenation
        <5> QED
          BY <4>1, <4>2, <4>5, <5>1
      <4> QED
        BY <4>4, <4>5
    <3>3. Accepted(e) = Count(log, e) /\ Accepted(e)' = Count(log', e)
      BY DEF Accepted, Count
    <3> QED
      BY <1>2, <3>2, <3>3
  <2>2. ASSUME NEW e \in Devices
        PROVE  /\ NextSequence(e) = 1 + Len(outbox[e]) + Accepted(e)
               /\ Len(outbox[e]) \in Nat /\ Accepted(e) \in Nat
    BY <1>1, AcceptedIsBounded
  <2>3. ASSUME NEW e \in Devices PROVE NextSequence(e)' = 1 + Len(outbox'[e]) + Accepted(e)'
    BY DEF NextSequence
  <2>4. Len(<<>>) = 0
    OBVIOUS
  <2>5. NextSequence(d)' = NextSequence(d)
    BY <1>4, <1>5, <2>1, <2>2, <2>3, <2>4
  <2>6. ASSUME NEW e \in Devices \ {d} PROVE NextSequence(e)' = NextSequence(e)
    BY <1>5, <2>1, <2>2, <2>3
  <2> QED
    BY <2>5, <2>6
<1>8. /\ session'[d].seed = session[d].seed /\ session'[d].ledger = session[d].ledger
      /\ session'[d].step = "pull" /\ session'[d] \in Sessions
      /\ \A e \in Devices \ {d} : session'[e] = session[e]
      /\ session' \in [Devices -> Sessions]
  <2>1. [session[d] EXCEPT !.step = "pull"] \in Sessions
    BY <1>3 DEF Sessions
  <2> QED
    BY <1>2, <1>3, <2>1 DEF Sessions
<1>9. TypeInv'
  <2>1. cursor' \in [Devices -> [Devices -> 0 .. Len(log')]]
    <3>1. 0 .. Len(log) \subseteq 0 .. Len(log')
      BY <1>4
    <3>2. cursor \in [Devices -> [Devices -> 0 .. Len(log)]]
      BY <1>1 DEF TypeInv
    <3> QED
      BY <1>2, <3>1, <3>2
  <2>2. outbox' \in [Devices -> Seq(Operations)]
    <3>1. <<>> \in Seq(Operations)
      OBVIOUS
    <3> QED
      BY <1>2, <1>3, <3>1
  <2> QED
    BY <1>1, <1>2, <1>4, <1>8, <2>1, <2>2 DEF TypeInv
<1>10. OperationInv'
  <2>1. ASSUME NEW o \in Known PROVE o.actor \in Devices
    BY <1>1, KnownAreOperations, OperationShape
  <2>2. \A e \in Devices : \A k \in DOMAIN outbox'[e] : outbox'[e][k].actor = e
    BY <1>1, <1>5 DEF OperationInv
  <2>3. \A o \in Known : Clock(o.actor)' = Clock(o.actor)
    BY <1>2 DEF Clock
  <2> QED
    BY <1>1, <1>2, <1>6, <1>7, <2>1, <2>2, <2>3 DEF OperationInv
<1>11. SessionInv'
  <2>1. ~At(d, "idle") /\ ~At(d, "commit")'
    BY <1>2, <1>8 DEF At
  <2>2. \E S \in SUBSET Known' : Stands(session'[d].ledger, session'[d].seed, S)
    BY <1>1, <1>6, <1>8, <2>1 DEF SessionInv
  <2> QED
    BY <1>1, <1>6, <1>8, <2>1, <2>2 DEF SessionInv, At
<1> QED
  BY <1>6, <1>9, <1>10, <1>11 DEF ReplicaInv

\* A session that ends leaves the others as they are.
LEMMA EndingKeepsReplica ==
    ASSUME ReplicaInv, NEW d \in Devices,
           session' = [session EXCEPT ![d] = NoClient],
           UNCHANGED <<now, outbox, log, cursor, conflicts>>,
           NEW entity \in Entities,
           \/ UNCHANGED <<workspace, baseline>>
           \/ /\ workspace' = [workspace EXCEPT ![d] = entity]
              /\ baseline' = [baseline EXCEPT ![d] = entity]
    PROVE  ReplicaInv'
<1>1. TypeInv /\ OperationInv /\ SessionInv
  BY DEF ReplicaInv
<1>2. /\ workspace \in [Devices -> Entities] /\ baseline \in [Devices -> Entities]
      /\ session \in [Devices -> Sessions]
  BY <1>1 DEF TypeInv
<1>3. TypeInv'
  <2>1. workspace' \in [Devices -> Entities] /\ baseline' \in [Devices -> Entities]
    BY <1>2
  <2>2. session' \in [Devices -> Sessions]
    BY <1>2, NoClientIsSession
  <2> QED
    BY <1>1, <2>1, <2>2 DEF TypeInv
<1>4. Known' = Known /\ \A e \in Devices : NextSequence(e)' = NextSequence(e)
  BY SequencesStay
<1>5. OperationInv'
  <2>1. \A o \in Known : o.actor \in Devices
    BY <1>1, KnownAreOperations, OperationShape
  <2>2. \A e \in Devices : workspace'[e] # baseline'[e] => workspace[e] # baseline[e]
    BY <1>2
  <2>3. \A e \in Devices : Clock(e)' = Clock(e)
    BY DEF Clock
  <2> QED
    BY <1>1, <1>4, <2>1, <2>2, <2>3 DEF OperationInv
<1>6. SessionInv'
  <2>1. session'[d].step = "idle" /\ \A e \in Devices \ {d} : session'[e] = session[e]
    BY <1>2, NoClientIsSession
  <2> QED
    BY <1>1, <1>4, <2>1 DEF SessionInv, At
<1> QED
  BY <1>3, <1>5, <1>6 DEF ReplicaInv

\* The replica stands for what the service has sent it, a valid document.
LEMMA PullStands ==
    ASSUME ReplicaInv, NEW d \in Devices, Pull(d)
    PROVE  /\ session' \in [Devices -> Sessions]
           /\ session'[d].step = "commit" /\ session'[d].seed = session[d].seed
           /\ \A e \in Devices \ {d} : session'[e] = session[e]
           /\ \E S \in SUBSET Known :
                 Stands(session'[d].ledger, session[d].seed, S \cup {Unseen(d)[i] : i \in DOMAIN Unseen(d)})
           /\ {Unseen(d)[i] : i \in DOMAIN Unseen(d)} \subseteq Known
           /\ session'[d].ledger = ApplyAll(session[d].ledger, Unseen(d))
           /\ Document(session'[d].ledger) \in Entities
<1>1. TypeInv /\ OperationInv /\ SessionInv
  BY DEF ReplicaInv
<1> DEFINE l == ApplyAll(session[d].ledger, Unseen(d))
<1>2. At(d, "pull") /\ ~Refused(d) /\ session' = [session EXCEPT ![d].step = "commit", ![d].ledger = l]
  BY DEF Pull
<1>3. session \in [Devices -> Sessions] /\ session[d] \in Sessions
  BY <1>1 DEF TypeInv
<1>4. session[d].seed \in Entities /\ session[d].ledger \in Ledgers
  BY <1>3 DEF Sessions
<1>5. PICK S \in SUBSET Known : Stands(session[d].ledger, session[d].seed, S)
  BY <1>1, <1>2 DEF SessionInv, At
<1>6. Known \in SUBSET Operations /\ Distinct(Known) /\ Unseen(d) \in Seq(Known)
  BY <1>1, KnownAreOperations, UnseenAreKnown DEF OperationInv
<1>7. /\ l \in Ledgers
      /\ Stands(l, session[d].seed, S \cup {Unseen(d)[i] : i \in DOMAIN Unseen(d)})
  <2>1. PICK K \in SUBSET Operations : K = Known
    BY <1>6
  <2>2. PICK seed \in Entities : seed = session[d].seed
    BY <1>4
  <2>3. PICK before \in Ledgers : before = session[d].ledger
    BY <1>4
  <2>4. PICK ops \in Seq(K) : ops = Unseen(d)
    BY <1>6, <2>1
  <2>5. Distinct(K) /\ S \in SUBSET K /\ Stands(before, seed, S)
    BY <1>5, <1>6, <2>1, <2>2, <2>3
  <2>6. ApplyAll(before, ops) \in Ledgers /\ Stands(ApplyAll(before, ops), seed, S \cup {ops[i] : i \in DOMAIN ops})
    BY <2>5, ApplyAllStands
  <2> QED
    BY <2>2, <2>3, <2>4, <2>6
<1>8. \A i \in DOMAIN Unseen(d) : Unseen(d)[i] \in Known
  BY <1>6
<1>9. Document(l) \in Entities
  <2>1. ~(Document(l).exists /\ Document(l).fields["id"] = NoValue)
    BY <1>2 DEF Refused, BatchFails
  <2> QED
    BY <1>7, <2>1, DocumentIsEntity
<1> HIDE DEF l
<1>10. /\ session' \in [Devices -> Sessions]
       /\ session'[d].step = "commit" /\ session'[d].seed = session[d].seed /\ session'[d].ledger = l
       /\ \A e \in Devices \ {d} : session'[e] = session[e]
  <2>1. PICK s \in Sessions : s = [session[d] EXCEPT !.step = "commit", !.ledger = l]
    BY <1>3, <1>7 DEF Sessions
  <2>2. s.step = "commit" /\ s.ledger = l /\ s.seed = session[d].seed
    BY <1>3, <2>1 DEF Sessions
  <2>3. session' = [session EXCEPT ![d] = s]
    BY <1>2, <1>3, <2>1
  <2> QED
    BY <1>3, <2>2, <2>3
<1>11. \E T \in SUBSET Known :
          Stands(session'[d].ledger, session[d].seed, T \cup {Unseen(d)[i] : i \in DOMAIN Unseen(d)})
  BY <1>7, <1>10
<1> QED
  BY <1>8, <1>9, <1>10, <1>11 DEF l

\* A pull keeps the invariant.
LEMMA PullKeepsReplica ==
    ASSUME ReplicaInv, NEW d \in Devices, Pull(d)
    PROVE  ReplicaInv'
<1>1. TypeInv /\ OperationInv /\ SessionInv
  BY DEF ReplicaInv
<1>2. UNCHANGED <<now, workspace, baseline, outbox, log, failures>>
  BY DEF Pull
<1>3. Known' = Known /\ \A e \in Devices : NextSequence(e)' = NextSequence(e)
  BY <1>2, SequencesStay
<1>4. /\ session' \in [Devices -> Sessions]
      /\ session'[d].step = "commit" /\ session'[d].seed = session[d].seed
      /\ \A e \in Devices \ {d} : session'[e] = session[e]
      /\ \E S \in SUBSET Known :
            Stands(session'[d].ledger, session[d].seed, S \cup {Unseen(d)[i] : i \in DOMAIN Unseen(d)})
      /\ {Unseen(d)[i] : i \in DOMAIN Unseen(d)} \subseteq Known
      /\ Document(session'[d].ledger) \in Entities
  BY PullStands
<1>5. conflicts' \in [Devices -> SUBSET Conflicts]
  <2>1. session'[d].ledger \in Ledgers /\ session'[d].ledger = ApplyAll(session[d].ledger, Unseen(d))
    BY <1>4, PullStands DEF Sessions
  <2>2. session'[d].ledger.conflicts \subseteq Conflicts
    BY <2>1 DEF Ledgers, Records
  <2>3. conflicts \in [Devices -> SUBSET Conflicts]
    BY <1>1 DEF TypeInv
  <2>4. \E more \in SUBSET session'[d].ledger.conflicts, kept \in SUBSET conflicts[d] :
           conflicts' = [conflicts EXCEPT ![d] = kept \cup more]
    BY <2>1 DEF Pull
  <2> QED
    BY <2>2, <2>3, <2>4
<1>6. cursor' \in [Devices -> [Devices -> 0 .. Len(log')]]
  <2>1. Reached \in [Devices -> 0 .. Len(log)]
    BY <1>1, AcceptedIsBounded DEF Reached
  <2>2. cursor' = [cursor EXCEPT ![d] = Reached] /\ cursor \in [Devices -> [Devices -> 0 .. Len(log)]]
    BY <1>1 DEF Pull, TypeInv
  <2> QED
    BY <1>2, <2>1, <2>2
<1>7. TypeInv'
  BY <1>1, <1>2, <1>4, <1>5, <1>6 DEF TypeInv
<1>8. OperationInv'
  <2>1. \A e : Clock(e)' = Clock(e)
    BY <1>2 DEF Clock
  <2>2. \A o \in Known : o.actor \in Devices
    BY <1>1, KnownAreOperations, OperationShape
  <2> QED
    BY <1>1, <1>2, <1>3, <2>1, <2>2 DEF OperationInv
<1>9. SessionInv'
  <2>1. \E S \in SUBSET Known' : Stands(session'[d].ledger, session'[d].seed, S)
    <3>1. PICK S \in SUBSET Known :
             Stands(session'[d].ledger, session[d].seed, S \cup {Unseen(d)[i] : i \in DOMAIN Unseen(d)})
      BY <1>4
    <3>2. PICK T : T = S \cup {Unseen(d)[i] : i \in DOMAIN Unseen(d)}
      OBVIOUS
    <3>3. T \in SUBSET Known'
      BY <1>3, <1>4, <3>2
    <3>4. Stands(session'[d].ledger, session'[d].seed, T)
      BY <1>4, <3>1, <3>2
    <3> QED
      BY <3>3, <3>4
  <2> QED
    BY <1>1, <1>3, <1>4, <2>1 DEF SessionInv, At
<1> QED
  BY <1>7, <1>8, <1>9 DEF ReplicaInv

\* Every step keeps the invariant.
LEMMA NextKeepsReplica == ReplicaInv /\ [Next]_vars => ReplicaInv'
<1> SUFFICES ASSUME ReplicaInv, [Next]_vars PROVE ReplicaInv'
  OBVIOUS
<1>1. TypeInv /\ SessionInv
  BY DEF ReplicaInv
<1>2. ASSUME NEW d \in Devices, SetField(d) \/ ToggleTag(d) \/ Delete(d) \/ Recreate(d) PROVE ReplicaInv'
  BY <1>1, <1>2, EditsAreEntities, EditedKeepsReplica
<1>3. ASSUME NEW d \in Devices, Capture(d) PROVE ReplicaInv'
  <2>1. Captured(d, workspace[d], {}) /\ now' = now /\ workspace[d] \in Entities /\ now' \in 0 .. MaxEdits
    BY <1>1, <1>3 DEF Capture, TypeInv
  <2> QED
    BY <2>1, CapturedKeepsReplica
<1>4. ASSUME NEW d \in Devices, Resolve(d) PROVE ReplicaInv'
  BY <1>1, <1>4, ResolveCaptures, CapturedKeepsReplica
<1>5. ASSUME NEW d \in Devices, Push(d) PROVE ReplicaInv'
  BY <1>5, PushKeepsReplica
<1>6. ASSUME NEW d \in Devices, Pull(d) PROVE ReplicaInv'
  BY <1>6, PullKeepsReplica
<1>7. ASSUME NEW d \in Devices, PullFails(d) \/ Fail(d) PROVE ReplicaInv'
  <2>1. /\ session' = [session EXCEPT ![d] = NoClient]
        /\ UNCHANGED <<now, outbox, log, cursor, conflicts>> /\ UNCHANGED <<workspace, baseline>>
    BY <1>7 DEF PullFails, Fail
  <2> QED
    BY <2>1, NoEntityIsEntity, EndingKeepsReplica
<1>8. ASSUME NEW d \in Devices, Commit(d) PROVE ReplicaInv'
  <2>1. /\ session' = [session EXCEPT ![d] = NoClient]
        /\ UNCHANGED <<now, outbox, log, cursor, conflicts>>
        /\ workspace' = [workspace EXCEPT ![d] = Document(session[d].ledger)]
        /\ baseline' = [baseline EXCEPT ![d] = Document(session[d].ledger)]
    BY <1>8 DEF Commit
  <2>2. Document(session[d].ledger) \in Entities
    BY <1>1, <1>8 DEF Commit, SessionInv, At
  <2> QED
    BY <2>1, <2>2, EndingKeepsReplica
<1>9. ASSUME UNCHANGED vars PROVE ReplicaInv'
  <2>1. /\ Known' = Known /\ \A e : NextSequence(e)' = NextSequence(e) /\ Clock(e)' = Clock(e)
    BY <1>9 DEF vars, Known, NextSequence, Accepted, Clock
  <2> QED
    BY <1>9, <2>1 DEF vars, ReplicaInv, TypeInv, OperationInv, SessionInv, At
<1> QED
  BY <1>2, <1>3, <1>4, <1>5, <1>6, <1>7, <1>8, <1>9 DEF Next

-----------------------------------------------------------------------------
(* Edits against the clock of their device *)

Foremost(d) == \A e \in Devices : Skew[e] <= Skew[d]

\* The clock of the foremost device is not behind any other.
LEMMA ForemostClock ==
    ASSUME NEW d \in Devices, Foremost(d), NEW e \in Devices, now' \in Nat
    PROVE  Clock(e)' \in Nat /\ Clock(d)' \in Nat /\ Clock(e)' <= Clock(d)'
<1>1. Skew[e] \in Nat /\ Skew[d] \in Nat /\ Skew[e] <= Skew[d]
  BY ClockAssumption DEF Foremost
<1> QED
  BY <1>1 DEF Clock

\* The document of a replica was changed when its seed was or when an operation
\* was made.
LEMMA DocumentIsCurrent ==
    ASSUME NEW seed \in Entities, NEW S \in SUBSET Operations, NEW l \in Ledgers, Stands(l, seed, S),
           NEW bound \in Nat, seed.exists => seed.fields["updatedAt"] <= bound,
           \A o \in S : "updatedAt" \in DOMAIN o.changes => o.changes["updatedAt"] <= bound,
           Document(l) \in Entities, Document(l).exists
    PROVE  Document(l).fields["updatedAt"] <= bound
<1>1. l.known /\ l.tombstone = Never /\ Document(l) = [exists |-> TRUE, fields |-> l.fields, tags |-> l.tags]
  BY NoEntityIsEntity DEF Document
<1>2. l.fields["updatedAt"] \in Nat
  BY <1>1, EntityShape
<1>3. <<l.stamps["updatedAt"], l.fields["updatedAt"]>> \in FieldContenders(seed, S, "updatedAt")
  BY <1>1, NamesAreDistinct DEF Stands, Latest
<1>4. \/ l.fields["updatedAt"] = Seed(seed).fields["updatedAt"]
      \/ \E o \in S : "updatedAt" \in DOMAIN o.changes /\ l.fields["updatedAt"] = o.changes["updatedAt"]
  BY <1>3 DEF FieldContenders
<1>5. CASE l.fields["updatedAt"] = Seed(seed).fields["updatedAt"]
  <2>1. Seed(seed).fields = seed.fields
    BY SeedIsLedger
  <2>2. seed.exists
    BY <1>2, <1>5, <2>1, EntityShape, NoEntityIsEntity, NamesAreDistinct
  <2> QED
    BY <1>1, <1>5, <2>1, <2>2
<1>6. CASE \E o \in S : "updatedAt" \in DOMAIN o.changes /\ l.fields["updatedAt"] = o.changes["updatedAt"]
  BY <1>1, <1>6
<1> QED
  BY <1>4, <1>5, <1>6

\* The foremost device starts current.
LEMMA InitCurrent ==
    ASSUME NEW d \in Devices, Init PROVE CurrentInv(d)
<1>1. PICK value \in Values : /\ workspace = [e \in Devices |-> Shared(value)]
                              /\ baseline = [e \in Devices |-> Shared(value)]
  BY DEF Init
<1>2. ReplicaInv /\ Known = {}
  <2>1. ReplicaInv
    BY InitReplica
  <2>2. DOMAIN log = {} /\ \A e \in Devices : DOMAIN outbox[e] = {}
    BY DEF Init
  <2> QED
    BY <2>1, <2>2 DEF Known
<1>3. Clock(d) \in Nat
  BY <1>2, ClockIsNatural DEF ReplicaInv
<1>4. \A e \in Devices : session[e] = NoClient
  BY DEF Init
<1>5. \A e \in Devices : /\ workspace[e] = Shared(value) /\ baseline[e] = Shared(value)
                         /\ ~session[e].seed.exists /\ session[e].step = "idle"
  BY <1>1, <1>4, NoClientIsSession
<1>6. Shared(value).fields["updatedAt"] <= Clock(d)
  <2>1. value \in Values /\ Shared(value).fields["updatedAt"] = 0
    BY <1>1, SharedIsEntity
  <2> QED
    BY <1>3, <2>1
<1>7. workspace[d] = baseline[d] /\ ~At(d, "push")
  BY <1>5 DEF At
<1> QED
  BY <1>2, <1>5, <1>6, <1>7 DEF CurrentInv

\* An edit keeps the foremost device current.
LEMMA EditedKeepsCurrent ==
    ASSUME ReplicaInv, NEW d \in Devices, Foremost(d), CurrentInv(d),
           NEW e \in Devices, NEW entity \in Entities, Edited(e, entity),
           entity.exists => entity.fields["updatedAt"] = Clock(e)'
    PROVE  CurrentInv(d)'
<1>1. /\ At(e, "idle") /\ now' = now + 1 /\ workspace' = [workspace EXCEPT ![e] = entity]
      /\ UNCHANGED <<baseline, outbox, log, cursor, conflicts, session>>
  BY DEF Edited, Touch
<1>2. TypeInv
  BY DEF ReplicaInv
<1>3. now \in Nat /\ Skew[d] \in Nat /\ Clock(d) = now + Skew[d] /\ Clock(d)' = Clock(d) + 1 /\ Clock(d) \in Nat
  BY <1>1, <1>2, ClockIsNatural DEF Clock
<1>4. Clock(e)' \in Nat /\ Clock(e)' <= Clock(d)'
  BY <1>1, <1>3, ForemostClock
<1>5. Known' = Known
  BY <1>1, SequencesStay
<1>6. /\ workspace'[e] = entity
      /\ \A a \in Devices \ {e} : workspace'[a] = workspace[a]
  BY <1>1, <1>2 DEF TypeInv
<1>7. \A a \in Devices : /\ workspace[a].exists => workspace[a].fields["updatedAt"] \in Nat
                         /\ baseline[a].exists => baseline[a].fields["updatedAt"] \in Nat
                         /\ session[a].seed.exists => session[a].seed.fields["updatedAt"] \in Nat
  BY <1>2, EntityShape DEF TypeInv, Sessions
<1>8. \A o \in Known : "updatedAt" \in DOMAIN o.changes => o.changes["updatedAt"] \in Nat
  BY <1>2, KnownAreOperations, OperationShape
<1>9. ASSUME NEW a \in Devices
      PROVE  /\ workspace'[a].exists => workspace'[a].fields["updatedAt"] <= Clock(d)'
             /\ baseline'[a].exists => baseline'[a].fields["updatedAt"] <= Clock(d)'
             /\ session'[a].seed.exists => session'[a].seed.fields["updatedAt"] <= Clock(d)'
  <2>1. workspace'[a].exists => workspace'[a].fields["updatedAt"] <= Clock(d)'
    <3>1. CASE a = e
      BY <1>4, <1>6, <3>1
    <3>2. CASE a # e
      BY <1>3, <1>6, <1>7, <3>2 DEF CurrentInv
    <3> QED
      BY <3>1, <3>2
  <2> QED
    BY <1>1, <1>3, <1>7, <2>1 DEF CurrentInv
<1>10. \A o \in Known' : "updatedAt" \in DOMAIN o.changes => o.changes["updatedAt"] <= Clock(d)'
  BY <1>3, <1>5, <1>8 DEF CurrentInv
<1>11. baseline'[d].exists => baseline'[d].fields["updatedAt"] < Clock(d)'
  BY <1>1, <1>3, <1>7 DEF CurrentInv
<1>12. At(d, "push")' => Document(session'[d].ledger) = workspace'[d]
  <2>1. CASE d = e
    BY <1>1, <2>1 DEF At
  <2>2. CASE d # e
    BY <1>1, <1>6, <2>2 DEF At, CurrentInv
  <2> QED
    BY <2>1, <2>2
<1> QED
  BY <1>9, <1>10, <1>11, <1>12 DEF CurrentInv

\* A capture keeps the foremost device current, and what it captures stands.
LEMMA CapturedKeepsCurrent ==
    ASSUME ReplicaInv, NEW d \in Devices, Foremost(d), CurrentInv(d),
           NEW e \in Devices, NEW entity \in Entities, NEW resolves \in SUBSET ConflictIds,
           Captured(e, entity, resolves), now' \in Nat,
           \/ now' = now /\ entity = workspace[e]
           \/ now' = now + 1 /\ (entity.exists => entity.fields["updatedAt"] = Clock(e)')
    PROVE  CurrentInv(d)'
<1>1. /\ workspace' = [workspace EXCEPT ![e] = entity]
      /\ baseline' = [baseline EXCEPT ![e] = entity]
      /\ \E l : session' = [session EXCEPT ![e] = [step |-> "push", seed |-> baseline[e], ledger |-> l]]
  BY DEF Captured
<1>2. TypeInv /\ OperationInv
  BY DEF ReplicaInv
<1>3. /\ workspace'[e] = entity /\ baseline'[e] = entity
      /\ session'[e].step = "push" /\ session'[e].seed = baseline[e]
      /\ \A a \in Devices \ {e} : workspace'[a] = workspace[a] /\ baseline'[a] = baseline[a] /\ session'[a] = session[a]
  BY <1>1, <1>2 DEF TypeInv
<1>4. /\ now \in Nat /\ Skew[d] \in Nat /\ Clock(d) \in Nat /\ Clock(d)' \in Nat
      /\ Clock(d) <= Clock(d)' /\ (now' = now + 1 => Clock(d) < Clock(d)')
      /\ (now' = now => Clock(d)' = Clock(d))
  BY <1>2, ClockIsNatural DEF Clock
<1>5. Clock(e)' \in Nat /\ Clock(e)' <= Clock(d)'
  BY ForemostClock
<1>6. \A a \in Devices : /\ workspace[a] \in Entities /\ baseline[a] \in Entities /\ session[a].seed \in Entities
                         /\ workspace[a].exists => workspace[a].fields["updatedAt"] \in Nat
                         /\ baseline[a].exists => baseline[a].fields["updatedAt"] \in Nat
                         /\ session[a].seed.exists => session[a].seed.fields["updatedAt"] \in Nat
  BY <1>2, EntityShape DEF TypeInv, Sessions
<1>7. entity.exists => entity.fields["updatedAt"] \in Nat /\ entity.fields["updatedAt"] <= Clock(d)'
  <2>1. CASE now' = now /\ entity = workspace[e]
    BY <1>4, <1>6, <2>1 DEF CurrentInv
  <2>2. CASE now' = now + 1 /\ (entity.exists => entity.fields["updatedAt"] = Clock(e)')
    BY <1>5, <2>2
  <2> QED
    BY <2>1, <2>2
<1>8. ASSUME NEW a \in Devices
      PROVE  /\ workspace'[a].exists => workspace'[a].fields["updatedAt"] <= Clock(d)'
             /\ baseline'[a].exists => baseline'[a].fields["updatedAt"] <= Clock(d)'
             /\ session'[a].seed.exists => session'[a].seed.fields["updatedAt"] <= Clock(d)'
  <2>1. /\ workspace[a].exists => workspace[a].fields["updatedAt"] <= Clock(d)'
        /\ baseline[a].exists => baseline[a].fields["updatedAt"] <= Clock(d)'
        /\ session[a].seed.exists => session[a].seed.fields["updatedAt"] <= Clock(d)'
    BY <1>4, <1>6 DEF CurrentInv
  <2>2. CASE a = e
    BY <1>3, <1>7, <2>1, <2>2
  <2>3. CASE a # e
    BY <1>3, <2>1, <2>3
  <2> QED
    BY <2>2, <2>3
<1>9. \/ /\ entity = baseline[e] /\ Known' = Known /\ session'[e].ledger = Seed(baseline[e])
      \/ /\ entity # baseline[e]
         /\ \E op \in Operations :
               /\ Known' = Known \cup {op} /\ session'[e].ledger = Apply(Seed(baseline[e]), op)
               /\ Makes(op, baseline[e], entity, resolves, e, NextSequence(e), Clock(e)')
  BY <1>2, CapturedShape
<1>10. \A o \in Known' : "updatedAt" \in DOMAIN o.changes => o.changes["updatedAt"] <= Clock(d)'
  <2>1. \A o \in Known : "updatedAt" \in DOMAIN o.changes =>
            o.changes["updatedAt"] \in Nat /\ o.changes["updatedAt"] <= Clock(d)
    BY <1>2, KnownAreOperations, OperationShape DEF CurrentInv
  <2>2. \A o \in Known : "updatedAt" \in DOMAIN o.changes => o.changes["updatedAt"] <= Clock(d)'
    BY <1>4, <2>1
  <2>3. ASSUME NEW op \in Operations,
               Makes(op, baseline[e], entity, resolves, e, NextSequence(e), Clock(e)'),
               "updatedAt" \in DOMAIN op.changes
        PROVE  op.changes["updatedAt"] <= Clock(d)'
    BY <1>7, <2>3 DEF Makes
  <2> QED
    BY <1>9, <2>2, <2>3
<1>11. workspace'[d] # baseline'[d] /\ baseline'[d].exists => baseline'[d].fields["updatedAt"] < Clock(d)'
  <2>1. CASE d = e
    BY <1>3, <2>1
  <2>2. CASE d # e
    BY <1>3, <1>4, <1>6, <2>2 DEF CurrentInv
  <2> QED
    BY <2>1, <2>2
<1>12. At(d, "push")' => Document(session'[d].ledger) = workspace'[d]
  <2>1. CASE d # e
    BY <1>3, <2>1 DEF At, CurrentInv
  <2>2. CASE d = e /\ entity = baseline[e] /\ session'[e].ledger = Seed(baseline[e])
    BY <1>3, <1>6, <2>2, SeedDocument
  <2>3. CASE d = e /\ entity # baseline[e]
    <3>1. PICK op \in Operations :
             /\ session'[e].ledger = Apply(Seed(baseline[e]), op)
             /\ Makes(op, baseline[e], entity, resolves, e, NextSequence(e), Clock(e)')
      BY <1>9, <2>3
    <3>2. PICK old \in Entities, w \in Nat, s \in Nat : old = baseline[e] /\ w = Clock(e)' /\ s = NextSequence(e)
      BY <1>2, <1>5, <1>6, AcceptedIsBounded
    <3>3. old.exists => old.fields["updatedAt"] < w
      BY <1>4, <1>6, <2>3, <3>2 DEF CurrentInv
    <3>4. CASE entity.exists
      <4>1. op = Upsert(old, entity, resolves, e, s, <<w, 0, e>>)
        BY <3>1, <3>2, <3>4 DEF Makes
      <4>2. Document(Apply(Seed(old), op)) = entity
        BY <3>3, <3>4, <4>1, CapturedUpsertStands
      <4> QED
        BY <1>3, <2>3, <3>1, <3>2, <4>2
    <3>5. CASE ~entity.exists
      <4>1. op.action = "delete"
        BY <3>1, <3>5 DEF Makes
      <4>2. Document(Apply(Seed(old), op)) = NoEntity
        BY <4>1, CapturedDeletionStands
      <4>3. entity = NoEntity
        BY <3>5, EntityShape
      <4> QED
        BY <1>3, <2>3, <3>1, <3>2, <4>2, <4>3
    <3> QED
      BY <3>4, <3>5
  <2> QED
    BY <1>9, <2>1, <2>2, <2>3
<1> QED
  BY <1>8, <1>10, <1>11, <1>12 DEF CurrentInv

\* Every step keeps the foremost device current.
LEMMA NextKeepsCurrent ==
    ASSUME NEW d \in Devices, Foremost(d)
    PROVE  ReplicaInv /\ CurrentInv(d) /\ [Next]_vars => CurrentInv(d)'
<1> SUFFICES ASSUME ReplicaInv, CurrentInv(d), [Next]_vars PROVE CurrentInv(d)'
  OBVIOUS
<1>1. TypeInv /\ OperationInv /\ SessionInv /\ TypeInv'
  BY NextKeepsReplica DEF ReplicaInv
<1>2. Clock(d) \in Nat /\ now \in Nat /\ now' \in Nat
  BY <1>1, ClockIsNatural, BoundAssumption DEF TypeInv
<1>3. ASSUME NEW e \in Devices, SetField(e) \/ ToggleTag(e) \/ Delete(e) \/ Recreate(e) PROVE CurrentInv(d)'
  BY <1>1, <1>3, EditsAreEntities, EditedKeepsCurrent
<1>4. ASSUME NEW e \in Devices, Capture(e) PROVE CurrentInv(d)'
  <2>1. Captured(e, workspace[e], {}) /\ now' = now /\ workspace[e] \in Entities
    BY <1>1, <1>4 DEF Capture, TypeInv
  <2> QED
    BY <1>2, <2>1, CapturedKeepsCurrent
<1>5. ASSUME NEW e \in Devices, Resolve(e) PROVE CurrentInv(d)'
  BY <1>1, <1>2, <1>5, ResolveCaptures, CapturedKeepsCurrent
<1>6. ASSUME NEW e \in Devices, Push(e) PROVE CurrentInv(d)'
  <2>1. Known' = Known
    BY <1>6, PushKeepsReplica
  <2>2. /\ UNCHANGED <<now, workspace, baseline>> /\ session' = [session EXCEPT ![e].step = "pull"]
    BY <1>6 DEF Push
  <2>3. /\ \A a \in Devices : session'[a].seed = session[a].seed /\ session'[a].ledger = session[a].ledger
        /\ At(d, "push")' => At(d, "push")
    <3>1. session \in [Devices -> Sessions] /\ session[e] \in Sessions
      BY <1>1 DEF TypeInv
    <3>2. session'[e] = [session[e] EXCEPT !.step = "pull"] /\ \A a \in Devices \ {e} : session'[a] = session[a]
      BY <2>2, <3>1
    <3>3. session'[e].step = "pull" /\ session'[e].seed = session[e].seed /\ session'[e].ledger = session[e].ledger
      BY <3>1, <3>2 DEF Sessions
    <3> QED
      BY <3>2, <3>3 DEF At
  <2> QED
    BY <2>1, <2>2, <2>3 DEF CurrentInv, Clock
<1>7. ASSUME NEW e \in Devices, Pull(e) PROVE CurrentInv(d)'
  <2>1. UNCHANGED <<now, workspace, baseline, outbox, log>>
    BY <1>7 DEF Pull
  <2>2. Known' = Known
    BY <2>1, SequencesStay
  <2>3. session'[e].step = "commit" /\ session'[e].seed = session[e].seed
        /\ \A a \in Devices \ {e} : session'[a] = session[a]
    BY <1>7, PullStands
  <2> QED
    BY <2>1, <2>2, <2>3 DEF CurrentInv, Clock, At
<1>8. ASSUME NEW e \in Devices, PullFails(e) \/ Fail(e) PROVE CurrentInv(d)'
  <2>1. UNCHANGED <<now, workspace, baseline, outbox, log>> /\ session' = [session EXCEPT ![e] = NoClient]
    BY <1>8 DEF PullFails, Fail
  <2>2. Known' = Known
    BY <2>1, SequencesStay
  <2>3. session'[e] = NoClient /\ \A a \in Devices \ {e} : session'[a] = session[a]
    BY <1>1, <2>1 DEF TypeInv
  <2> QED
    BY <2>1, <2>2, <2>3, NoClientIsSession DEF CurrentInv, Clock, At
<1>9. ASSUME NEW e \in Devices, Commit(e) PROVE CurrentInv(d)'
  <2> DEFINE entity == Document(session[e].ledger)
  <2>1. /\ At(e, "commit") /\ UNCHANGED <<now, outbox, log>> /\ session' = [session EXCEPT ![e] = NoClient]
        /\ workspace' = [workspace EXCEPT ![e] = entity] /\ baseline' = [baseline EXCEPT ![e] = entity]
    BY <1>9 DEF Commit
  <2>2. Known' = Known
    BY <2>1, SequencesStay
  <2>3. /\ session'[e] = NoClient /\ workspace'[e] = entity /\ baseline'[e] = entity
        /\ \A a \in Devices \ {e} : session'[a] = session[a] /\ workspace'[a] = workspace[a] /\ baseline'[a] = baseline[a]
    BY <1>1, <2>1 DEF TypeInv
  <2>4. entity.exists => entity.fields["updatedAt"] <= Clock(d)
    <3>1. PICK S \in SUBSET Known : Stands(session[e].ledger, session[e].seed, S)
      BY <1>1, <2>1 DEF SessionInv, At
    <3>2. entity \in Entities
      BY <1>1, <2>1 DEF SessionInv, At
    <3>3. session[e].seed \in Entities /\ session[e].ledger \in Ledgers
      BY <1>1 DEF TypeInv, Sessions
    <3>4. S \in SUBSET Operations
      BY <1>1, KnownAreOperations
    <3>5. PICK bound \in Nat : bound = Clock(d)
      BY <1>2
    <3>6. /\ session[e].seed.exists => session[e].seed.fields["updatedAt"] <= bound
          /\ \A o \in S : "updatedAt" \in DOMAIN o.changes => o.changes["updatedAt"] <= bound
      BY <3>5 DEF CurrentInv
    <3> QED
      BY <3>1, <3>2, <3>3, <3>4, <3>5, <3>6, DocumentIsCurrent
  <2> HIDE DEF entity
  <2>5. Clock(d)' = Clock(d)
    BY <2>1 DEF Clock
  <2> QED
    BY <2>2, <2>3, <2>4, <2>5, NoClientIsSession DEF CurrentInv, At
<1>10. ASSUME UNCHANGED vars PROVE CurrentInv(d)'
  <2>1. Known' = Known /\ Clock(d)' = Clock(d)
    BY <1>10 DEF vars, Known, Clock
  <2> QED
    BY <1>10, <2>1 DEF vars, CurrentInv, At
<1> QED
  BY <1>3, <1>4, <1>5, <1>6, <1>7, <1>8, <1>9, <1>10 DEF Next


-----------------------------------------------------------------------------
(* Theorems *)

\* What the replicas hold and what their ledgers stand for, at every moment.
THEOREM ReplicaInvariance == Spec => []ReplicaInv
<1>1. Init => ReplicaInv
  BY InitReplica
<1>2. ReplicaInv /\ [Next]_vars => ReplicaInv'
  BY NextKeepsReplica
<1> QED
  BY <1>1, <1>2, PTL DEF Spec

\* The types of the run follow from those of the proof.
LEMMA ReplicaTypes == ReplicaInv => LedgerTypeOK
<1> SUFFICES ASSUME ReplicaInv PROVE LedgerTypeOK
  OBVIOUS
<1>1. TypeInv
  BY DEF ReplicaInv
<1>2. ASSUME NEW e \in Entities
      PROVE  /\ \A n \in Names : e.fields[n] \in FieldValues
             /\ e.tags \subseteq Tags
             /\ e.exists => e.fields["id"] # NoValue
  BY EntityShape, NamesAreDistinct
<1>3. ASSUME NEW d \in Devices
      PROVE  /\ workspace[d] \in Entities /\ baseline[d] \in Entities /\ session[d].seed \in Entities
             /\ session[d].ledger.tags \subseteq Tags
             /\ cursor[d] \in [Devices -> 0 .. Len(log)]
             /\ \A c \in conflicts[d] : c.existing # c.incoming
  <2>1. session[d].seed \in Entities /\ session[d].ledger \in Ledgers
    BY <1>1 DEF TypeInv, Sessions
  <2>2. session[d].ledger.tags \subseteq Tags
    BY <2>1 DEF Ledgers, Records
  <2>3. conflicts[d] \subseteq Conflicts
    BY <1>1 DEF TypeInv
  <2>4. \A c \in conflicts[d] : c.existing # c.incoming
    BY <2>3 DEF Conflicts
  <2> QED
    BY <1>1, <2>1, <2>2, <2>4 DEF TypeInv
<1>4. ASSUME NEW i \in DOMAIN log
      PROVE  /\ log[i].action = "delete" => DOMAIN log[i].changes = {}
             /\ log[i].added \cap log[i].removed = {}
  <2>1. log[i] \in Operations
    BY <1>1 DEF TypeInv
  <2> QED
    BY <2>1 DEF Operations
<1> QED
  BY <1>1, <1>2, <1>3, <1>4 DEF LedgerTypeOK, TypeInv

\* Operations are told apart by what replicas remember of them.
LEMMA IdentitiesTell ==
    ASSUME NEW K, Distinct(K), NEW S \in SUBSET K, NEW T \in SUBSET K,
           {Identity(o) : o \in S} = {Identity(o) : o \in T}
    PROVE  S = T
<1>1. ASSUME NEW o \in S PROVE o \in T
  <2>1. PICK p \in T : Identity(o) = Identity(p)
    OBVIOUS
  <2> QED
    BY <2>1 DEF Distinct
<1>2. ASSUME NEW o \in T PROVE o \in S
  <2>1. PICK p \in S : Identity(o) = Identity(p)
    OBVIOUS
  <2> QED
    BY <2>1 DEF Distinct
<1> QED
  BY <1>1, <1>2

\* Replicas that know the same agree.
LEMMA ReplicasOfInvAgree == ReplicaInv => ReplicasAgree
<1> SUFFICES ASSUME ReplicaInv, NEW d \in Devices, NEW e \in Devices,
                    session[d].step # "idle", session[e].step # "idle",
                    session[d].seed = session[e].seed,
                    session[d].ledger.applied = session[e].ledger.applied
             PROVE  Document(session[d].ledger) = Document(session[e].ledger)
  BY DEF ReplicasAgree
<1>1. TypeInv /\ Distinct(Known) /\ SessionInv
  BY DEF ReplicaInv, OperationInv
<1>2. PICK S \in SUBSET Known : Stands(session[d].ledger, session[d].seed, S)
  BY <1>1 DEF SessionInv, At
<1>3. PICK T \in SUBSET Known : Stands(session[e].ledger, session[e].seed, T)
  BY <1>1 DEF SessionInv, At
<1>4. {Identity(o) : o \in S} = {Identity(o) : o \in T}
  BY <1>2, <1>3 DEF Stands
<1>5. S = T
  BY <1>1, <1>4, IdentitiesTell
<1>6. S \in SUBSET Operations /\ Distinct(S)
  <2>1. Known \in SUBSET Operations
    BY <1>1, KnownAreOperations
  <2> QED
    BY <1>1, <2>1 DEF Distinct
<1>7. session[d].seed \in Entities /\ session[d].ledger \in Ledgers /\ session[e].ledger \in Ledgers
  BY <1>1 DEF TypeInv, Sessions
<1> QED
  BY <1>2, <1>3, <1>5, <1>6, <1>7, DocumentIsDetermined

\* Replicas hold what their types say, and two of them that were made from the same
\* document and have applied the same operations stand for the same document, in
\* whatever order they were told (OperationLedger.apply).
THEOREM LedgerInvariance == Spec => []LedgerInv
<1>1. ReplicaInv => LedgerInv
  BY ReplicaTypes, ReplicasOfInvAgree DEF LedgerInv
<1> QED
  BY <1>1, ReplicaInvariance, PTL

\* A device whose clock no other is ahead of never argues with its user: the edit it
\* has captured is what its own replica stands for (captureWorkspaceChanges).
THEOREM ForemostKeepsEdits ==
    ASSUME NEW CONSTANT d \in Devices, Foremost(d)
    PROVE  Spec => [](At(d, "push") => Document(session[d].ledger) = workspace[d])
<1>1. Init => CurrentInv(d)
  BY InitCurrent
<1>2. ReplicaInv /\ CurrentInv(d) /\ [Next]_vars => CurrentInv(d)'
  BY NextKeepsCurrent
<1>3. CurrentInv(d) => (At(d, "push") => Document(session[d].ledger) = workspace[d])
  BY DEF CurrentInv
<1> QED
  BY <1>1, <1>2, <1>3, ReplicaInvariance, PTL DEF Spec

\* No device argues with its user where the clocks agree.  (With clocks that differ
\* this is false of a device that is behind.)
THEOREM CaptureKeepsEditsInvariance ==
    ASSUME \A d, e \in Devices : Skew[d] = Skew[e]
    PROVE  Spec => []CaptureKeepsEdits
<1> DEFINE Current == \A d \in Devices : CurrentInv(d)
<1>1. \A d \in Devices : Foremost(d)
  <2>1. \A d \in Devices : Skew[d] \in Nat
    BY ClockAssumption
  <2> QED
    BY <2>1 DEF Foremost
<1>2. Init => Current
  BY InitCurrent
<1>3. ReplicaInv /\ Current /\ [Next]_vars => Current'
  BY <1>1, NextKeepsCurrent
<1>4. Current => CaptureKeepsEdits
  BY DEF CurrentInv, CaptureKeepsEdits
<1> QED
  BY <1>2, <1>3, <1>4, ReplicaInvariance, PTL DEF Spec

\* Only a pull leads from pull to commit.
LEMMA OnlyPullCommits ==
    ASSUME TypeInv, Next, NEW d \in Devices, At(d, "pull"), At(d, "commit")'
    PROVE  Pull(d)
<1>1. session \in [Devices -> Sessions]
  BY DEF TypeInv
<1>2. PICK e \in Devices :
         \/ SetField(e) \/ ToggleTag(e) \/ Delete(e) \/ Recreate(e)
         \/ Capture(e) \/ Resolve(e)
         \/ Push(e) \/ Pull(e) \/ PullFails(e) \/ Commit(e)
         \/ Fail(e)
  BY DEF Next
<1>3. session[d].step = "pull" /\ session'[d].step = "commit"
  BY DEF At
<1>4. CASE SetField(e) \/ ToggleTag(e) \/ Delete(e) \/ Recreate(e)
  <2>1. session' = session
    BY <1>4, EditsAreEntities DEF Edited
  <2> QED
    BY <1>3, <2>1
<1>5. CASE Capture(e) \/ Resolve(e)
  <2>1. \E l, s : session' = [session EXCEPT ![e] = [step |-> "push", seed |-> s, ledger |-> l]]
    BY <1>5 DEF Capture, Resolve, Captured
  <2> QED
    BY <1>1, <1>3, <2>1
<1>6. CASE Push(e)
  <2>1. session' = [session EXCEPT ![e].step = "pull"]
    BY <1>6 DEF Push
  <2>2. e = d => session'[d].step = "pull"
    BY <1>1, <2>1 DEF Sessions
  <2>3. e # d => session'[d] = session[d]
    BY <1>1, <2>1
  <2> QED
    BY <1>3, <2>2, <2>3
<1>7. CASE Pull(e)
  <2>1. e # d => session'[d] = session[d]
    BY <1>1, <1>7 DEF Pull
  <2> QED
    BY <1>3, <1>7, <2>1
<1>8. CASE PullFails(e) \/ Commit(e) \/ Fail(e)
  <2>1. session' = [session EXCEPT ![e] = NoClient]
    BY <1>8 DEF PullFails, Commit, Fail
  <2>2. e = d => session'[d].step = "idle"
    BY <1>1, <2>1, NoClientIsSession
  <2>3. e # d => session'[d] = session[d]
    BY <1>1, <2>1
  <2> QED
    BY <1>3, <2>2, <2>3
<1> QED
  BY <1>2, <1>4, <1>5, <1>6, <1>7, <1>8

\* What a pull brings the resolution of is not on the list.
LEMMA PullSettles ==
    ASSUME ReplicaInv, NEW d \in Devices, Pull(d), session'[d].ledger.tombstone = Never
    PROVE  {c.id : c \in conflicts'[d]} \cap Resolved(d) = {}
<1> DEFINE arrived == {Unseen(d)[i] : i \in DOMAIN Unseen(d)}
<1>1. PICK S \in SUBSET Known : Stands(session'[d].ledger, session[d].seed, S \cup arrived)
  BY PullStands
<1>2. PICK l : l = session'[d].ledger
  OBVIOUS
<1>3. /\ \A c \in l.conflicts : c.id \notin l.resolved
      /\ \A o \in arrived : o.resolves \subseteq l.resolved
  BY <1>1, <1>2 DEF Stands
<1>4. Resolved(d) \subseteq l.resolved
  BY <1>3 DEF Resolved
<1>5. ASSUME NEW c \in conflicts'[d] PROVE c.id \notin Resolved(d)
  <2>1. TypeInv
    BY DEF ReplicaInv
  <2>2. l = ApplyAll(session[d].ledger, Unseen(d))
    BY <1>2, <2>1 DEF TypeInv, Sessions, Pull
  <2>3. conflicts'[d] = {k \in conflicts[d] : k.id \notin Resolved(d)} \cup
            {k \in l.conflicts : k.id \notin {j.id : j \in {k2 \in conflicts[d] : k2.id \notin Resolved(d)}}}
    BY <2>1, <2>2 DEF TypeInv, Pull
  <2>4. c.id \notin Resolved(d) \/ c \in l.conflicts
    BY <2>3
  <2> QED
    BY <1>3, <1>4, <2>4
<1> QED
  BY <1>5

\* Nobody is asked about a conflict by the synchronization that brings its
\* resolution, whatever the order of the operations, unless the entity is deleted
\* (SyncClient.synchronize, OperationLedger.apply).
THEOREM ResolvedStaysSettled == Spec => ResolvedIsSettled
<1>1. ReplicaInv /\ [Next]_vars =>
          [\A d \in Devices :
              At(d, "pull") /\ At(d, "commit")' /\ session'[d].ledger.tombstone = Never =>
                  {c.id : c \in conflicts'[d]} \cap Resolved(d) = {}]_vars
  <2> SUFFICES ASSUME ReplicaInv, Next, NEW d \in Devices,
                      At(d, "pull"), At(d, "commit")', session'[d].ledger.tombstone = Never
               PROVE  {c.id : c \in conflicts'[d]} \cap Resolved(d) = {}
    OBVIOUS
  <2>1. Pull(d)
    BY OnlyPullCommits DEF ReplicaInv
  <2> QED
    BY <2>1, PullSettles
<1> QED
  BY <1>1, ReplicaInvariance, PTL DEF Spec, ResolvedIsSettled
=============================================================================
