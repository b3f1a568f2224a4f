----------------------- MODULE WorkspaceOpeningProofs -----------------------
(***************************************************************************)
(* Proofs about WorkspaceOpening and the saves of SavePipeline: with no    *)
(* overlap (Overlap = {}) what is shown is what was saved, what was saved  *)
(* is kept (OpeningInv), and no save goes back behind an earlier one       *)
(* (NoRegression), for any notes, edits, failures, damages and recoveries. *)
(*                                                                         *)
(* The saves without an answer are steps between what the renderer         *)
(* believes to be stored and what it shows; an edit that takes nothing     *)
(* back keeps them in order, so that a change set computed from the first  *)
(* leads from any of them to its snapshot.                                 *)
(***************************************************************************)
EXTENDS WorkspaceOpening, SequenceTheorems, TLAPS

-----------------------------------------------------------------------------
(* The inductive invariant *)

\* No note is shown and in the trash.
Tidy(w) == \A i \in Items : w.items[i] = 0 \/ w.trash[i] = 0

\* The workspaces that n edits may have made.
Works(n) == {w \in Workspace : Tidy(w) /\ w.stamp \in (0 .. n) \cup {None}}

Change == [items : [upsert : UNION {[X -> 0 .. MaxVersion] : X \in SUBSET Items}, remove : SUBSET Items],
           trash : [upsert : UNION {[X -> 0 .. MaxVersion] : X \in SUBSET Items}, remove : SUBSET Items],
           stamp : Stamps \cup {None}]

Kinds == {"add", "update", "passive", "retry"}

Saves(n) == [snapshot : Works(n), change : Change, kind : Kinds, before : Works(n),
             attempt : Nat, result : {"sent", "ok", "failed"}]

TypeInv ==
    /\ edits \in 0 .. MaxEdits
    /\ stored \in Works(edits) /\ (stored = Absent \/ stored.stamp # None)
    /\ data \in Works(edits) /\ lastPersisted \in Works(edits)
    /\ inflight \in Seq(Saves(edits))
    /\ effect \in BOOLEAN /\ skip \in (0 .. edits) \cup {None}
    /\ attempt \in Nat /\ passive \in 0 .. attempt
    /\ status \in {"saving", "saved", "failed"}
    /\ truth \in Works(edits)
    /\ backups \subseteq {w \in Works(edits) : w.stamp # None}
    /\ aside \subseteq Works(edits) /\ replaced \subseteq Works(edits)
    /\ recovery \in [error : {"database", "legacy"}, source : Works(edits)] \cup {None}
    /\ deferred \in BOOLEAN
    /\ screen \in {"off", "usable", "recovery"}
    /\ database \in {"sound", "damaged", "unreadable"} /\ schema \in {"first", "current"}
    /\ legacy \in {None, "sound", "unreadable", "unchecked"}
    /\ migration \in {"idle", "running", "committed", "accepted", "failed"}

\* The steps from what is believed to be stored to what is shown.
Steps == 0 .. Len(inflight) + 1
Step(k) ==
    IF k = 0 THEN lastPersisted
    ELSE IF k <= Len(inflight) THEN inflight[k].snapshot ELSE data

Gone(w, i) == w.items[i] = 0 /\ w.trash[i] = 0
Version(w, i) == w.items[i] + w.trash[i]

\* A note may get a newer version from one workspace to the other, not an older one.
Advances(v, w) == \A i \in Items : Gone(v, i) \/ Gone(w, i) \/ Version(v, i) <= Version(w, i)

\* What is so in the first and the last of three steps is so in the second.
Between(p, q, r) == (p <=> r) => (p <=> q)

Turns(u, v, w) ==
    \A i \in Items :
        /\ Between(u.items[i] = 0, v.items[i] = 0, w.items[i] = 0)
        /\ Between(u.trash[i] = 0, v.trash[i] = 0, w.trash[i] = 0)
        /\ Between(Gone(u, i), Gone(v, i), Gone(w, i))

\* Along the steps notes get newer, and come and go once.
StepsInOrder ==
    /\ \A a, b \in Steps : a <= b => Advances(Step(a), Step(b))
    /\ \A a, b, c \in Steps : a <= b /\ b <= c => Turns(Step(a), Step(b), Step(c))

\* A change set leads from every earlier step to its snapshot.
SavesLead ==
    \A k \in DOMAIN inflight : \A a \in 0 .. k - 1 :
        AfterChanges(Step(a), inflight[k].change) = inflight[k].snapshot

\* What is stored is the snapshot of the newest save that succeeded.
StoredIsStep ==
    \E m \in 0 .. Len(inflight) :
        /\ Projection = Step(m)
        /\ m # 0 => inflight[m].result = "ok"
        /\ \A k \in m + 1 .. Len(inflight) : inflight[k].result # "ok"

QueueInOrder ==
    /\ \A k \in DOMAIN inflight :
          /\ inflight[k].attempt \in 1 .. attempt
          /\ inflight[k].snapshot.stamp # None
          /\ inflight[k].kind = "add" =>
                /\ inflight[k].before.stamp # None
                /\ \A a \in 0 .. k - 1 : Advances(Step(a), inflight[k].before)
    /\ \A j, k \in DOMAIN inflight :
          j < k => /\ inflight[j].attempt < inflight[k].attempt
                   /\ inflight[j].result = "sent" => inflight[k].result = "sent"

LastSave == inflight[Len(inflight)]

\* What is shown is stored, or on its way, or the user knows that it is not.
Settled ==
    \/ status = "failed"
    \/ inflight = <<>> /\ data = lastPersisted
    \/ inflight # <<>> /\ LastSave.snapshot = data /\ Reports(LastSave)

\* An effect that will save.
Waiting == effect /\ skip # data.stamp

StatusInOrder ==
    /\ status = "failed" => inflight = <<>>
    /\ Explicit => /\ LastSave.kind \in {"add", "update"}
                   /\ LastSave.snapshot = data /\ LastSave.attempt = attempt
    /\ Waiting \/ Settled
    /\ skip = data.stamp /\ inflight # <<>> => LastSave.kind # "passive"
    /\ Waiting => /\ inflight # <<>> => lastPersisted # data
                  /\ \A k \in 1 .. Len(inflight) - 1 : inflight[k].snapshot # data

PageInv ==
    /\ data.stamp # None
    /\ StepsInOrder /\ SavesLead /\ StoredIsStep /\ QueueInOrder /\ StatusInOrder

Kept == backups \cup aside \cup (IF legacy = None THEN {} ELSE {Legacy})

UsableInv ==
    screen = "usable" => PageInv /\ truth = Projection /\ database = "sound"

\* Without a usable page nothing is shown, nothing in flight and nothing deferred.
ClosedInv ==
    screen # "usable" => /\ NoPage /\ ~deferred /\ migration = "idle"

\* What the next start will find is the user's work, or the user erased it.
OffInv ==
    screen = "off" =>
        /\ recovery = None
        /\ \/ truth = IF stored = Absent /\ legacy # None THEN Legacy ELSE stored
           \/ truth = Absent /\ stored = Absent /\ legacy = "unreadable"

RecoveryInv ==
    screen = "recovery" =>
        \/ recovery = None /\ database = "unreadable" /\ stored # Absent /\ truth = stored
        \/ /\ recovery # None /\ stored = Absent /\ recovery.source \in Kept
           /\ \/ recovery.error = "database" /\ truth = recovery.source
              \/ /\ recovery.error = "legacy" /\ legacy = "unreadable"
                 /\ recovery.source = Legacy /\ truth \in {Absent, Legacy}

DiskInv ==
    /\ database # "sound" => stored # Absent
    /\ deferred => /\ legacy \in {"sound", "unchecked"} /\ migration # "accepted"
                   /\ stored = IF migration = "committed" THEN Legacy ELSE Absent
    /\ migration \in {"running", "committed"} => deferred
    /\ replaced \subseteq Kept \cup {Absent}

OpeningOrder == TypeInv /\ UsableInv /\ ClosedInv /\ OffInv /\ RecoveryInv /\ DiskInv

-----------------------------------------------------------------------------
(* Workspaces *)

\* What a workspace is.
LEMMA WorksShape ==
    ASSUME NEW n \in Nat, NEW w \in Works(n)
    PROVE  /\ w \in Workspace /\ Tidy(w)
           /\ w.items \in [Items -> 0 .. MaxVersion] /\ w.trash \in [Items -> 0 .. MaxVersion]
           /\ w.stamp \in (0 .. n) \cup {None}
           /\ w = [items |-> w.items, trash |-> w.trash, stamp |-> w.stamp]
<1>1. w \in Workspace /\ Tidy(w) /\ w.stamp \in (0 .. n) \cup {None}
  BY DEF Works
<1> QED
  BY <1>1 DEF Workspace, Versions

\* How workspaces are made.
LEMMA WorkMade ==
    ASSUME NEW n \in 0 .. MaxEdits, NEW items \in [Items -> 0 .. MaxVersion], NEW trash \in [Items -> 0 .. MaxVersion],
           NEW stamp \in (0 .. n) \cup {None}, \A i \in Items : items[i] = 0 \/ trash[i] = 0
    PROVE  [items |-> items, trash |-> trash, stamp |-> stamp] \in Works(n)
<1> DEFINE w == [items |-> items, trash |-> trash, stamp |-> stamp]
<1>1. stamp \in Stamps \cup {None}
  BY PipelineAssumption DEF Stamps
<1>2. w \in Workspace
  BY <1>1 DEF Workspace, Versions
<1> QED
  BY <1>2 DEF Works, Tidy

\* More edits, more workspaces.
LEMMA WorksGrow ==
    ASSUME NEW n \in Nat, NEW m \in Nat, n <= m PROVE Works(n) \subseteq Works(m)
  BY DEF Works

\* The workspaces there are at the beginning.
LEMMA FirstWorks ==
    ASSUME NEW n \in 0 .. MaxEdits
    PROVE  /\ Absent \in Works(n) /\ Empty \in Works(n) /\ Filled \in Works(n)
           /\ Absent.stamp = None /\ Empty.stamp = 0 /\ Filled.stamp = 0 /\ None # 0
           /\ \A i \in Items : Gone(Absent, i) /\ Gone(Empty, i)
<1>1. None # 0 /\ 0 \in 0 .. MaxVersion /\ 1 \in 0 .. MaxVersion /\ n \in Nat /\ 0 \in 0 .. n
  BY PipelineAssumption
<1>2. /\ Absent = [items |-> Nothing, trash |-> Nothing, stamp |-> None]
      /\ Empty = [items |-> Nothing, trash |-> Nothing, stamp |-> 0]
      /\ Filled = [items |-> [i \in Items |-> IF i \in First THEN 1 ELSE 0], trash |-> Nothing, stamp |-> 0]
  <2>1. Absent = [items |-> Nothing, trash |-> Nothing, stamp |-> None]
    BY DEF Absent
  <2>2. Empty = [items |-> Nothing, trash |-> Nothing, stamp |-> 0]
    BY <2>1 DEF Empty
  <2> DEFINE first == [i \in Items |-> IF i \in First THEN 1 ELSE 0]
  <2>3. Filled = [Empty EXCEPT !.items = first]
    BY DEF Filled
  <2> HIDE DEF first
  <2>4. Filled = [items |-> first, trash |-> Nothing, stamp |-> 0]
    BY <2>2, <2>3
  <2> QED
    BY <2>1, <2>2, <2>4 DEF first
<1>3. Nothing \in [Items -> 0 .. MaxVersion] /\ \A i \in Items : Nothing[i] = 0
  BY <1>1 DEF Nothing
<1>4. [i \in Items |-> IF i \in First THEN 1 ELSE 0] \in [Items -> 0 .. MaxVersion]
  BY <1>1
<1>5. Absent \in Works(n) /\ Empty \in Works(n) /\ Filled \in Works(n)
  BY <1>1, <1>2, <1>3, <1>4, WorkMade
<1> QED
  BY <1>1, <1>2, <1>3, <1>5 DEF Gone

-----------------------------------------------------------------------------
(* Change sets *)

\* What changes on a shelf.
LEMMA ChangedShape ==
    ASSUME NEW f \in [Items -> 0 .. MaxVersion], NEW g \in [Items -> 0 .. MaxVersion]
    PROVE  /\ Changed(f, g) \in [upsert : UNION {[X -> 0 .. MaxVersion] : X \in SUBSET Items}, remove : SUBSET Items]
           /\ \A i \in Items :
                 /\ i \in DOMAIN Changed(f, g).upsert <=> g[i] # 0 /\ g[i] # f[i]
                 /\ i \in DOMAIN Changed(f, g).upsert => Changed(f, g).upsert[i] = g[i]
                 /\ i \in Changed(f, g).remove <=> f[i] # 0 /\ g[i] = 0
<1> DEFINE X == {i \in Items : g[i] \notin {0, f[i]}}
<1>1. Changed(f, g) = [upsert |-> [i \in X |-> g[i]], remove |-> {i \in Items : f[i] # 0 /\ g[i] = 0}]
  BY DEF Changed, Restrict
<1>2. [i \in X |-> g[i]] \in [X -> 0 .. MaxVersion] /\ X \in SUBSET Items
  OBVIOUS
<1>3. [i \in X |-> g[i]] \in UNION {[Y -> 0 .. MaxVersion] : Y \in SUBSET Items}
  BY <1>2
<1> QED
  BY <1>1, <1>3

\* A change set is one.
LEMMA ChangeSetIsChange ==
    ASSUME NEW n \in 0 .. MaxEdits, NEW v \in Works(n), NEW w \in Works(n)
    PROVE  /\ ChangeSet(v, w) \in Change
           /\ ChangeSet(v, w).items = Changed(v.items, w.items)
           /\ ChangeSet(v, w).trash = Changed(v.trash, w.trash)
           /\ ChangeSet(v, w).stamp = w.stamp
<1>1. /\ v.items \in [Items -> 0 .. MaxVersion] /\ v.trash \in [Items -> 0 .. MaxVersion]
      /\ w.items \in [Items -> 0 .. MaxVersion] /\ w.trash \in [Items -> 0 .. MaxVersion]
      /\ w.stamp \in Stamps \cup {None}
  BY WorksShape, PipelineAssumption DEF Stamps
<1> QED
  BY <1>1, ChangedShape DEF ChangeSet, Change

\* A note that keeps its place or passes through it is carried along by a change
\* set of one shelf.
LEMMA ShelfLeads ==
    ASSUME NEW f \in [Items -> 0 .. MaxVersion], NEW g \in [Items -> 0 .. MaxVersion],
           NEW h \in [Items -> 0 .. MaxVersion],
           \A i \in Items : f[i] = h[i] => g[i] = h[i]
    PROVE  Merged(g, Changed(f, h)) = h
<1>1. \A i \in Items :
         (IF i \in DOMAIN Changed(f, h).upsert THEN Changed(f, h).upsert[i]
          ELSE IF i \in Changed(f, h).remove THEN 0 ELSE g[i]) = h[i]
  BY ChangedShape
<1> QED
  BY <1>1 DEF Merged

\* Where nothing is taken back, the change set from the first to the last of three
\* workspaces leads from the second to the last.
LEMMA ChangeLeads ==
    ASSUME NEW n \in 0 .. MaxEdits, NEW u \in Works(n), NEW v \in Works(n), NEW w \in Works(n),
           Turns(u, v, w), Advances(u, v), Advances(v, w)
    PROVE  AfterChanges(v, ChangeSet(u, w)) = w
<1>1. \A x \in {u, v, w} :
         /\ x.items \in [Items -> 0 .. MaxVersion] /\ x.trash \in [Items -> 0 .. MaxVersion]
         /\ \A i \in Items : x.items[i] = 0 \/ x.trash[i] = 0
         /\ x = [items |-> x.items, trash |-> x.trash, stamp |-> x.stamp]
  BY WorksShape DEF Tidy
<1>2. ASSUME NEW i \in Items
      PROVE  /\ u.items[i] = w.items[i] => v.items[i] = w.items[i]
             /\ u.trash[i] = w.trash[i] => v.trash[i] = w.trash[i]
  <2>1. \A x \in {u, v, w} : x.items[i] \in Nat /\ x.trash[i] \in Nat /\ (x.items[i] = 0 \/ x.trash[i] = 0)
    BY <1>1, PipelineAssumption
  <2>2. /\ (u.items[i] = 0 <=> w.items[i] = 0) => (u.items[i] = 0 <=> v.items[i] = 0)
        /\ (u.trash[i] = 0 <=> w.trash[i] = 0) => (u.trash[i] = 0 <=> v.trash[i] = 0)
    BY DEF Turns, Between
  <2>3. /\ Gone(u, i) \/ Gone(v, i) \/ Version(u, i) <= Version(v, i)
        /\ Gone(v, i) \/ Gone(w, i) \/ Version(v, i) <= Version(w, i)
    BY DEF Advances
  <2> QED
    BY <2>1, <2>2, <2>3 DEF Gone, Version
<1>3. Merged(v.items, Changed(u.items, w.items)) = w.items
  BY <1>1, <1>2, ShelfLeads
<1>4. Merged(v.trash, Changed(u.trash, w.trash)) = w.trash
  BY <1>1, <1>2, ShelfLeads
<1>5. AfterChanges(v, ChangeSet(u, w)) = [items |-> w.items, trash |-> w.trash, stamp |-> w.stamp]
  BY <1>3, <1>4, ChangeSetIsChange DEF AfterChanges
<1> QED
  BY <1>1, <1>5

\* A note that is not there and does not arrive with a save is not there after it.
LEMMA NotArriving ==
    ASSUME NEW n \in 0 .. MaxEdits, NEW v \in Works(n), NEW w \in Works(n), NEW change \in Change,
           AfterChanges(v, change) = w, NEW i \in Items
    PROVE  /\ v.items[i] = 0 /\ i \notin DOMAIN change.items.upsert => w.items[i] = 0
           /\ v.trash[i] = 0 /\ i \notin DOMAIN change.trash.upsert => w.trash[i] = 0
<1>1. w.items = Merged(v.items, change.items) /\ w.trash = Merged(v.trash, change.trash)
  BY DEF AfterChanges
<1> QED
  BY <1>1 DEF Merged

-----------------------------------------------------------------------------
(* Steps *)

\* What the steps are.
LEMMA StepShape ==
    ASSUME TypeInv
    PROVE  /\ Len(inflight) \in Nat /\ DOMAIN inflight = 1 .. Len(inflight)
           /\ \A k \in DOMAIN inflight : inflight[k] \in Saves(edits)
           /\ \A k \in Steps : Step(k) \in Works(edits)
           /\ Step(0) = lastPersisted /\ Step(Len(inflight) + 1) = data
           /\ \A k \in DOMAIN inflight : Step(k) = inflight[k].snapshot
           /\ edits \in 0 .. MaxEdits /\ edits \in Nat
<1>1. /\ inflight \in Seq(Saves(edits)) /\ data \in Works(edits) /\ lastPersisted \in Works(edits)
      /\ edits \in 0 .. MaxEdits
  BY DEF TypeInv
<1>2. /\ Len(inflight) \in Nat /\ DOMAIN inflight = 1 .. Len(inflight)
      /\ \A k \in DOMAIN inflight : inflight[k] \in Saves(edits)
  BY <1>1
<1>3. \A k \in DOMAIN inflight : inflight[k].snapshot \in Works(edits)
  BY <1>2 DEF Saves
<1>4. edits \in Nat
  BY <1>1, PipelineAssumption
<1> QED
  BY <1>1, <1>2, <1>3, <1>4 DEF Steps, Step

\* The workspace w may be shown next.
Follows(w) ==
    /\ \A a \in 0 .. Len(inflight) : Advances(Step(a), w)
    /\ \A a, b \in 0 .. Len(inflight) : a <= b => Turns(Step(a), Step(b), w)

\* What is shown follows itself.
LEMMA DataFollows ==
    ASSUME TypeInv, StepsInOrder PROVE Follows(data)
<1>1. /\ Len(inflight) \in Nat /\ Step(Len(inflight) + 1) = data
      /\ 0 .. Len(inflight) \subseteq Steps /\ Len(inflight) + 1 \in Steps
  BY StepShape DEF Steps
<1>2. \A a \in 0 .. Len(inflight) : a <= Len(inflight) + 1
  BY <1>1
<1> QED
  BY <1>1, <1>2 DEF StepsInOrder, Follows

\* Every workspace advances to itself.
LEMMA AdvancesToItself ==
    ASSUME NEW n \in Nat, NEW w \in Works(n)
    PROVE  Advances(w, w) /\ \A u : Turns(u, w, w)
<1>1. \A i \in Items : Version(w, i) \in Nat
  <2>1. w.items \in [Items -> 0 .. MaxVersion] /\ w.trash \in [Items -> 0 .. MaxVersion]
    BY WorksShape
  <2> QED
    BY <2>1, PipelineAssumption DEF Version
<1> QED
  BY <1>1 DEF Advances, Turns, Between

\* Steps that are left out, repeated, or followed by what may be shown next stay in
\* order.
LEMMA StepsStayInOrder ==
    ASSUME StepsInOrder, Len(inflight) \in Nat, NEW n \in Nat, NEW w \in Works(n), Follows(w), NEW f,
           \A k \in Steps' : /\ f[k] \in Steps
                             /\ f[k] # Len(inflight) + 1 => Step(k)' = Step(f[k])
                             /\ f[k] = Len(inflight) + 1 => Step(k)' = w,
           \A j, k \in Steps' : j <= k => f[j] <= f[k]
    PROVE  StepsInOrder'
<1> DEFINE last == Len(inflight) + 1
<1>1. \A k \in Steps : k # last => k \in 0 .. Len(inflight) /\ k < last
  BY DEF Steps
<1>2. Advances(w, w) /\ \A u : Turns(u, w, w)
  BY AdvancesToItself
<1>3. \A j, k \in Steps' : j <= k /\ f[j] = last => f[k] = last
  BY <1>1
<1>4. ASSUME NEW a \in Steps', NEW b \in Steps', a <= b
      PROVE  Advances(Step(a)', Step(b)')
  <2>1. f[a] \in Steps /\ f[b] \in Steps /\ f[a] <= f[b]
    BY <1>4
  <2>2. CASE f[b] # last
    <3>1. f[a] # last
      BY <1>3, <1>4, <2>2
    <3> QED
      BY <2>1, <2>2, <3>1 DEF StepsInOrder
  <2>3. CASE f[b] = last /\ f[a] # last
    BY <1>1, <2>1, <2>3 DEF Follows
  <2>4. CASE f[b] = last /\ f[a] = last
    BY <1>2, <2>4
  <2> QED
    BY <2>2, <2>3, <2>4
<1>5. ASSUME NEW a \in Steps', NEW b \in Steps', NEW c \in Steps', a <= b, b <= c
      PROVE  Turns(Step(a)', Step(b)', Step(c)')
  <2>1. f[a] \in Steps /\ f[b] \in Steps /\ f[c] \in Steps /\ f[a] <= f[b] /\ f[b] <= f[c]
    BY <1>5
  <2>2. CASE f[c] # last
    <3>1. f[a] # last /\ f[b] # last
      BY <1>1, <2>1, <2>2
    <3> QED
      BY <2>1, <2>2, <3>1 DEF StepsInOrder
  <2>3. CASE f[c] = last /\ f[b] # last
    <3>1. f[a] # last
      BY <1>1, <2>1, <2>3
    <3> QED
      BY <1>1, <2>1, <2>3, <3>1 DEF Follows
  <2>4. CASE f[c] = last /\ f[b] = last
    BY <1>2, <2>4
  <2> QED
    BY <2>2, <2>3, <2>4
<1> QED
  BY <1>4, <1>5 DEF StepsInOrder

-----------------------------------------------------------------------------
(* Edits *)

\* A workspace that differs in one note follows what is shown if that note does.
LEMMA NoteFollows ==
    ASSUME TypeInv, StepsInOrder, NEW i \in Items, NEW w,
           \A j \in Items \ {i} : w.items[j] = data.items[j] /\ w.trash[j] = data.trash[j],
           \A a \in 0 .. Len(inflight) :
               Gone(Step(a), i) \/ Gone(w, i) \/ Version(Step(a), i) <= Version(w, i),
           \A a, b \in 0 .. Len(inflight) : a <= b =>
               /\ Between(Step(a).items[i] = 0, Step(b).items[i] = 0, w.items[i] = 0)
               /\ Between(Step(a).trash[i] = 0, Step(b).trash[i] = 0, w.trash[i] = 0)
               /\ Between(Gone(Step(a), i), Gone(Step(b), i), Gone(w, i))
    PROVE  Follows(w)
<1>1. Follows(data)
  BY DataFollows
<1>2. ASSUME NEW a \in 0 .. Len(inflight) PROVE Advances(Step(a), w)
  <2>1. Advances(Step(a), data)
    BY <1>1 DEF Follows
  <2> QED
    BY <2>1 DEF Advances, Gone, Version
<1>3. ASSUME NEW a \in 0 .. Len(inflight), NEW b \in 0 .. Len(inflight), a <= b
      PROVE  Turns(Step(a), Step(b), w)
  <2>1. Turns(Step(a), Step(b), data)
    BY <1>1, <1>3 DEF Follows
  <2>2. ASSUME NEW j \in Items
        PROVE  /\ Between(Step(a).items[j] = 0, Step(b).items[j] = 0, w.items[j] = 0)
               /\ Between(Step(a).trash[j] = 0, Step(b).trash[j] = 0, w.trash[j] = 0)
               /\ Between(Gone(Step(a), j), Gone(Step(b), j), Gone(w, j))
    <3>1. CASE j = i
      BY <1>3, <3>1
    <3>2. CASE j # i
      <4>1. w.items[j] = data.items[j] /\ w.trash[j] = data.trash[j]
        BY <3>2
      <4> QED
        BY <2>1, <4>1 DEF Turns, Gone
    <3> QED
      BY <3>1, <3>2
  <2> QED
    BY <2>2 DEF Turns
<1> QED
  BY <1>2, <1>3 DEF Follows

\* What an edit makes of the workspace shown.
LEMMA WithShape ==
    ASSUME TypeInv, edits < MaxEdits, NEW i \in Items, NEW version \in 0 .. MaxVersion,
           NEW trashed \in 0 .. MaxVersion, version = 0 \/ trashed = 0
    PROVE  LET w == With(data, i, version, trashed) IN
           /\ w \in Works(edits + 1) /\ w.stamp = edits + 1
           /\ w.items[i] = version /\ w.trash[i] = trashed
           /\ \A j \in Items \ {i} : w.items[j] = data.items[j] /\ w.trash[j] = data.trash[j]
<1>1. edits \in Nat /\ edits + 1 \in 0 .. MaxEdits
  BY StepShape, PipelineAssumption
<1>2. /\ data.items \in [Items -> 0 .. MaxVersion] /\ data.trash \in [Items -> 0 .. MaxVersion]
      /\ \A j \in Items : data.items[j] = 0 \/ data.trash[j] = 0
  BY <1>1, WorksShape DEF TypeInv, Tidy
<1> DEFINE items == [data.items EXCEPT ![i] = version]
           trash == [data.trash EXCEPT ![i] = trashed]
<1>3. items \in [Items -> 0 .. MaxVersion] /\ trash \in [Items -> 0 .. MaxVersion]
  BY <1>2
<1>4. /\ items[i] = version /\ trash[i] = trashed
      /\ \A j \in Items \ {i} : items[j] = data.items[j] /\ trash[j] = data.trash[j]
  BY <1>2
<1>5. \A j \in Items : items[j] = 0 \/ trash[j] = 0
  BY <1>2, <1>4
<1>6. With(data, i, version, trashed) = [items |-> items, trash |-> trash, stamp |-> edits + 1]
  BY DEF With
<1> HIDE DEF items, trash
<1>7. edits + 1 \in (0 .. edits + 1) \cup {None}
  BY <1>1
<1> QED
  BY <1>1, <1>3, <1>4, <1>5, <1>6, <1>7, WorkMade

\* A note on the way to no shelf is nowhere on the way.
LEMMA NowhereOnTheWay ==
    ASSUME TypeInv, SavesLead, NEW i \in Items
    PROVE  /\ lastPersisted.items[i] = 0 /\ i \notin Arriving("items") =>
                  \A a \in 0 .. Len(inflight) : Step(a).items[i] = 0
           /\ lastPersisted.trash[i] = 0 /\ i \notin Arriving("trash") =>
                  \A a \in 0 .. Len(inflight) : Step(a).trash[i] = 0
<1>1. ASSUME NEW a \in 0 .. Len(inflight)
      PROVE  /\ lastPersisted.items[i] = 0 /\ i \notin Arriving("items") => Step(a).items[i] = 0
             /\ lastPersisted.trash[i] = 0 /\ i \notin Arriving("trash") => Step(a).trash[i] = 0
  <2>1. CASE a = 0
    BY <2>1, StepShape
  <2>2. CASE a # 0
    <3>1. a \in DOMAIN inflight /\ inflight[a] \in Saves(edits) /\ Step(a) = inflight[a].snapshot
      BY <2>2, StepShape
    <3>2. AfterChanges(lastPersisted, inflight[a].change) = inflight[a].snapshot
      <4>1. 0 \in 0 .. a - 1
        BY <3>1, StepShape
      <4> QED
        BY <3>1, <4>1, StepShape DEF SavesLead
    <3>3. inflight[a].change \in Change /\ inflight[a].snapshot \in Works(edits) /\ lastPersisted \in Works(edits)
      BY <3>1 DEF Saves, TypeInv
    <3>4. /\ i \notin Arriving("items") => i \notin DOMAIN inflight[a].change.items.upsert
          /\ i \notin Arriving("trash") => i \notin DOMAIN inflight[a].change.trash.upsert
      BY <3>1 DEF Arriving
    <3> QED
      BY <3>1, <3>2, <3>3, <3>4, NotArriving, StepShape
  <2> QED
    BY <2>1, <2>2
<1> QED
  BY <1>1

\* One note along the steps to what is shown.
LEMMA NoteOnTheWay ==
    ASSUME TypeInv, StepsInOrder, NEW i \in Items
    PROVE  /\ \A a \in 0 .. Len(inflight) :
                 /\ Step(a).items[i] \in Nat /\ Step(a).trash[i] \in Nat
                 /\ Step(a).items[i] = 0 \/ Step(a).trash[i] = 0
                 /\ Gone(Step(a), i) \/ Gone(data, i) \/ Version(Step(a), i) <= Version(data, i)
           /\ \A a, b \in 0 .. Len(inflight) : a <= b =>
                 /\ Between(Step(a).items[i] = 0, Step(b).items[i] = 0, data.items[i] = 0)
                 /\ Between(Step(a).trash[i] = 0, Step(b).trash[i] = 0, data.trash[i] = 0)
                 /\ Between(Gone(Step(a), i), Gone(Step(b), i), Gone(data, i))
           /\ data.items[i] \in 0 .. MaxVersion /\ data.trash[i] \in 0 .. MaxVersion
           /\ data.items[i] = 0 \/ data.trash[i] = 0
           /\ 0 \in 0 .. Len(inflight) /\ Step(0) = lastPersisted
           /\ \A a \in 0 .. Len(inflight) : 0 <= a
<1>1. Follows(data)
  BY DataFollows
<1>2. ASSUME NEW a \in 0 .. Len(inflight)
      PROVE  /\ Step(a).items[i] \in Nat /\ Step(a).trash[i] \in Nat
             /\ Step(a).items[i] = 0 \/ Step(a).trash[i] = 0
  <2>1. Step(a) \in Works(edits) /\ edits \in Nat
    BY StepShape DEF Steps
  <2>2. Step(a).items \in [Items -> 0 .. MaxVersion] /\ Step(a).trash \in [Items -> 0 .. MaxVersion] /\ Tidy(Step(a))
    BY <2>1, WorksShape
  <2> QED
    BY <2>2, PipelineAssumption DEF Tidy
<1>3. /\ data.items[i] \in 0 .. MaxVersion /\ data.trash[i] \in 0 .. MaxVersion
      /\ data.items[i] = 0 \/ data.trash[i] = 0
  <2>1. data.items \in [Items -> 0 .. MaxVersion] /\ data.trash \in [Items -> 0 .. MaxVersion] /\ Tidy(data)
    BY StepShape, WorksShape DEF TypeInv
  <2> QED
    BY <2>1 DEF Tidy
<1>4. Len(inflight) \in Nat /\ Step(0) = lastPersisted
  BY StepShape
<1> QED
  BY <1>1, <1>2, <1>3, <1>4 DEF Follows, Advances, Turns

\* A newer version of a note follows.
LEMMA UpdateFollows ==
    ASSUME TypeInv, StepsInOrder, edits < MaxEdits,
           NEW i \in Items, data.items[i] \in 1 .. MaxVersion - 1, NEW w, w = With(data, i, data.items[i] + 1, 0)
    PROVE  Follows(w)
<1>1. data.items[i] + 1 \in 0 .. MaxVersion /\ 0 \in 0 .. MaxVersion /\ data.items[i] \in Nat \ {0}
  BY PipelineAssumption
<1>2. /\ w.items[i] = data.items[i] + 1 /\ w.trash[i] = 0
      /\ \A j \in Items \ {i} : w.items[j] = data.items[j] /\ w.trash[j] = data.trash[j]
  BY <1>1, WithShape
<1>3. data.trash[i] = 0
  BY <1>1, NoteOnTheWay
<1>4. (w.items[i] = 0 <=> data.items[i] = 0) /\ (w.trash[i] = 0 <=> data.trash[i] = 0) /\ (Gone(w, i) <=> Gone(data, i))
  BY <1>1, <1>2, <1>3 DEF Gone
<1>5. Version(data, i) <= Version(w, i) /\ Version(data, i) \in Nat /\ Version(w, i) \in Nat
  BY <1>1, <1>2, <1>3 DEF Version
<1>6. ASSUME NEW a \in 0 .. Len(inflight)
      PROVE  Gone(Step(a), i) \/ Gone(w, i) \/ Version(Step(a), i) <= Version(w, i)
  <2>1. Gone(Step(a), i) \/ Version(Step(a), i) <= Version(data, i)
    BY <1>1, NoteOnTheWay DEF Gone
  <2>2. Version(Step(a), i) \in Nat
    BY NoteOnTheWay DEF Version
  <2> QED
    BY <1>5, <2>1, <2>2
<1>7. ASSUME NEW a \in 0 .. Len(inflight), NEW b \in 0 .. Len(inflight), a <= b
      PROVE  /\ Between(Step(a).items[i] = 0, Step(b).items[i] = 0, w.items[i] = 0)
             /\ Between(Step(a).trash[i] = 0, Step(b).trash[i] = 0, w.trash[i] = 0)
             /\ Between(Gone(Step(a), i), Gone(Step(b), i), Gone(w, i))
  <2>1. /\ Between(Step(a).items[i] = 0, Step(b).items[i] = 0, data.items[i] = 0)
        /\ Between(Step(a).trash[i] = 0, Step(b).trash[i] = 0, data.trash[i] = 0)
        /\ Between(Gone(Step(a), i), Gone(Step(b), i), Gone(data, i))
    BY <1>7, NoteOnTheWay
  <2> QED
    BY <1>4, <2>1 DEF Between
<1> QED
  BY <1>2, <1>6, <1>7, NoteFollows

\* A note put into the trash follows, unless it is on its way to the items.
LEMMA DeletionFollows ==
    ASSUME TypeInv, StepsInOrder, SavesLead, edits < MaxEdits,
           NEW i \in Items, data.items[i] # 0,
           ~(lastPersisted.items[i] = 0 /\ i \in Arriving("items")),
           NEW w, w = With(data, i, 0, data.items[i])
    PROVE  Follows(w)
<1>1. data.items[i] \in 0 .. MaxVersion /\ 0 \in 0 .. MaxVersion /\ data.trash[i] = 0 /\ data.items[i] \in Nat
  BY NoteOnTheWay, PipelineAssumption
<1>2. /\ w.items[i] = 0 /\ w.trash[i] = data.items[i]
      /\ \A j \in Items \ {i} : w.items[j] = data.items[j] /\ w.trash[j] = data.trash[j]
  BY <1>1, WithShape
<1>3. Version(data, i) = Version(w, i) /\ ~Gone(w, i) /\ ~Gone(data, i)
  BY <1>1, <1>2 DEF Version, Gone
<1>4. CASE lastPersisted.items[i] = 0
  <2>1. \A a \in 0 .. Len(inflight) : Step(a).items[i] = 0
    BY <1>4, NowhereOnTheWay
  <2>2. \A a \in 0 .. Len(inflight) : lastPersisted.trash[i] # 0 => Step(a).trash[i] # 0
    <3>1. \A a \in 0 .. Len(inflight) : Between(Gone(lastPersisted, i), Gone(Step(a), i), Gone(data, i))
      BY NoteOnTheWay
    <3> QED
      BY <1>3, <2>1, <3>1 DEF Between, Gone
  <2>3. \A a \in 0 .. Len(inflight) : lastPersisted.trash[i] = 0 => Step(a).trash[i] = 0
    <3>1. \A a \in 0 .. Len(inflight) : Between(lastPersisted.trash[i] = 0, Step(a).trash[i] = 0, data.trash[i] = 0)
      BY NoteOnTheWay
    <3> QED
      BY <1>1, <3>1 DEF Between
  <2>4. \A a, b \in 0 .. Len(inflight) :
           /\ Step(a).items[i] = 0 <=> Step(b).items[i] = 0
           /\ Step(a).trash[i] = 0 <=> Step(b).trash[i] = 0
    BY <2>1, <2>2, <2>3
  <2>5. \A a, b \in 0 .. Len(inflight) :
           /\ Between(Step(a).items[i] = 0, Step(b).items[i] = 0, w.items[i] = 0)
           /\ Between(Step(a).trash[i] = 0, Step(b).trash[i] = 0, w.trash[i] = 0)
           /\ Between(Gone(Step(a), i), Gone(Step(b), i), Gone(w, i))
    BY <2>4 DEF Between, Gone
  <2>6. \A a \in 0 .. Len(inflight) :
           Gone(Step(a), i) \/ Gone(w, i) \/ Version(Step(a), i) <= Version(w, i)
    BY <1>3, NoteOnTheWay
  <2> QED
    BY <1>2, <2>5, <2>6, NoteFollows
<1>5. CASE lastPersisted.items[i] # 0
  <2>1. \A a \in 0 .. Len(inflight) : Step(a).items[i] # 0
    <3>1. \A a \in 0 .. Len(inflight) : Between(lastPersisted.items[i] = 0, Step(a).items[i] = 0, data.items[i] = 0)
      BY NoteOnTheWay
    <3> QED
      BY <1>5, <3>1 DEF Between
  <2>2. \A a \in 0 .. Len(inflight) : Step(a).trash[i] = 0
    BY <2>1, NoteOnTheWay
  <2>4. \A a, b \in 0 .. Len(inflight) :
           /\ Step(a).items[i] = 0 <=> Step(b).items[i] = 0
           /\ Step(a).trash[i] = 0 <=> Step(b).trash[i] = 0
    BY <2>1, <2>2
  <2>5. \A a, b \in 0 .. Len(inflight) :
           /\ Between(Step(a).items[i] = 0, Step(b).items[i] = 0, w.items[i] = 0)
           /\ Between(Step(a).trash[i] = 0, Step(b).trash[i] = 0, w.trash[i] = 0)
           /\ Between(Gone(Step(a), i), Gone(Step(b), i), Gone(w, i))
    BY <2>4 DEF Between, Gone
  <2>6. \A a \in 0 .. Len(inflight) :
           Gone(Step(a), i) \/ Gone(w, i) \/ Version(Step(a), i) <= Version(w, i)
    BY <1>3, NoteOnTheWay
  <2> QED
    BY <1>2, <2>5, <2>6, NoteFollows
<1> QED
  BY <1>4, <1>5

\* A note that leaves the trash, to the items or for good, follows, unless it is on
\* its way to the trash.
LEMMA LeavingTrashFollows ==
    ASSUME TypeInv, StepsInOrder, SavesLead, edits < MaxEdits,
           NEW i \in Items, data.trash[i] # 0,
           ~(lastPersisted.trash[i] = 0 /\ i \in Arriving("trash")),
           NEW version, version = data.trash[i] \/ version = 0,
           NEW w, w = With(data, i, version, 0)
    PROVE  Follows(w)
<1>1. /\ data.trash[i] \in 0 .. MaxVersion /\ 0 \in 0 .. MaxVersion /\ data.items[i] = 0 /\ data.trash[i] \in Nat
      /\ version \in 0 .. MaxVersion
  BY NoteOnTheWay, PipelineAssumption
<1>2. /\ w.items[i] = version /\ w.trash[i] = 0
      /\ \A j \in Items \ {i} : w.items[j] = data.items[j] /\ w.trash[j] = data.trash[j]
  BY <1>1, WithShape
<1>3. ~Gone(data, i) /\ (Gone(w, i) \/ Version(data, i) = Version(w, i))
  BY <1>1, <1>2 DEF Version, Gone
<1>4. \A a \in 0 .. Len(inflight) :
         /\ Between(lastPersisted.items[i] = 0, Step(a).items[i] = 0, data.items[i] = 0)
         /\ Between(lastPersisted.trash[i] = 0, Step(a).trash[i] = 0, data.trash[i] = 0)
         /\ Between(Gone(lastPersisted, i), Gone(Step(a), i), Gone(data, i))
         /\ Step(a).items[i] = 0 \/ Step(a).trash[i] = 0
  BY NoteOnTheWay
<1>5. lastPersisted.items[i] = 0 \/ lastPersisted.trash[i] = 0
  BY NoteOnTheWay
<1>6. \A a, b \in 0 .. Len(inflight) :
         /\ Step(a).items[i] = 0 <=> Step(b).items[i] = 0
         /\ Step(a).trash[i] = 0 <=> Step(b).trash[i] = 0
  <2>1. CASE lastPersisted.trash[i] = 0
    <3>1. \A a \in 0 .. Len(inflight) : Step(a).trash[i] = 0
      BY <2>1, NowhereOnTheWay
    <3>2. \A a \in 0 .. Len(inflight) : Step(a).items[i] = 0 <=> lastPersisted.items[i] = 0
      BY <1>1, <1>3, <1>4, <2>1, <3>1 DEF Between, Gone
    <3> QED
      BY <3>1, <3>2
  <2>2. CASE lastPersisted.trash[i] # 0
    BY <1>1, <1>4, <1>5, <2>2 DEF Between
  <2> QED
    BY <2>1, <2>2
<1>7. \A a, b \in 0 .. Len(inflight) :
         /\ Between(Step(a).items[i] = 0, Step(b).items[i] = 0, w.items[i] = 0)
         /\ Between(Step(a).trash[i] = 0, Step(b).trash[i] = 0, w.trash[i] = 0)
         /\ Between(Gone(Step(a), i), Gone(Step(b), i), Gone(w, i))
  BY <1>6 DEF Between, Gone
<1>8. \A a \in 0 .. Len(inflight) :
         Gone(Step(a), i) \/ Gone(w, i) \/ Version(Step(a), i) <= Version(w, i)
  BY <1>3, NoteOnTheWay
<1> QED
  BY <1>2, <1>7, <1>8, NoteFollows

\* A note nobody has follows.
LEMMA AdditionFollows ==
    ASSUME TypeInv, StepsInOrder, edits < MaxEdits,
           NEW i \in Items, Gone(data, i), Gone(lastPersisted, i), NEW w, w = With(data, i, 1, 0)
    PROVE  Follows(w)
<1>1. 0 \in 0 .. MaxVersion /\ 1 \in 0 .. MaxVersion
  BY PipelineAssumption
<1>2. /\ w.items[i] = 1 /\ w.trash[i] = 0
      /\ \A j \in Items \ {i} : w.items[j] = data.items[j] /\ w.trash[j] = data.trash[j]
  BY <1>1, WithShape
<1>3. \A a \in 0 .. Len(inflight) : Gone(Step(a), i)
  <2>1. \A a \in 0 .. Len(inflight) : Between(Gone(lastPersisted, i), Gone(Step(a), i), Gone(data, i))
    BY NoteOnTheWay
  <2> QED
    BY <2>1 DEF Between
<1>4. \A a, b \in 0 .. Len(inflight) :
         /\ Between(Step(a).items[i] = 0, Step(b).items[i] = 0, w.items[i] = 0)
         /\ Between(Step(a).trash[i] = 0, Step(b).trash[i] = 0, w.trash[i] = 0)
         /\ Between(Gone(Step(a), i), Gone(Step(b), i), Gone(w, i))
  BY <1>3 DEF Between, Gone
<1> QED
  BY <1>2, <1>3, <1>4, NoteFollows

-----------------------------------------------------------------------------
(* Saves *)

\* Saves stay saves when there are more edits.
LEMMA SavesGrow ==
    ASSUME NEW n \in Nat, NEW m \in Nat, n <= m PROVE Saves(n) \subseteq Saves(m)
  BY WorksGrow DEF Saves

\* What a save that is sent does to the queue, of a workspace that may be shown.
LEMMA SaveAppends ==
    ASSUME TypeInv, PageInv, edits' \in 0 .. MaxEdits, edits <= edits',
           NEW w \in Works(edits'), w.stamp # None, Follows(w), NEW kind \in Kinds, NEW save,
           save = [snapshot |-> w, change |-> ChangeSet(lastPersisted, w), kind |-> kind,
                   before |-> data, attempt |-> attempt + 1, result |-> "sent"],
           inflight' = Append(inflight, save), data' = w, lastPersisted' = lastPersisted,
           attempt' = attempt + 1, Projection' = Projection
    PROVE  /\ inflight' \in Seq(Saves(edits')) /\ inflight' # <<>>
           /\ Len(inflight') = Len(inflight) + 1 /\ LastSave' = save
           /\ \A k \in DOMAIN inflight : inflight'[k] = inflight[k]
           /\ StepsInOrder' /\ SavesLead' /\ StoredIsStep' /\ QueueInOrder'
<1>0. PICK L : L = Len(inflight)
  OBVIOUS
<1>1. /\ L \in Nat /\ DOMAIN inflight = 1 .. L /\ edits \in Nat /\ edits' \in Nat
      /\ \A k \in Steps : Step(k) \in Works(edits)
      /\ Step(0) = lastPersisted
      /\ \A k \in DOMAIN inflight : inflight[k] \in Saves(edits) /\ Step(k) = inflight[k].snapshot
  BY <1>0, StepShape, PipelineAssumption
<1>2. Works(edits) \subseteq Works(edits') /\ Saves(edits) \subseteq Saves(edits')
  BY <1>1, WorksGrow, SavesGrow
<1>3. attempt \in Nat /\ inflight \in Seq(Saves(edits)) /\ lastPersisted \in Works(edits) /\ data \in Works(edits)
  BY DEF TypeInv
<1>4. save \in Saves(edits')
  <2>1. ChangeSet(lastPersisted, w) \in Change
    BY <1>2, <1>3, ChangeSetIsChange
  <2> QED
    BY <1>2, <1>3, <2>1 DEF Saves
<1>5. /\ inflight' \in Seq(Saves(edits')) /\ Len(inflight') = L + 1 /\ DOMAIN inflight' = 1 .. L + 1
      /\ inflight'[L + 1] = save /\ \A k \in 1 .. L : inflight'[k] = inflight[k]
  BY <1>0, <1>1, <1>2, <1>3, <1>4
<1>6. /\ Steps' = 0 .. L + 2
      /\ \A k \in 0 .. L : Step(k)' = Step(k)
      /\ Step(L + 1)' = w /\ Step(L + 2)' = w
  <2>1. Steps' = 0 .. L + 2
    BY <1>1, <1>5 DEF Steps
  <2>2. \A k \in 0 .. L : Step(k)' = Step(k)
    BY <1>0, <1>1, <1>5 DEF Step
  <2>3. save.snapshot = w
    OBVIOUS
  <2>4. Step(L + 1)' = w
    <3>1. Step(L + 1)' = inflight'[L + 1].snapshot
      BY <1>1, <1>5 DEF Step
    <3> QED
      BY <1>5, <2>3, <3>1
  <2>5. Step(L + 2)' = w
    BY <1>1, <1>5 DEF Step
  <2> QED
    BY <2>1, <2>2, <2>4, <2>5
<1>7. StepsInOrder'
  <2> DEFINE f == [k \in 0 .. L + 2 |-> IF k <= L THEN k ELSE L + 1]
  <2>1. ASSUME NEW k \in Steps'
        PROVE  /\ f[k] \in Steps
               /\ f[k] # L + 1 => Step(k)' = Step(f[k])
               /\ f[k] = L + 1 => Step(k)' = w
    <3>1. k \in 0 .. L \/ k = L + 1 \/ k = L + 2
      BY <1>1, <1>6
    <3>2. f[k] = IF k <= L THEN k ELSE L + 1
      BY <1>6
    <3>3. Steps = 0 .. L + 1
      BY <1>0 DEF Steps
    <3>4. CASE k \in 0 .. L
      BY <1>1, <1>6, <3>2, <3>3, <3>4
    <3>5. CASE k \in {L + 1, L + 2}
      BY <1>1, <1>6, <3>2, <3>3, <3>5
    <3> QED
      BY <3>1, <3>4, <3>5
  <2>2. \A j, k \in Steps' : j <= k => f[j] <= f[k]
    BY <1>1, <1>6
  <2> HIDE DEF f
  <2>3. StepsInOrder
    BY DEF PageInv
  <2> QED
    BY <1>0, <1>1, <2>1, <2>2, <2>3, StepsStayInOrder
<1>8. SavesLead'
  <2> SUFFICES ASSUME NEW k \in DOMAIN inflight', NEW a \in 0 .. k - 1
               PROVE  AfterChanges(Step(a)', inflight'[k].change) = inflight'[k].snapshot
    BY DEF SavesLead
  <2>1. CASE k \in 1 .. L
    <3>1. Step(a)' = Step(a)
      BY <1>1, <1>6, <2>1
    <3>2. AfterChanges(Step(a), inflight[k].change) = inflight[k].snapshot
      BY <1>1, <2>1 DEF PageInv, SavesLead
    <3> QED
      BY <1>5, <2>1, <3>1, <3>2
  <2>2. CASE k = L + 1
    <3>1. a \in 0 .. L /\ a \in Steps /\ 0 \in Steps /\ 0 <= a /\ 0 \in 0 .. L
      BY <1>0, <1>1, <2>2 DEF Steps
    <3>2. Advances(Step(0), Step(a))
      BY <3>1 DEF PageInv, StepsInOrder
    <3>3. Turns(Step(0), Step(a), w) /\ Advances(Step(a), w)
      BY <1>0, <3>1 DEF Follows
    <3>4. Step(a) \in Works(edits') /\ Step(0) \in Works(edits')
      BY <1>1, <1>2, <3>1
    <3>5. AfterChanges(Step(a), ChangeSet(Step(0), w)) = w
      BY <3>2, <3>3, <3>4, ChangeLeads
    <3>6. inflight'[k].change = ChangeSet(lastPersisted, w) /\ inflight'[k].snapshot = w
      BY <1>5, <2>2
    <3> QED
      BY <1>1, <1>6, <3>1, <3>5, <3>6
  <2> QED
    BY <1>1, <1>5, <2>1, <2>2
<1>9. StoredIsStep'
  <2>1. PICK m \in 0 .. L : /\ Projection = Step(m)
                            /\ m # 0 => inflight[m].result = "ok"
                            /\ \A k \in m + 1 .. L : inflight[k].result # "ok"
    BY <1>0 DEF PageInv, StoredIsStep
  <2>2. m \in 0 .. L + 1 /\ Projection' = Step(m)' /\ (m # 0 => inflight'[m].result = "ok")
    BY <1>1, <1>5, <1>6, <2>1
  <2>3. ASSUME NEW k \in m + 1 .. L + 1 PROVE inflight'[k].result # "ok"
    <3>1. CASE k = L + 1
      BY <1>5, <3>1
    <3>2. CASE k # L + 1
      BY <1>1, <1>5, <2>1, <3>2
    <3> QED
      BY <3>1, <3>2
  <2> QED
    BY <1>5, <2>2, <2>3 DEF StoredIsStep
<1>10. QueueInOrder'
  <2>1. /\ \A k \in DOMAIN inflight :
              /\ inflight[k].attempt \in 1 .. attempt
              /\ inflight[k].snapshot.stamp # None
              /\ inflight[k].kind = "add" =>
                    /\ inflight[k].before.stamp # None
                    /\ \A a \in 0 .. k - 1 : Advances(Step(a), inflight[k].before)
        /\ \A j, k \in DOMAIN inflight :
              j < k => /\ inflight[j].attempt < inflight[k].attempt
                       /\ inflight[j].result = "sent" => inflight[k].result = "sent"
    BY DEF PageInv, QueueInOrder
  <2>2. ASSUME NEW k \in 1 .. L
        PROVE  /\ inflight'[k].attempt \in 1 .. attempt'
               /\ inflight'[k].snapshot.stamp # None
               /\ inflight'[k].kind = "add" =>
                     /\ inflight'[k].before.stamp # None
                     /\ \A a \in 0 .. k - 1 : Advances(Step(a)', inflight'[k].before)
    <3>1. \A a \in 0 .. k - 1 : Step(a)' = Step(a)
      BY <1>1, <1>6
    <3>2. inflight'[k] = inflight[k] /\ k \in DOMAIN inflight
      BY <1>1, <1>5
    <3>3. inflight[k].attempt \in 1 .. attempt'
      <4>1. inflight[k].attempt \in 1 .. attempt
        BY <2>1, <3>2
      <4> QED
        BY <1>3, <4>1
    <3> QED
      BY <2>1, <3>1, <3>2, <3>3
  <2>3. /\ inflight'[L + 1].attempt \in 1 .. attempt'
        /\ inflight'[L + 1].snapshot.stamp # None
        /\ inflight'[L + 1].before.stamp # None
        /\ \A a \in 0 .. L : Advances(Step(a)', inflight'[L + 1].before)
    <3>1. /\ inflight'[L + 1].attempt = attempt + 1 /\ inflight'[L + 1].snapshot = w
          /\ inflight'[L + 1].before = data
      BY <1>5
    <3>2. data.stamp # None /\ StepsInOrder
      BY DEF PageInv
    <3>3. \A a \in 0 .. L : Advances(Step(a)', data)
      BY <1>0, <1>6, <3>2, DataFollows DEF Follows
    <3>4. attempt + 1 \in 1 .. attempt + 1
      BY <1>3
    <3> QED
      BY <3>1, <3>2, <3>3, <3>4
  <2>4. ASSUME NEW j \in 1 .. L + 1, NEW k \in 1 .. L + 1, j < k
        PROVE  /\ inflight'[j].attempt < inflight'[k].attempt
               /\ inflight'[j].result = "sent" => inflight'[k].result = "sent"
    <3>1. j \in 1 .. L /\ inflight'[j] = inflight[j]
      BY <1>1, <1>5, <2>4
    <3>2. CASE k = L + 1
      <4>1. inflight'[k].attempt = attempt + 1 /\ inflight'[k].result = "sent"
        BY <1>5, <3>2
      <4>2. inflight[j].attempt \in 1 .. attempt
        BY <1>1, <2>1, <3>1
      <4>3. inflight[j].attempt < attempt + 1
        BY <1>3, <4>2
      <4> QED
        BY <3>1, <4>1, <4>3
    <3>3. CASE k # L + 1
      <4>1. k \in 1 .. L /\ inflight'[k] = inflight[k]
        BY <1>1, <1>5, <3>3
      <4>2. j \in DOMAIN inflight /\ k \in DOMAIN inflight
        BY <1>1, <3>1, <4>1
      <4>3. /\ inflight[j].attempt < inflight[k].attempt
            /\ inflight[j].result = "sent" => inflight[k].result = "sent"
        BY <2>1, <2>4, <4>2
      <4> QED
        BY <3>1, <4>1, <4>3
    <3> QED
      BY <3>2, <3>3
  <2>5. \A k \in 1 .. L + 1 : k \in 1 .. L \/ (k = L + 1 /\ k - 1 = L)
    BY <1>1
  <2> QED
    BY <1>5, <2>2, <2>3, <2>4, <2>5 DEF QueueInOrder
<1>11. LastSave' = save /\ inflight' # <<>>
  BY <1>1, <1>5 DEF LastSave
<1> QED
  BY <1>0, <1>1, <1>5, <1>7, <1>8, <1>9, <1>10, <1>11

\* What a step of a page that stays usable has to show.
LEMMA PageStep ==
    ASSUME OpeningOrder, screen = "usable", UNCHANGED <<mainVars, database, schema, legacy, aside, screen, replaced>>,
           UNCHANGED stored \/ ~deferred,
           edits' \in 0 .. MaxEdits, edits <= edits',
           stored' \in Works(edits'), stored' = Absent \/ stored'.stamp # None,
           backups \subseteq backups', backups' \subseteq {w \in Works(edits') : w.stamp # None},
           data' \in Works(edits'), lastPersisted' \in Works(edits'), inflight' \in Seq(Saves(edits')),
           effect' \in BOOLEAN, skip' \in (0 .. edits') \cup {None},
           attempt' \in Nat, passive' \in 0 .. attempt', status' \in {"saving", "saved", "failed"},
           truth' \in Works(edits'), truth' = Projection', PageInv'
    PROVE  OpeningOrder'
<1>1. TypeInv /\ UsableInv /\ DiskInv /\ edits \in Nat /\ edits' \in Nat
  BY PipelineAssumption DEF OpeningOrder, TypeInv
<1>2. Works(edits) \subseteq Works(edits')
  BY <1>1, WorksGrow
<1>3. /\ aside' \subseteq Works(edits') /\ replaced' \subseteq Works(edits')
      /\ recovery' \in [error : {"database", "legacy"}, source : Works(edits')] \cup {None}
  BY <1>1, <1>2 DEF TypeInv, mainVars
<1>4. TypeInv'
  BY <1>1, <1>3 DEF TypeInv, mainVars
<1>5. UsableInv'
  BY <1>1 DEF UsableInv
<1>6. DiskInv'
  BY <1>1 DEF DiskInv, UsableInv, Kept, mainVars
<1> QED
  BY <1>4, <1>5, <1>6 DEF OpeningOrder, ClosedInv, OffInv, RecoveryInv

\* Where nothing is sent, answered or edited, the steps and the saves are the same.
LEMMA OrderKept ==
    ASSUME PageInv, UNCHANGED <<inflight, data, lastPersisted, attempt>>, Projection' = Projection
    PROVE  /\ StepsInOrder' /\ SavesLead' /\ StoredIsStep' /\ QueueInOrder' /\ data'.stamp # None
           /\ LastSave' = LastSave /\ (Explicit' <=> Explicit)
<1>1. Steps' = Steps /\ \A k : Step(k)' = Step(k)
  BY DEF Steps, Step
<1>2. StepsInOrder'
  BY <1>1 DEF PageInv, StepsInOrder
<1>3. SavesLead'
  BY <1>1 DEF PageInv, SavesLead
<1>4. StoredIsStep'
  <2>1. PICK m \in 0 .. Len(inflight) :
           /\ Projection = Step(m)
           /\ m # 0 => inflight[m].result = "ok"
           /\ \A k \in m + 1 .. Len(inflight) : inflight[k].result # "ok"
    BY DEF PageInv, StoredIsStep
  <2> QED
    BY <1>1, <2>1 DEF StoredIsStep
<1>5. QueueInOrder'
  BY <1>1 DEF PageInv, QueueInOrder
<1>6. data'.stamp # None
  BY DEF PageInv
<1> QED
  BY <1>2, <1>3, <1>4, <1>5, <1>6 DEF LastSave, Explicit

\* A page has nothing to do for what is stored already.
LEMMA NothingToSave ==
    ASSUME PageInv, TypeInv, inflight = <<>>, data = lastPersisted, inflight' = inflight, data' = data,
           lastPersisted' = lastPersisted, Projection' = Projection, status' = "saved"
    PROVE  PageInv'
<1>1. /\ StepsInOrder' /\ SavesLead' /\ StoredIsStep' /\ data'.stamp # None
  BY DEF PageInv, StepsInOrder, Steps, Step, SavesLead, StoredIsStep
<1>2. QueueInOrder'
  BY DEF QueueInOrder
<1>3. StatusInOrder'
  BY DEF StatusInOrder, Settled, Explicit
<1> QED
  BY <1>1, <1>2, <1>3 DEF PageInv

\* A passive effect keeps the invariant.
LEMMA PassiveEffectKeeps ==
    ASSUME OpeningOrder, screen = "usable", PassiveEffect,
           UNCHANGED <<mainVars, diskVars, screen, truth, replaced>>
    PROVE  OpeningOrder'
<1>1. /\ TypeInv /\ PageInv /\ truth = Projection
      /\ edits \in 0 .. MaxEdits /\ edits \in Nat /\ edits <= edits
  BY PipelineAssumption DEF OpeningOrder, TypeInv, UsableInv
<1>2. /\ UNCHANGED <<stored, data, lastPersisted, edits, truth>> /\ effect' = FALSE /\ effect
      /\ UNCHANGED <<mainVars, database, schema, legacy, backups, aside, screen, replaced>>
  BY DEF PassiveEffect, diskVars
<1>3. Projection' = Projection
  BY <1>2 DEF Projection, mainVars, Legacy
<1>4. data.stamp # None /\ StatusInOrder
  BY <1>1 DEF PageInv
<1>5. CASE Explicit /\ passive' = 0 /\ UNCHANGED <<inflight, skip, attempt, status>>
  <2>1. /\ StepsInOrder' /\ SavesLead' /\ StoredIsStep' /\ QueueInOrder'
    BY <1>1, <1>2, <1>3, <1>5, OrderKept
  <2>2. LastSave' = LastSave /\ (Explicit' <=> Explicit)
    BY <1>1, <1>2, <1>3, <1>5, OrderKept
  <2>3. inflight # <<>>
    BY <1>5 DEF Explicit
  <2>4. Settled'
    BY <1>2, <1>4, <1>5, <2>2, <2>3 DEF Settled, StatusInOrder, Reports
  <2>5. StatusInOrder'
    BY <1>2, <1>4, <1>5, <2>2, <2>4 DEF StatusInOrder, Waiting
  <2>6. PageInv'
    BY <1>2, <1>4, <2>1, <2>5 DEF PageInv
  <2>7. passive' \in 0 .. attempt' /\ attempt' \in Nat
    BY <1>1, <1>5 DEF TypeInv
  <2> QED
    BY <1>1, <1>2, <1>3, <1>5, <2>6, <2>7, PageStep DEF TypeInv
<1>6. CASE ~Explicit /\ skip = data.stamp /\ skip' = None /\ passive' = 0 /\ UNCHANGED <<inflight, attempt, status>>
  <2>1. /\ StepsInOrder' /\ SavesLead' /\ StoredIsStep' /\ QueueInOrder'
    BY <1>1, <1>2, <1>3, <1>6, OrderKept
  <2>2. LastSave' = LastSave /\ (Explicit' <=> Explicit)
    BY <1>1, <1>2, <1>3, <1>6, OrderKept
  <2>3. Settled
    BY <1>4, <1>6 DEF StatusInOrder, Waiting
  <2>4. Settled'
    BY <1>2, <1>4, <1>6, <2>2, <2>3 DEF Settled, StatusInOrder, Reports
  <2>5. StatusInOrder'
    BY <1>2, <1>4, <1>6, <2>2, <2>4 DEF StatusInOrder, Waiting
  <2>6. PageInv'
    BY <1>2, <1>4, <2>1, <2>5 DEF PageInv
  <2>7. passive' \in 0 .. attempt' /\ attempt' \in Nat
    BY <1>1, <1>6 DEF TypeInv
  <2> QED
    BY <1>1, <1>2, <1>3, <1>6, <2>6, <2>7, PageStep DEF TypeInv
<1>7. CASE /\ ~Explicit /\ skip # data.stamp /\ SaveData(data, "passive")
           /\ attempt' = attempt + 1 /\ passive' = attempt + 1 /\ UNCHANGED skip
  <2>1. attempt' \in Nat /\ passive' \in 0 .. attempt'
    BY <1>1, <1>7 DEF TypeInv
  <2>2. Waiting
    BY <1>2, <1>7 DEF Waiting
  <2>3. CASE data = lastPersisted
    <3>1. inflight = <<>>
      BY <1>4, <2>2, <2>3 DEF StatusInOrder
    <3>2. status' = "saved" /\ inflight' = inflight
      BY <1>7, <2>3 DEF SaveData
    <3>3. PageInv'
      BY <1>1, <1>2, <1>3, <2>3, <3>1, <3>2, NothingToSave
    <3> QED
      BY <1>1, <1>2, <1>3, <1>7, <2>1, <3>2, <3>3, PageStep DEF TypeInv
  <2>4. CASE data # lastPersisted
    <3> DEFINE save == [snapshot |-> data, change |-> ChangeSet(lastPersisted, data), kind |-> "passive",
                        before |-> data, attempt |-> attempt + 1, result |-> "sent"]
    <3>1. status' = "saving" /\ inflight' = Append(inflight, save)
      BY <1>7, <2>4 DEF SaveData, Baseline
    <3>2. Follows(data) /\ data \in Works(edits') /\ "passive" \in Kinds
      BY <1>1, <1>2, DataFollows DEF TypeInv, PageInv, Kinds
    <3>3. save.kind = "passive" /\ save.snapshot = data /\ save.attempt = attempt + 1
      OBVIOUS
    <3> HIDE DEF save
    <3>4. /\ inflight' \in Seq(Saves(edits')) /\ inflight' # <<>>
          /\ Len(inflight') = Len(inflight) + 1 /\ LastSave' = save
          /\ \A k \in DOMAIN inflight : inflight'[k] = inflight[k]
          /\ StepsInOrder' /\ SavesLead' /\ StoredIsStep' /\ QueueInOrder'
      BY <1>1, <1>2, <1>3, <1>4, <1>7, <3>1, <3>2, SaveAppends DEF save
    <3>5. ~Explicit'
      <4>1. DOMAIN inflight = 1 .. Len(inflight) /\ DOMAIN inflight' = 1 .. Len(inflight) + 1
            /\ Len(inflight) \in Nat
        BY <1>1, <3>4, StepShape
      <4>2. inflight'[Len(inflight) + 1] = save
        BY <3>4 DEF LastSave
      <4>3. \A k \in DOMAIN inflight : inflight'[k].kind \notin {"add", "update"}
        BY <1>7, <3>4 DEF Explicit
      <4> QED
        BY <3>3, <4>1, <4>2, <4>3 DEF Explicit
    <3>6. StatusInOrder'
      BY <1>2, <1>7, <3>1, <3>3, <3>4, <3>5 DEF StatusInOrder, Settled, Waiting, Reports
    <3>7. PageInv'
      BY <1>2, <1>4, <3>4, <3>6 DEF PageInv
    <3> QED
      BY <1>1, <1>2, <1>3, <1>7, <2>1, <3>1, <3>4, <3>7, PageStep DEF TypeInv
  <2> QED
    BY <2>3, <2>4
<1> QED
  BY <1>5, <1>6, <1>7 DEF PassiveEffect

\* A retry keeps the invariant.
LEMMA RetryKeeps ==
    ASSUME OpeningOrder, screen = "usable", RetryPersistence,
           UNCHANGED <<mainVars, diskVars, screen, truth, replaced>>
    PROVE  OpeningOrder'
<1>1. /\ TypeInv /\ PageInv /\ truth = Projection
      /\ edits \in 0 .. MaxEdits /\ edits \in Nat /\ edits <= edits
  BY PipelineAssumption DEF OpeningOrder, TypeInv, UsableInv
<1>2. /\ UNCHANGED <<stored, data, lastPersisted, edits, truth, effect, skip, passive>>
      /\ status = "failed" /\ attempt' = attempt + 1 /\ SaveData(data, "retry")
      /\ UNCHANGED <<mainVars, database, schema, legacy, backups, aside, screen, replaced>>
  BY DEF RetryPersistence, diskVars
<1>3. Projection' = Projection
  BY <1>2 DEF Projection, mainVars, Legacy
<1>4. data.stamp # None /\ StatusInOrder /\ inflight = <<>>
  BY <1>1, <1>2 DEF PageInv, StatusInOrder
<1>5. attempt' \in Nat /\ passive' \in 0 .. attempt'
  BY <1>1, <1>2 DEF TypeInv
<1>6. CASE data = lastPersisted
  <2>1. status' = "saved" /\ inflight' = inflight
    BY <1>2, <1>6 DEF SaveData
  <2>2. PageInv'
    BY <1>1, <1>2, <1>3, <1>4, <1>6, <2>1, NothingToSave
  <2> QED
    BY <1>1, <1>2, <1>3, <1>5, <2>1, <2>2, PageStep DEF TypeInv
<1>7. CASE data # lastPersisted
  <2> DEFINE save == [snapshot |-> data, change |-> ChangeSet(lastPersisted, data), kind |-> "retry",
                      before |-> data, attempt |-> attempt + 1, result |-> "sent"]
  <2>1. status' = "saving" /\ inflight' = Append(inflight, save)
    BY <1>2, <1>7 DEF SaveData, Baseline
  <2>2. Follows(data) /\ data \in Works(edits') /\ "retry" \in Kinds
    BY <1>1, <1>2, DataFollows DEF TypeInv, PageInv, Kinds
  <2>3. save.kind = "retry" /\ save.snapshot = data /\ save.attempt = attempt + 1
    OBVIOUS
  <2> HIDE DEF save
  <2>4. /\ inflight' \in Seq(Saves(edits')) /\ inflight' # <<>>
        /\ Len(inflight') = Len(inflight) + 1 /\ LastSave' = save
        /\ StepsInOrder' /\ SavesLead' /\ StoredIsStep' /\ QueueInOrder'
    BY <1>1, <1>2, <1>3, <1>4, <2>1, <2>2, SaveAppends DEF save
  <2>5. Len(inflight') = 1 /\ DOMAIN inflight' = 1 .. 1 /\ 1 .. Len(inflight') - 1 = {}
    BY <1>4, <2>4
  <2>6. ~Explicit'
    <3>1. LastSave' = inflight'[1]
      BY <2>5 DEF LastSave
    <3> QED
      BY <2>3, <2>4, <2>5, <3>1 DEF Explicit
  <2>7. Settled'
    BY <1>2, <2>3, <2>4 DEF Settled, Reports
  <2>8. StatusInOrder'
    BY <1>2, <1>7, <2>1, <2>3, <2>4, <2>5, <2>6, <2>7 DEF StatusInOrder
  <2>9. PageInv'
    BY <1>2, <1>4, <2>4, <2>8 DEF PageInv
  <2> QED
    BY <1>1, <1>2, <1>3, <1>5, <2>1, <2>4, <2>9, PageStep DEF TypeInv
<1> QED
  BY <1>6, <1>7

\* What a new edit makes is not on its way.
LEMMA NewStamp ==
    ASSUME TypeInv, edits < MaxEdits, NEW w, w.stamp = edits + 1
    PROVE  /\ edits + 1 \in 0 .. MaxEdits /\ edits <= edits + 1 /\ edits + 1 \in (0 .. edits + 1) \cup {None}
           /\ w.stamp # None /\ w.stamp # skip /\ w # lastPersisted
           /\ \A k \in DOMAIN inflight : inflight[k].snapshot # w
<1>1. /\ edits \in Nat /\ edits + 1 \in 0 .. MaxEdits
      /\ skip \in (0 .. edits) \cup {None}
      /\ lastPersisted \in Works(edits)
      /\ \A k \in DOMAIN inflight : inflight[k].snapshot \in Works(edits)
  <2>1. \A k \in DOMAIN inflight : inflight[k].snapshot \in Works(edits)
    BY StepShape DEF Saves
  <2> QED
    BY <2>1, StepShape, PipelineAssumption DEF TypeInv
<1>2. edits + 1 \notin (0 .. edits) \cup {None}
  BY <1>1, PipelineAssumption
<1>3. \A v \in Works(edits) : v # w
  BY <1>2 DEF Works
<1> QED
  BY <1>1, <1>2, <1>3

\* An awaited edit keeps the invariant.
LEMMA AwaitedKeeps ==
    ASSUME OpeningOrder, screen = "usable", NEW next \in Works(edits + 1), next.stamp = edits + 1,
           Follows(next), NEW kind \in {"add", "update"}, Awaited(next, kind),
           UNCHANGED <<mainVars, diskVars, screen, truth, replaced>>
    PROVE  OpeningOrder'
<1>1. /\ TypeInv /\ PageInv /\ truth = Projection
      /\ edits \in 0 .. MaxEdits /\ edits \in Nat
  BY PipelineAssumption DEF OpeningOrder, TypeInv, UsableInv
<1>2. /\ UNCHANGED <<stored, lastPersisted, truth, passive>>
      /\ edits < MaxEdits /\ edits' = edits + 1
      /\ data' = next /\ effect' = TRUE /\ skip' = next.stamp
      /\ SaveData(next, kind) /\ attempt' = attempt + 1
      /\ UNCHANGED <<mainVars, database, schema, legacy, backups, aside, screen, replaced>>
  BY DEF Awaited, diskVars
<1>3. Projection' = Projection
  BY <1>2 DEF Projection, mainVars, Legacy
<1>4. data.stamp # None /\ StatusInOrder
  BY <1>1 DEF PageInv
<1>5. attempt' \in Nat /\ passive' \in 0 .. attempt'
  BY <1>1, <1>2 DEF TypeInv
<1>6. /\ edits' \in 0 .. MaxEdits /\ edits <= edits' /\ skip' \in (0 .. edits') \cup {None}
      /\ next.stamp # None /\ next # lastPersisted
  BY <1>1, <1>2, NewStamp
<1> DEFINE save == [snapshot |-> next, change |-> ChangeSet(lastPersisted, next), kind |-> kind,
                    before |-> data, attempt |-> attempt + 1, result |-> "sent"]
<1>7. status' = "saving" /\ inflight' = Append(inflight, save)
  BY <1>2, <1>6 DEF SaveData, Baseline
<1>8. next \in Works(edits') /\ kind \in Kinds /\ kind # "passive"
  BY <1>2 DEF Kinds
<1>9. save.kind = kind /\ save.snapshot = next /\ save.attempt = attempt + 1
  OBVIOUS
<1> HIDE DEF save
<1>10. /\ inflight' \in Seq(Saves(edits')) /\ inflight' # <<>> /\ LastSave' = save
       /\ StepsInOrder' /\ SavesLead' /\ StoredIsStep' /\ QueueInOrder'
  BY <1>1, <1>2, <1>3, <1>6, <1>7, <1>8, SaveAppends DEF save
<1>11. StatusInOrder'
  BY <1>2, <1>7, <1>8, <1>9, <1>10 DEF StatusInOrder, Settled, Waiting, Reports
<1>12. PageInv'
  BY <1>2, <1>6, <1>10, <1>11 DEF PageInv
<1>13. /\ stored' \in Works(edits') /\ lastPersisted' \in Works(edits') /\ truth' \in Works(edits')
       /\ backups' \subseteq {w \in Works(edits') : w.stamp # None}
       /\ stored' = Absent \/ stored'.stamp # None
  BY <1>1, <1>2, WorksGrow DEF TypeInv
<1> QED
  BY <1>1, <1>2, <1>3, <1>5, <1>6, <1>7, <1>8, <1>10, <1>12, <1>13, PageStep

\* An edit nobody waits for keeps the invariant.
LEMMA SetDataKeeps ==
    ASSUME Overlap = {}, OpeningOrder, screen = "usable", NEW next \in Works(edits + 1), next.stamp = edits + 1,
           Follows(next), SetData(next), UNCHANGED <<mainVars, diskVars, screen, truth, replaced>>
    PROVE  OpeningOrder'
<1>1. /\ TypeInv /\ PageInv /\ truth = Projection
      /\ edits \in 0 .. MaxEdits /\ edits \in Nat
  BY PipelineAssumption DEF OpeningOrder, TypeInv, UsableInv
<1>2. /\ UNCHANGED <<stored, lastPersisted, truth, inflight, skip, attempt, passive, status>>
      /\ edits < MaxEdits /\ edits' = edits + 1
      /\ data' = next /\ effect' = TRUE /\ ~Explicit
      /\ UNCHANGED <<mainVars, database, schema, legacy, backups, aside, screen, replaced>>
  BY DEF SetData, diskVars
<1>3. Projection' = Projection
  BY <1>2 DEF Projection, mainVars, Legacy
<1>4. /\ edits' \in 0 .. MaxEdits /\ edits <= edits'
      /\ next.stamp # None /\ next.stamp # skip /\ next # lastPersisted
      /\ \A k \in DOMAIN inflight : inflight[k].snapshot # next
  BY <1>1, <1>2, NewStamp
<1>5. PICK L : L = Len(inflight)
  OBVIOUS
<1>6. /\ L \in Nat /\ DOMAIN inflight = 1 .. L /\ Steps = 0 .. L + 1 /\ Steps' = 0 .. L + 1
      /\ \A k \in 0 .. L : Step(k)' = Step(k)
      /\ Step(L + 1)' = next
  <2>1. L \in Nat /\ DOMAIN inflight = 1 .. L
    BY <1>1, <1>5, StepShape
  <2>2. Step(L + 1)' = next
    BY <1>2, <1>5, <2>1 DEF Step
  <2> QED
    BY <1>2, <1>5, <2>1, <2>2 DEF Steps, Step
<1>7. StepsInOrder'
  <2> DEFINE f == [k \in 0 .. L + 1 |-> k]
  <2>1. ASSUME NEW k \in Steps'
        PROVE  /\ f[k] \in Steps
               /\ f[k] # L + 1 => Step(k)' = Step(f[k])
               /\ f[k] = L + 1 => Step(k)' = next
    BY <1>6
  <2>2. \A j, k \in Steps' : j <= k => f[j] <= f[k]
    BY <1>6
  <2> HIDE DEF f
  <2>3. StepsInOrder /\ edits + 1 \in Nat
    BY <1>1 DEF PageInv
  <2> QED
    BY <1>5, <1>6, <2>1, <2>2, <2>3, StepsStayInOrder
<1>8. SavesLead'
  <2> SUFFICES ASSUME NEW k \in DOMAIN inflight', NEW a \in 0 .. k - 1
               PROVE  AfterChanges(Step(a)', inflight'[k].change) = inflight'[k].snapshot
    BY DEF SavesLead
  <2>1. k \in DOMAIN inflight /\ Step(a)' = Step(a)
    BY <1>2, <1>6
  <2> QED
    BY <1>1, <1>2, <2>1 DEF PageInv, SavesLead
<1>9. StoredIsStep'
  <2>1. PICK m \in 0 .. L :
           /\ Projection = Step(m)
           /\ m # 0 => inflight[m].result = "ok"
           /\ \A k \in m + 1 .. L : inflight[k].result # "ok"
    BY <1>1, <1>5 DEF PageInv, StoredIsStep
  <2> QED
    BY <1>2, <1>3, <1>5, <1>6, <2>1 DEF StoredIsStep
<1>10. QueueInOrder'
  <2>1. \A k \in DOMAIN inflight : \A a \in 0 .. k - 1 : Step(a)' = Step(a)
    BY <1>6
  <2> QED
    BY <1>1, <1>2, <2>1 DEF PageInv, QueueInOrder
<1>11. StatusInOrder'
  <2>1. ~Explicit'
    BY <1>2 DEF Explicit
  <2>2. Waiting'
    BY <1>2, <1>4 DEF Waiting
  <2>3. status' = "failed" => inflight' = <<>>
    BY <1>1, <1>2 DEF PageInv, StatusInOrder
  <2>4. \A k \in 1 .. Len(inflight') - 1 : inflight'[k].snapshot # data'
    BY <1>2, <1>4, <1>5, <1>6
  <2>5. skip' # data'.stamp /\ lastPersisted' # data'
    BY <1>2, <1>4
  <2> QED
    BY <2>1, <2>2, <2>3, <2>4, <2>5 DEF StatusInOrder
<1>12. PageInv'
  BY <1>2, <1>4, <1>7, <1>8, <1>9, <1>10, <1>11 DEF PageInv
<1>13. /\ stored' \in Works(edits') /\ lastPersisted' \in Works(edits') /\ truth' \in Works(edits')
       /\ data' \in Works(edits') /\ inflight' \in Seq(Saves(edits'))
       /\ backups' \subseteq {w \in Works(edits') : w.stamp # None}
       /\ stored' = Absent \/ stored'.stamp # None
       /\ skip' \in (0 .. edits') \cup {None}
  <2>1. Saves(edits) \subseteq Saves(edits')
    BY <1>1, <1>2, SavesGrow
  <2> QED
    BY <1>1, <1>2, <2>1, WorksGrow DEF TypeInv
<1> QED
  BY <1>1, <1>2, <1>3, <1>4, <1>12, <1>13, PageStep DEF TypeInv

\* What the user does on a page keeps the invariant.
LEMMA EditKeeps ==
    ASSUME Overlap = {}, OpeningOrder, Edit PROVE OpeningOrder'
<1>1. /\ screen = "usable" /\ UNCHANGED <<mainVars, diskVars, screen, truth, replaced>>
      /\ TypeInv /\ StepsInOrder /\ SavesLead
  BY DEF Edit, OpeningOrder, UsableInv, PageInv
<1>2. CASE PassiveEffect
  BY <1>1, <1>2, PassiveEffectKeeps
<1>3. CASE RetryPersistence
  BY <1>1, <1>3, RetryKeeps
<1>4. ASSUME NEW i \in Items, AddItem(i) PROVE OpeningOrder'
  <2> DEFINE next == With(data, i, 1, 0)
  <2>1. edits < MaxEdits /\ Awaited(next, "add") /\ Gone(data, i) /\ Gone(lastPersisted, i)
    BY <1>4 DEF AddItem, Awaited, Gone
  <2>2. 1 \in 0 .. MaxVersion /\ 0 \in 0 .. MaxVersion
    BY PipelineAssumption
  <2>3. next \in Works(edits + 1) /\ next.stamp = edits + 1
    BY <1>1, <2>1, <2>2, WithShape
  <2>4. Follows(next)
    BY <1>1, <2>1, AdditionFollows
  <2> HIDE DEF next
  <2> QED
    BY <1>1, <2>1, <2>3, <2>4, AwaitedKeeps
<1>5. ASSUME NEW i \in Items, UpdateItem(i) \/ UpdateItemsBulk(i) PROVE OpeningOrder'
  <2> DEFINE next == With(data, i, data.items[i] + 1, 0)
  <2>1. edits < MaxEdits /\ data.items[i] \in 1 .. MaxVersion - 1
    BY <1>5 DEF UpdateItem, UpdateItemsBulk, Awaited, SetData
  <2>2. Awaited(next, "update") \/ SetData(next)
    BY <1>5 DEF UpdateItem, UpdateItemsBulk
  <2>3. data.items[i] + 1 \in 0 .. MaxVersion /\ 0 \in 0 .. MaxVersion
    BY <2>1, PipelineAssumption
  <2>4. next \in Works(edits + 1) /\ next.stamp = edits + 1
    BY <1>1, <2>1, <2>3, WithShape
  <2>5. Follows(next)
    BY <1>1, <2>1, UpdateFollows
  <2> HIDE DEF next
  <2> QED
    BY <1>1, <2>2, <2>4, <2>5, AwaitedKeeps, SetDataKeeps
<1>6. ASSUME NEW i \in Items, DeleteItem(i) PROVE OpeningOrder'
  <2> DEFINE next == With(data, i, 0, data.items[i])
  <2>1. /\ edits < MaxEdits /\ SetData(next) /\ data.items[i] # 0
        /\ ~(lastPersisted.items[i] = 0 /\ i \in Arriving("items"))
    BY <1>6 DEF DeleteItem, SetData
  <2>2. data.items[i] \in 0 .. MaxVersion /\ 0 \in 0 .. MaxVersion
    BY <1>1, NoteOnTheWay, PipelineAssumption
  <2>3. next \in Works(edits + 1) /\ next.stamp = edits + 1
    BY <1>1, <2>1, <2>2, WithShape
  <2>4. Follows(next)
    BY <1>1, <2>1, DeletionFollows
  <2> HIDE DEF next
  <2> QED
    BY <1>1, <2>1, <2>3, <2>4, SetDataKeeps
<1>7. ASSUME NEW i \in Items, RestoreItem(i) \/ PurgeItem(i) PROVE OpeningOrder'
  <2>1. /\ edits < MaxEdits /\ data.trash[i] # 0
        /\ ~(lastPersisted.trash[i] = 0 /\ i \in Arriving("trash"))
    BY <1>7 DEF RestoreItem, PurgeItem, SetData
  <2>2. /\ data.trash[i] \in 0 .. MaxVersion /\ data.items[i] \in 0 .. MaxVersion
        /\ data.items[i] = 0 /\ 0 \in 0 .. MaxVersion
    BY <1>1, <2>1, NoteOnTheWay, PipelineAssumption
  <2>3. PICK version \in {data.trash[i], 0} : SetData(With(data, i, version, 0))
    BY <1>7, <2>2 DEF RestoreItem, PurgeItem
  <2> DEFINE next == With(data, i, version, 0)
  <2>4. next \in Works(edits + 1) /\ next.stamp = edits + 1
    BY <1>1, <2>1, <2>2, <2>3, WithShape
  <2>5. Follows(next)
    BY <1>1, <2>1, <2>3, LeavingTrashFollows
  <2> HIDE DEF next
  <2>6. SetData(next)
    BY <2>3 DEF next
  <2> QED
    BY <1>1, <2>4, <2>5, <2>6, SetDataKeeps
<1> QED
  BY <1>2, <1>3, <1>4, <1>5, <1>6, <1>7 DEF Edit, Edits

-----------------------------------------------------------------------------
(* Results *)

\* What a result changes in the queue.
LEMMA ResultComes ==
    ASSUME OpeningOrder, screen = "usable", NEW k, FirstInQueue(k), NEW result \in {"ok", "failed"},
           inflight' = [inflight EXCEPT ![k].result = result],
           UNCHANGED <<data, lastPersisted, effect, skip, attempt, passive, status, edits>>
    PROVE  /\ k \in 1 .. Len(inflight) /\ Len(inflight') = Len(inflight) /\ Len(inflight) \in Nat
           /\ inflight' \in Seq(Saves(edits'))
           /\ \A j \in 0 .. Len(inflight) : Step(j)' = Step(j)
           /\ \A j \in 1 .. Len(inflight) : inflight'[j].result = IF j = k THEN result ELSE inflight[j].result
           /\ StepsInOrder' /\ SavesLead' /\ QueueInOrder' /\ StatusInOrder' /\ data'.stamp # None
<1>1. TypeInv /\ PageInv
  BY DEF OpeningOrder, UsableInv
<1>2. PICK L : L = Len(inflight)
  OBVIOUS
<1>3. /\ L \in Nat /\ DOMAIN inflight = 1 .. L /\ inflight \in Seq(Saves(edits))
      /\ \A j \in 1 .. L : inflight[j] \in Saves(edits)
      /\ k \in 1 .. L /\ inflight[k].result = "sent" /\ \A j \in 1 .. k - 1 : inflight[j].result # "sent"
  BY <1>1, <1>2, StepShape DEF FirstInQueue, TypeInv
<1>4. PICK save : save = [inflight[k] EXCEPT !.result = result]
  OBVIOUS
<1>5. /\ save \in Saves(edits) /\ save.result = result
      /\ save.snapshot = inflight[k].snapshot /\ save.change = inflight[k].change /\ save.kind = inflight[k].kind
      /\ save.before = inflight[k].before /\ save.attempt = inflight[k].attempt
  BY <1>3, <1>4 DEF Saves
<1>6. inflight' = [inflight EXCEPT ![k] = save]
  BY <1>4
<1>7. /\ inflight' \in Seq(Saves(edits)) /\ Len(inflight') = L /\ DOMAIN inflight' = 1 .. L
      /\ \A j \in 1 .. L : inflight'[j] = IF j = k THEN save ELSE inflight[j]
  BY <1>2, <1>3, <1>5, <1>6
<1>8. \A j \in 1 .. L :
         /\ inflight'[j].snapshot = inflight[j].snapshot /\ inflight'[j].change = inflight[j].change
         /\ inflight'[j].kind = inflight[j].kind /\ inflight'[j].before = inflight[j].before
         /\ inflight'[j].attempt = inflight[j].attempt
         /\ inflight'[j].result = IF j = k THEN result ELSE inflight[j].result
  BY <1>5, <1>7
<1>9. Steps' = Steps /\ Steps = 0 .. L + 1 /\ \A j \in Steps : Step(j)' = Step(j)
  <2>1. Steps' = Steps /\ Steps = 0 .. L + 1
    BY <1>2, <1>7 DEF Steps
  <2>2. ASSUME NEW j \in 0 .. L + 1 PROVE Step(j)' = Step(j)
    BY <1>2, <1>3, <1>7, <1>8 DEF Step
  <2> QED
    BY <2>1, <2>2
<1>10. StepsInOrder'
  BY <1>1, <1>9 DEF PageInv, StepsInOrder
<1>11. \A j \in 1 .. L : \A a \in 0 .. j - 1 : Step(a)' = Step(a)
  BY <1>3, <1>9
<1>12. SavesLead'
  BY <1>1, <1>3, <1>7, <1>8, <1>11 DEF PageInv, SavesLead
<1>13. QueueInOrder'
  <2>1. ASSUME NEW j \in 1 .. L
        PROVE  /\ inflight'[j].attempt \in 1 .. attempt'
               /\ inflight'[j].snapshot.stamp # None
               /\ inflight'[j].kind = "add" =>
                     /\ inflight'[j].before.stamp # None
                     /\ \A a \in 0 .. j - 1 : Advances(Step(a)', inflight'[j].before)
    BY <1>1, <1>3, <1>8, <1>11 DEF PageInv, QueueInOrder
  <2>2. ASSUME NEW i \in 1 .. L, NEW j \in 1 .. L, i < j
        PROVE  /\ inflight'[i].attempt < inflight'[j].attempt
               /\ inflight'[i].result = "sent" => inflight'[j].result = "sent"
    <3>1. /\ inflight[i].attempt < inflight[j].attempt
          /\ inflight[i].result = "sent" => inflight[j].result = "sent"
      BY <1>1, <1>3, <2>2 DEF PageInv, QueueInOrder
    <3>2. j = k => i \in 1 .. k - 1
      BY <1>3, <2>2
    <3> QED
      BY <1>3, <1>8, <3>1, <3>2
  <2> QED
    BY <1>7, <2>1, <2>2 DEF QueueInOrder
<1>14. StatusInOrder'
  <2>1. inflight # <<>> /\ inflight' # <<>> /\ L \in 1 .. L
    BY <1>3, <1>7
  <2>2. /\ LastSave'.kind = LastSave.kind /\ LastSave'.snapshot = LastSave.snapshot
        /\ LastSave'.attempt = LastSave.attempt
    BY <1>2, <1>7, <1>8, <2>1 DEF LastSave
  <2>3. Explicit' <=> Explicit
    BY <1>3, <1>7, <1>8 DEF Explicit
  <2>4. (Settled' <=> Settled) /\ (Waiting' <=> Waiting)
    BY <2>1, <2>2 DEF Settled, Waiting, Reports
  <2>5. \A j \in 1 .. L - 1 : inflight'[j].snapshot = inflight[j].snapshot
    BY <1>3, <1>8
  <2> QED
    BY <1>1, <1>2, <1>7, <2>1, <2>2, <2>3, <2>4, <2>5 DEF PageInv, StatusInOrder
<1> QED
  BY <1>1, <1>2, <1>3, <1>7, <1>8, <1>9, <1>10, <1>12, <1>13, <1>14 DEF PageInv

\* A transaction of the main process leads to the snapshot of its save, and takes no
\* note back.
LEMMA CommitLeads ==
    ASSUME OpeningOrder, Migrated, NEW k \in DOMAIN inflight, FirstInQueue(k)
    PROVE  /\ screen = "usable" /\ deferred = FALSE
           /\ AfterChanges(stored, inflight[k].change) = inflight[k].snapshot
           /\ inflight[k].snapshot \in Works(edits) /\ inflight[k].snapshot.stamp # None
           /\ truth = stored /\ Advances(stored, inflight[k].snapshot)
<1>1. screen = "usable" /\ deferred = FALSE /\ TypeInv /\ PageInv /\ truth = Projection /\ Projection = stored
  <2>1. inflight # <<>>
    OBVIOUS
  <2> QED
    BY <2>1 DEF OpeningOrder, ClosedInv, NoPage, UsableInv, Migrated, TypeInv, Projection
<1>2. PICK L : L = Len(inflight)
  OBVIOUS
<1>3. /\ L \in Nat /\ k \in 1 .. L /\ DOMAIN inflight = 1 .. L /\ Steps = 0 .. L + 1
      /\ inflight[k] \in Saves(edits) /\ Step(k) = inflight[k].snapshot
  BY <1>1, <1>2, StepShape DEF Steps
<1>4. PICK m \in 0 .. L : /\ Projection = Step(m)
                          /\ m # 0 => inflight[m].result = "ok"
                          /\ \A j \in m + 1 .. L : inflight[j].result # "ok"
  BY <1>1, <1>2 DEF PageInv, StoredIsStep
<1>5. m < k
  <2>1. inflight[k].result = "sent"
    BY DEF FirstInQueue
  <2>2. \A j \in 1 .. L : k < j => inflight[j].result = "sent"
    BY <1>1, <1>3, <2>1 DEF PageInv, QueueInOrder
  <2>3. m # 0 => m # k /\ ~(k < m)
    BY <1>3, <1>4, <2>1, <2>2
  <2> QED
    BY <1>3, <1>4, <2>3
<1>6. m \in 0 .. k - 1 /\ m \in Steps /\ k \in Steps /\ m <= k
  BY <1>3, <1>4, <1>5
<1>7. AfterChanges(Step(m), inflight[k].change) = inflight[k].snapshot /\ Advances(Step(m), Step(k))
  BY <1>1, <1>6 DEF PageInv, SavesLead, StepsInOrder
<1>8. inflight[k].snapshot \in Works(edits) /\ inflight[k].snapshot.stamp # None
  BY <1>1, <1>3 DEF Saves, PageInv, QueueInOrder
<1> QED
  BY <1>1, <1>3, <1>4, <1>7, <1>8

\* A save that succeeds keeps the invariant.
LEMMA CommitKeeps ==
    ASSUME OpeningOrder, NEW k \in DOMAIN inflight, Commit(k) PROVE OpeningOrder'
<1>1. /\ Migrated /\ FirstInQueue(k)
      /\ stored' = AfterChanges(stored, inflight[k].change)
      /\ inflight' = [inflight EXCEPT ![k].result = "ok"]
      /\ UNCHANGED <<data, lastPersisted, effect, skip, attempt, passive, status, edits>>
      /\ truth' = AfterChanges(truth, inflight[k].change)
      /\ backups' \in IF backups = {} THEN {{}, {stored'}} ELSE {backups}
      /\ UNCHANGED <<mainVars, database, schema, legacy, aside, screen, replaced>>
  BY DEF Commit, CommitSave
<1>2. /\ screen = "usable" /\ deferred = FALSE
      /\ stored' = inflight[k].snapshot /\ truth' = stored'
      /\ stored' \in Works(edits) /\ stored'.stamp # None
  BY <1>1, CommitLeads
<1>3. /\ k \in 1 .. Len(inflight) /\ Len(inflight') = Len(inflight) /\ Len(inflight) \in Nat
      /\ inflight' \in Seq(Saves(edits'))
      /\ \A j \in 0 .. Len(inflight) : Step(j)' = Step(j)
      /\ \A j \in 1 .. Len(inflight) : inflight'[j].result = IF j = k THEN "ok" ELSE inflight[j].result
      /\ StepsInOrder' /\ SavesLead' /\ QueueInOrder' /\ StatusInOrder' /\ data'.stamp # None
  BY <1>1, <1>2, ResultComes
<1>4. TypeInv /\ PageInv /\ edits \in 0 .. MaxEdits /\ edits \in Nat
  BY <1>2, PipelineAssumption DEF OpeningOrder, UsableInv, TypeInv
<1>5. Projection' = Step(k)' /\ truth' = Projection'
  <2>1. Projection' = stored'
    BY <1>1, <1>2 DEF Projection, mainVars
  <2>2. Step(k)' = Step(k) /\ Step(k) = inflight[k].snapshot
    BY <1>3, <1>4, StepShape
  <2> QED
    BY <1>2, <2>1, <2>2
<1>6. StoredIsStep'
  <2>1. \A j \in k + 1 .. Len(inflight) : inflight'[j].result # "ok"
    <3>1. inflight[k].result = "sent" /\ DOMAIN inflight = 1 .. Len(inflight)
      BY <1>1, <1>4, StepShape DEF FirstInQueue
    <3>2. \A j \in k + 1 .. Len(inflight) : j \in 1 .. Len(inflight) /\ k < j
      BY <1>3
    <3>3. \A j \in k + 1 .. Len(inflight) : inflight[j].result = "sent"
      BY <1>3, <1>4, <3>1, <3>2 DEF PageInv, QueueInOrder
    <3> QED
      BY <1>3, <3>2, <3>3
  <2>2. inflight'[k].result = "ok" /\ k \in 0 .. Len(inflight')
    BY <1>3
  <2> QED
    BY <1>3, <1>5, <2>1, <2>2 DEF StoredIsStep
<1>7. PageInv'
  BY <1>3, <1>6 DEF PageInv
<1>8. backups \subseteq backups' /\ backups' \subseteq {w \in Works(edits') : w.stamp # None}
  <2>1. (backups' \in {{}, {stored'}} /\ backups = {}) \/ backups' = backups
    BY <1>1
  <2> QED
    BY <1>1, <1>2, <1>4, <2>1 DEF TypeInv
<1>9. stored' \in Works(edits') /\ truth' \in Works(edits') /\ edits' \in 0 .. MaxEdits /\ edits <= edits'
  BY <1>1, <1>2, <1>4
<1>10. /\ data' \in Works(edits') /\ lastPersisted' \in Works(edits')
       /\ effect' \in BOOLEAN /\ skip' \in (0 .. edits') \cup {None}
       /\ attempt' \in Nat /\ passive' \in 0 .. attempt' /\ status' \in {"saving", "saved", "failed"}
  BY <1>1, <1>4 DEF TypeInv
<1> QED
  BY <1>1, <1>2, <1>3, <1>5, <1>7, <1>8, <1>9, <1>10, PageStep

\* A save that fails, or is rejected, keeps the invariant.
LEMMA FailKeeps ==
    ASSUME OpeningOrder, NEW k \in DOMAIN inflight, Fail(k) \/ Reject(k) PROVE OpeningOrder'
<1>1. /\ FirstInQueue(k)
      /\ inflight' = [inflight EXCEPT ![k].result = "failed"]
      /\ UNCHANGED <<data, lastPersisted, effect, skip, attempt, passive, status, edits>>
      /\ UNCHANGED <<stored, truth, mainVars, database, schema, legacy, backups, aside, screen, replaced>>
  BY DEF Fail, Reject, FailSave, faultVars, diskVars
<1>2. screen = "usable" /\ TypeInv /\ PageInv /\ truth = Projection /\ edits \in 0 .. MaxEdits /\ edits \in Nat
  <2>1. inflight # <<>>
    OBVIOUS
  <2> QED
    BY <2>1, PipelineAssumption DEF OpeningOrder, ClosedInv, NoPage, UsableInv, TypeInv
<1>3. /\ k \in 1 .. Len(inflight) /\ Len(inflight') = Len(inflight) /\ Len(inflight) \in Nat
      /\ inflight' \in Seq(Saves(edits'))
      /\ \A j \in 0 .. Len(inflight) : Step(j)' = Step(j)
      /\ \A j \in 1 .. Len(inflight) : inflight'[j].result = IF j = k THEN "failed" ELSE inflight[j].result
      /\ StepsInOrder' /\ SavesLead' /\ QueueInOrder' /\ StatusInOrder' /\ data'.stamp # None
  BY <1>1, <1>2, ResultComes
<1>4. Projection' = Projection
  BY <1>1 DEF Projection, mainVars, Legacy
<1>5. StoredIsStep'
  <2>1. PICK m \in 0 .. Len(inflight) : /\ Projection = Step(m)
                                        /\ m # 0 => inflight[m].result = "ok"
                                        /\ \A j \in m + 1 .. Len(inflight) : inflight[j].result # "ok"
    BY <1>2 DEF PageInv, StoredIsStep
  <2>2. inflight[k].result = "sent"
    BY <1>1 DEF FirstInQueue
  <2>3. m # 0 => m \in 1 .. Len(inflight) /\ m # k
    BY <1>3, <2>1, <2>2
  <2>4. \A j \in m + 1 .. Len(inflight) : j \in 1 .. Len(inflight)
    BY <1>3, <2>1
  <2>5. \A j \in m + 1 .. Len(inflight) : inflight'[j].result # "ok"
    BY <1>3, <2>1, <2>4
  <2> QED
    BY <1>3, <1>4, <2>1, <2>3, <2>5 DEF StoredIsStep
<1>6. PageInv'
  BY <1>3, <1>5 DEF PageInv
<1>7. /\ stored' \in Works(edits') /\ truth' \in Works(edits') /\ edits' \in 0 .. MaxEdits /\ edits <= edits'
      /\ stored' = Absent \/ stored'.stamp # None
      /\ backups \subseteq backups' /\ backups' \subseteq {w \in Works(edits') : w.stamp # None}
  BY <1>1, <1>2 DEF TypeInv
<1>8. /\ data' \in Works(edits') /\ lastPersisted' \in Works(edits')
      /\ effect' \in BOOLEAN /\ skip' \in (0 .. edits') \cup {None}
      /\ attempt' \in Nat /\ passive' \in 0 .. attempt' /\ status' \in {"saving", "saved", "failed"}
  BY <1>1, <1>2 DEF TypeInv
<1> QED
  BY <1>1, <1>2, <1>3, <1>4, <1>6, <1>7, <1>8, PageStep

-----------------------------------------------------------------------------
(* Answers *)

\* A page with nothing in flight.
LEMMA NothingInFlight ==
    ASSUME NEW n \in Nat, data' \in Works(n), lastPersisted' \in Works(n), data'.stamp # None,
           inflight' = <<>>, Advances(lastPersisted, data)', Projection' = lastPersisted',
           status' = "failed" \/ Waiting' \/ data' = lastPersisted'
    PROVE  PageInv'
<1>1. /\ Len(inflight') = 0 /\ DOMAIN inflight' = {} /\ Steps' = 0 .. 1 /\ 1 .. Len(inflight') - 1 = {}
      /\ Step(0)' = lastPersisted' /\ Step(1)' = data'
  BY DEF Steps, Step
<1>2. StepsInOrder'
  <2>1. /\ Advances(lastPersisted', lastPersisted') /\ Advances(data', data')
        /\ \A u : Turns(u, data', data')
        /\ Turns(lastPersisted', lastPersisted', lastPersisted')
    BY AdvancesToItself
  <2>2. Turns(lastPersisted', lastPersisted', data')
    BY DEF Turns, Between
  <2>3. Steps' = {0, 1} /\ ~(1 <= 0)
    BY <1>1
  <2>4. Advances(lastPersisted', data')
    BY DEF Advances, Gone, Version
  <2> QED
    BY <1>1, <2>1, <2>2, <2>3, <2>4 DEF StepsInOrder
<1>3. SavesLead' /\ QueueInOrder'
  BY <1>1 DEF SavesLead, QueueInOrder
<1>4. StoredIsStep'
  BY <1>1 DEF StoredIsStep
<1>5. StatusInOrder'
  BY <1>1 DEF StatusInOrder, Settled, Explicit
<1> QED
  BY <1>2, <1>3, <1>4, <1>5 DEF PageInv

\* Only the newest save reports.
LEMMA NewestReports ==
    ASSUME TypeInv, PageInv, NEW k \in DOMAIN inflight, Reports(inflight[k])
    PROVE  k = Len(inflight)
<1>1. Len(inflight) \in Nat /\ DOMAIN inflight = 1 .. Len(inflight) /\ k \in 1 .. Len(inflight)
  BY StepShape
<1>2. SUFFICES ASSUME k < Len(inflight) PROVE FALSE
  BY <1>1
<1>3. Len(inflight) \in DOMAIN inflight
  BY <1>1, <1>2
<1>4. /\ inflight[k].attempt < inflight[Len(inflight)].attempt
      /\ inflight[Len(inflight)].attempt \in 1 .. attempt
  BY <1>2, <1>3 DEF PageInv, QueueInOrder
<1>5. inflight[k].attempt = attempt /\ attempt \in Nat
  BY DEF Reports, TypeInv
<1> QED
  BY <1>4, <1>5

\* The answer to a save that is not the newest takes a step off the beginning.
LEMMA OlderAnswerKeeps ==
    ASSUME OpeningOrder, screen = "usable", Answer, Len(inflight) > 1, Projection' = Projection
    PROVE  PageInv' /\ UNCHANGED <<data, effect, skip, attempt, status>>
<1>1. TypeInv /\ PageInv
  BY DEF OpeningOrder, UsableInv
<1>2. PICK L : L = Len(inflight)
  OBVIOUS
<1>3. /\ L \in Nat /\ L > 1 /\ DOMAIN inflight = 1 .. L /\ inflight \in Seq(Saves(edits))
      /\ inflight[1] \in Saves(edits) /\ Step(1) = inflight[1].snapshot /\ Step(0) = lastPersisted
      /\ data \in Works(edits) /\ edits \in Nat /\ Step(L + 1) = data /\ Steps = 0 .. L + 1
  <2>1. L \in Nat /\ L > 1 /\ DOMAIN inflight = 1 .. L
    BY <1>1, <1>2, StepShape
  <2>2. 1 \in DOMAIN inflight
    BY <2>1
  <2> QED
    BY <1>1, <1>2, <2>1, <2>2, StepShape DEF TypeInv, Steps
<1>4. /\ inflight' = Tail(inflight) /\ lastPersisted' = Acknowledged(inflight[1])
      /\ inflight[1].result \in {"ok", "failed"}
      /\ UNCHANGED <<stored, passive, edits, failures>>
  BY <1>3 DEF Answer, Saves
<1>5. /\ Len(inflight') = L - 1 /\ DOMAIN inflight' = 1 .. L - 1
      /\ \A k \in 1 .. L - 1 : inflight'[k] = inflight[k + 1]
  BY <1>2, <1>3, <1>4
<1>6. UNCHANGED <<data, effect, skip, attempt, status>>
  <2>1. ~Reports(inflight[1])
    BY <1>1, <1>2, <1>3, NewestReports
  <2> QED
    BY <2>1 DEF Answer
<1>7. lastPersisted' = IF inflight[1].result = "ok" THEN Step(1) ELSE Step(0)
  <2>1. inflight[1].kind # "abandoned"
    BY <1>3 DEF Saves, Kinds
  <2> QED
    BY <1>3, <1>4, <2>1 DEF Acknowledged
<1>8. /\ Steps' = 0 .. L
      /\ Step(0)' = IF inflight[1].result = "ok" THEN Step(1) ELSE Step(0)
      /\ \A k \in 1 .. L - 1 : Step(k)' = Step(k + 1)
      /\ Step(L)' = data /\ \A k \in 1 .. L : Step(k)' = Step(k + 1)
  <2>1. Steps' = 0 .. L
    BY <1>3, <1>5 DEF Steps
  <2>2. Step(0)' = lastPersisted'
    BY DEF Step
  <2>3. ASSUME NEW k \in 1 .. L - 1 PROVE Step(k)' = Step(k + 1)
    <3>1. k \in Nat /\ k # 0 /\ k <= L - 1 /\ k + 1 # 0 /\ k + 1 <= L
      BY <1>3
    <3>2. Step(k)' = inflight'[k].snapshot
      BY <1>5, <3>1 DEF Step
    <3>3. Step(k + 1) = inflight[k + 1].snapshot
      BY <1>2, <3>1 DEF Step
    <3> QED
      BY <1>5, <3>2, <3>3
  <2>4. Step(L)' = data'
    BY <1>3, <1>5 DEF Step
  <2>5. \A k \in 1 .. L : k \in 1 .. L - 1 \/ k = L
    BY <1>3
  <2> QED
    BY <1>3, <1>6, <1>7, <2>1, <2>2, <2>3, <2>4, <2>5
<1> DEFINE f == [k \in 0 .. L |-> IF k = 0 /\ inflight[1].result # "ok" THEN 0 ELSE k + 1]
<1>9. ASSUME NEW k \in 0 .. L
      PROVE  f[k] \in 0 .. L + 1 /\ Step(k)' = Step(f[k]) /\ f[k] <= k + 1
  BY <1>3, <1>8
<1>10. \A j, k \in 0 .. L : j <= k => f[j] <= f[k]
  BY <1>3
<1>f. \A k \in 0 .. L : f[k] = IF k = 0 /\ inflight[1].result # "ok" THEN 0 ELSE k + 1
  OBVIOUS
<1> HIDE DEF f
<1>11. StepsInOrder'
  <2>1. StepsInOrder /\ Follows(data) /\ Len(inflight) \in Nat
    BY <1>1, <1>2, <1>3, DataFollows DEF PageInv
  <2>2. ASSUME NEW k \in Steps'
        PROVE  /\ f[k] \in Steps
               /\ f[k] # Len(inflight) + 1 => Step(k)' = Step(f[k])
               /\ f[k] = Len(inflight) + 1 => Step(k)' = data
    BY <1>2, <1>3, <1>8, <1>9
  <2>3. \A j, k \in Steps' : j <= k => f[j] <= f[k]
    BY <1>8, <1>10
  <2> QED
    BY <1>3, <2>1, <2>2, <2>3, StepsStayInOrder
<1>12. SavesLead'
  <2> SUFFICES ASSUME NEW k \in 1 .. L - 1, NEW a \in 0 .. k - 1
               PROVE  AfterChanges(Step(a)', inflight'[k].change) = inflight'[k].snapshot
    BY <1>5 DEF SavesLead
  <2>1. a \in 0 .. L /\ k + 1 \in 1 .. L
    BY <1>3
  <2>2. f[a] \in 0 .. (k + 1) - 1
    BY <1>3, <1>9, <2>1
  <2> QED
    BY <1>1, <1>3, <1>5, <1>9, <2>1, <2>2 DEF PageInv, SavesLead
<1>13. StoredIsStep'
  <2>1. PICK m \in 0 .. L : /\ Projection = Step(m)
                            /\ m # 0 => inflight[m].result = "ok"
                            /\ \A k \in m + 1 .. L : inflight[k].result # "ok"
    BY <1>1, <1>2 DEF PageInv, StoredIsStep
  <2>2. PICK n \in 0 .. L - 1 : f[n] = m /\ m <= n + 1 /\ (n # 0 => m = n + 1)
    <3>1. CASE m = 0
      <4>1. inflight[1].result # "ok" /\ 0 \in 0 .. L - 1 /\ 0 \in 0 .. L
        BY <1>3, <2>1, <3>1
      <4>2. f[0] = 0
        BY <1>f, <4>1
      <4> QED
        BY <3>1, <4>1, <4>2
    <3>2. CASE m # 0
      <4>1. m - 1 \in 0 .. L - 1 /\ m - 1 \in 0 .. L /\ m - 1 + 1 = m
        BY <1>3, <3>2
      <4>2. m - 1 = 0 => inflight[1].result = "ok"
        BY <2>1, <3>2, <4>1
      <4>3. f[m - 1] = m
        BY <1>f, <4>1, <4>2
      <4> QED
        BY <4>1, <4>3
    <3> QED
      BY <3>1, <3>2
  <2>3. Projection' = Step(n)'
    <3>1. n \in 0 .. L
      BY <1>3
    <3> QED
      BY <1>9, <2>1, <2>2, <3>1
  <2>4. n # 0 => inflight'[n].result = "ok"
    <3>1. n # 0 => n \in 1 .. L - 1
      BY <1>3
    <3> QED
      BY <1>5, <2>1, <2>2, <3>1
  <2>5. ASSUME NEW k \in n + 1 .. L - 1 PROVE inflight'[k].result # "ok"
    <3>1. k \in 1 .. L - 1 /\ k + 1 \in m + 1 .. L
      BY <1>3, <2>2
    <3> QED
      BY <1>5, <2>1, <3>1
  <2> QED
    BY <1>5, <2>3, <2>4, <2>5 DEF StoredIsStep
<1>14. QueueInOrder'
  <2>1. ASSUME NEW k \in 1 .. L - 1
        PROVE  /\ inflight'[k].attempt \in 1 .. attempt'
               /\ inflight'[k].snapshot.stamp # None
               /\ inflight'[k].kind = "add" =>
                     /\ inflight'[k].before.stamp # None
                     /\ \A a \in 0 .. k - 1 : Advances(Step(a)', inflight'[k].before)
    <3>1. k + 1 \in DOMAIN inflight /\ inflight'[k] = inflight[k + 1]
      BY <1>3, <1>5
    <3>2. ASSUME NEW a \in 0 .. k - 1 PROVE Step(a)' = Step(f[a]) /\ f[a] \in 0 .. (k + 1) - 1
      <4>1. a \in 0 .. L
        BY <1>3
      <4> QED
        BY <1>3, <1>9, <4>1
    <3> QED
      BY <1>1, <1>6, <3>1, <3>2 DEF PageInv, QueueInOrder
  <2>2. ASSUME NEW j \in 1 .. L - 1, NEW k \in 1 .. L - 1, j < k
        PROVE  /\ inflight'[j].attempt < inflight'[k].attempt
               /\ inflight'[j].result = "sent" => inflight'[k].result = "sent"
    <3>1. j + 1 \in DOMAIN inflight /\ k + 1 \in DOMAIN inflight /\ j + 1 < k + 1
      BY <1>3, <2>2
    <3> QED
      BY <1>1, <1>5, <3>1 DEF PageInv, QueueInOrder
  <2> QED
    BY <1>5, <2>1, <2>2 DEF QueueInOrder
<1>15. StatusInOrder'
  <2>1. inflight # <<>> /\ inflight' # <<>> /\ StatusInOrder
    BY <1>1, <1>3, <1>5 DEF PageInv
  <2>2. LastSave' = LastSave
    <3>1. L - 1 \in 1 .. L - 1 /\ L - 1 + 1 = L
      BY <1>3
    <3> QED
      BY <1>2, <1>5, <3>1 DEF LastSave
  <2>3. Explicit' => Explicit
    <3>1. \A k \in 1 .. L - 1 : k + 1 \in DOMAIN inflight
      BY <1>3
    <3> QED
      BY <1>5, <3>1 DEF Explicit
  <2>4. (Settled <=> Settled') /\ (Waiting <=> Waiting')
    BY <1>4, <1>6, <2>1, <2>2 DEF Settled, Waiting, Reports
  <2>5. Waiting' => lastPersisted' # data'
    <3>1. 1 \in 1 .. Len(inflight) - 1
      BY <1>2, <1>3
    <3> QED
      BY <1>3, <1>6, <1>7, <2>1, <2>4, <3>1 DEF StatusInOrder
  <2>6. Waiting' => \A k \in 1 .. Len(inflight') - 1 : inflight'[k].snapshot # data'
    <3>1. ASSUME NEW k \in 1 .. Len(inflight') - 1
          PROVE  k + 1 \in 1 .. Len(inflight) - 1 /\ inflight'[k] = inflight[k + 1]
      BY <1>2, <1>3, <1>5
    <3> QED
      BY <1>6, <2>1, <2>4, <3>1 DEF StatusInOrder
  <2> QED
    BY <1>6, <2>1, <2>2, <2>3, <2>4, <2>5, <2>6 DEF StatusInOrder
<1>16. data'.stamp # None
  BY <1>1, <1>6 DEF PageInv
<1> QED
  BY <1>6, <1>11, <1>12, <1>13, <1>14, <1>15, <1>16 DEF PageInv

\* An answer keeps the invariant.
LEMMA AnswerKeeps ==
    ASSUME OpeningOrder, Answered PROVE OpeningOrder'
<1>1. /\ Answer /\ UNCHANGED <<mainVars, diskVars, screen, truth, replaced>>
      /\ inflight # <<>> /\ inflight' = Tail(inflight) /\ UNCHANGED <<stored, passive, edits>>
  BY DEF Answered, Answer
<1>2. screen = "usable" /\ TypeInv /\ PageInv /\ truth = Projection
  BY <1>1 DEF OpeningOrder, ClosedInv, NoPage, UsableInv
<1>3. Projection' = Projection
  BY <1>1 DEF Projection, mainVars, Legacy
<1>4. /\ edits \in 0 .. MaxEdits /\ edits \in Nat /\ inflight \in Seq(Saves(edits))
      /\ Len(inflight) \in Nat \ {0} /\ inflight[1] \in Saves(edits) /\ 1 \in DOMAIN inflight
      /\ Step(1) = inflight[1].snapshot /\ Step(0) = lastPersisted /\ 1 \in Steps /\ 0 \in Steps
  <2>1. /\ inflight \in Seq(Saves(edits)) /\ Len(inflight) \in Nat \ {0} /\ 1 \in DOMAIN inflight
    BY <1>1, <1>2, StepShape DEF TypeInv
  <2> QED
    BY <1>2, <2>1, StepShape, PipelineAssumption DEF TypeInv, Steps
<1>5. /\ inflight[1].snapshot \in Works(edits) /\ inflight[1].before \in Works(edits)
      /\ inflight[1].result # "ok" <=> inflight[1].result = "failed"
      /\ inflight[1].kind # "abandoned"
      /\ data \in Works(edits) /\ lastPersisted \in Works(edits)
  BY <1>1, <1>2, <1>4 DEF Saves, Kinds, TypeInv, Answer
<1>6. lastPersisted' = IF inflight[1].result = "ok" THEN inflight[1].snapshot ELSE lastPersisted
  BY <1>1, <1>5 DEF Answer, Acknowledged
<1>7. inflight' \in Seq(Saves(edits))
  BY <1>1, <1>4
<1>8. /\ data' \in Works(edits) /\ lastPersisted' \in Works(edits) /\ effect' \in BOOLEAN
      /\ skip' \in (0 .. edits) \cup {None} /\ attempt' \in Nat /\ passive' \in 0 .. attempt'
      /\ status' \in {"saving", "saved", "failed"}
  <2>1. \A w \in Works(edits) : w.stamp \in (0 .. edits) \cup {None}
    BY DEF Works
  <2>2. \/ UNCHANGED <<data, effect, skip, attempt, status>>
        \/ status' = "saved" /\ UNCHANGED <<data, effect, skip, attempt>>
        \/ /\ status' = "failed" /\ attempt' \in {attempt, attempt + 1}
           /\ \/ data' = inflight[1].before /\ effect' = TRUE /\ skip' = inflight[1].before.stamp
              \/ UNCHANGED <<data, effect, skip>>
    BY <1>1 DEF Answer
  <2>3. /\ effect \in BOOLEAN /\ skip \in (0 .. edits) \cup {None} /\ attempt \in Nat /\ passive \in 0 .. attempt
        /\ status \in {"saving", "saved", "failed"}
    BY <1>2 DEF TypeInv
  <2>4. attempt' \in {attempt, attempt + 1} /\ passive' = passive
    BY <1>1, <2>2
  <2>5. attempt' \in Nat /\ passive' \in 0 .. attempt'
    BY <2>3, <2>4
  <2>6. inflight[1].before.stamp \in (0 .. edits) \cup {None}
    BY <1>5, <2>1
  <2>7. lastPersisted' \in Works(edits)
    BY <1>5, <1>6
  <2>8. data' \in Works(edits) /\ effect' \in BOOLEAN /\ skip' \in (0 .. edits) \cup {None}
    BY <1>5, <2>2, <2>3, <2>6
  <2>9. status' \in {"saving", "saved", "failed"}
    BY <2>2, <2>3
  <2> QED
    BY <2>5, <2>7, <2>8, <2>9
<1>9. CASE Len(inflight) > 1
  <2>1. PageInv'
    BY <1>1, <1>2, <1>3, <1>9, OlderAnswerKeeps
  <2> QED
    BY <1>1, <1>2, <1>3, <1>4, <1>7, <1>8, <2>1, PageStep DEF TypeInv, diskVars
<1>10. CASE Len(inflight) = 1
  <2>1. inflight' = <<>> /\ LastSave = inflight[1] /\ StatusInOrder /\ StepsInOrder /\ Follows(data)
    BY <1>1, <1>2, <1>4, <1>10, DataFollows DEF LastSave, PageInv
  <2>2. Projection' = lastPersisted'
    <3>1. PICK m \in 0 .. 1 : /\ Projection = Step(m)
                              /\ m # 0 => inflight[m].result = "ok"
                              /\ \A k \in m + 1 .. 1 : inflight[k].result # "ok"
      BY <1>2, <1>10 DEF PageInv, StoredIsStep
    <3>2. CASE m = 0
      <4>1. inflight[1].result # "ok"
        BY <3>1, <3>2
      <4> QED
        BY <1>3, <1>4, <1>6, <3>1, <3>2, <4>1
    <3>3. CASE m = 1
      BY <1>3, <1>4, <1>6, <3>1, <3>3
    <3> QED
      BY <3>2, <3>3
  <2>3. ASSUME data' = data,
               status' = "failed" \/ Waiting' \/ data' = lastPersisted'
        PROVE  PageInv'
    <3>1. Advances(lastPersisted', data')
      <4>1. 0 \in 0 .. Len(inflight) /\ 1 \in 0 .. Len(inflight)
        BY <1>10
      <4>2. Advances(Step(0), data) /\ Advances(Step(1), data)
        BY <2>1, <4>1 DEF Follows
      <4> QED
        BY <1>4, <1>6, <2>3, <4>2
    <3>2. data'.stamp # None
      BY <1>2, <2>3 DEF PageInv
    <3>3. Advances(lastPersisted, data)'
      BY <3>1 DEF Advances, Gone, Version
    <3> QED
      BY <1>4, <1>8, <2>1, <2>2, <2>3, <3>2, <3>3, NothingInFlight
  <2>4. CASE ~Reports(inflight[1])
    <3>1. UNCHANGED <<data, effect, skip, attempt, status>>
      BY <1>1, <2>4 DEF Answer
    <3>2. Waiting'
      BY <1>1, <2>1, <2>4, <3>1 DEF StatusInOrder, Settled, Waiting
    <3> QED
      BY <1>1, <1>2, <1>3, <1>4, <1>7, <1>8, <2>3, <3>1, <3>2, PageStep DEF TypeInv, diskVars
  <2>5. CASE Reports(inflight[1]) /\ inflight[1].result = "ok"
    <3>1. status' = "saved" /\ UNCHANGED <<data, effect, skip, attempt>>
      BY <1>1, <2>5 DEF Answer
    <3>2. Waiting' \/ data' = lastPersisted'
      BY <1>1, <1>6, <2>1, <2>5, <3>1 DEF StatusInOrder, Settled, Waiting
    <3> QED
      BY <1>1, <1>2, <1>3, <1>4, <1>7, <1>8, <2>3, <3>1, <3>2, PageStep DEF TypeInv, diskVars
  <2>6. CASE Reports(inflight[1]) /\ inflight[1].result # "ok"
    <3>1. /\ status' = "failed"
          /\ IF inflight[1].kind = "add" THEN data' = inflight[1].before ELSE UNCHANGED data
      BY <1>1, <2>6 DEF Answer
    <3>2. CASE inflight[1].kind = "add"
      <4>1. data'.stamp # None /\ Advances(Step(0), data')
        <5>1. 0 \in 0 .. 1 - 1
          OBVIOUS
        <5> QED
          BY <1>2, <1>4, <3>1, <3>2, <5>1 DEF PageInv, QueueInOrder
      <4>2. Advances(lastPersisted, data)'
        BY <1>4, <1>6, <2>6, <4>1 DEF Advances, Gone, Version
      <4>3. PageInv'
        BY <1>4, <1>8, <2>1, <2>2, <3>1, <4>1, <4>2, NothingInFlight
      <4> QED
        BY <1>1, <1>2, <1>3, <1>4, <1>7, <1>8, <4>3, PageStep DEF TypeInv, diskVars
    <3>3. CASE inflight[1].kind # "add"
      BY <1>1, <1>2, <1>3, <1>4, <1>7, <1>8, <2>3, <3>1, <3>3, PageStep DEF TypeInv, diskVars
    <3> QED
      BY <3>2, <3>3
  <2> QED
    BY <2>4, <2>5, <2>6
<1>11. Len(inflight) > 1 \/ Len(inflight) = 1
  <2>1. \A n \in Nat \ {0} : n > 1 \/ n = 1
    OBVIOUS
  <2>2. Len(inflight) \in Nat \ {0}
    BY <1>4
  <2> QED
    BY <2>1, <2>2
<1> QED
  BY <1>9, <1>10, <1>11

-----------------------------------------------------------------------------
(* Opening *)

\* What a page begins with.
LEMMA LoadedBegins ==
    ASSUME NEW n \in 0 .. MaxEdits, NEW loaded \in Works(n), loaded = Absent \/ loaded.stamp # None,
           ShowsLoaded(loaded), inflight' = <<>>, Projection' = loaded
    PROVE  /\ PageInv' /\ data' \in Works(n) /\ lastPersisted' \in Works(n) /\ inflight' \in Seq(Saves(n))
           /\ effect' \in BOOLEAN /\ skip' \in (0 .. n) \cup {None}
           /\ attempt' \in Nat /\ passive' \in 0 .. attempt' /\ status' \in {"saving", "saved", "failed"}
<1>1. PICK shown : shown = IF loaded = Absent THEN Empty ELSE loaded
  OBVIOUS
<1>2. /\ data' = shown /\ lastPersisted' = loaded /\ effect' = (shown # loaded) /\ skip' = None
      /\ attempt' = 0 /\ passive' = 0 /\ status' = "saved"
  BY <1>1 DEF ShowsLoaded, PageOpens
<1>3. n \in Nat
  BY PipelineAssumption
<1>4. shown \in Works(n) /\ shown.stamp # None /\ Advances(loaded, shown)
  <2>1. CASE loaded = Absent
    BY <1>1, <2>1, FirstWorks DEF Advances
  <2>2. CASE loaded # Absent
    BY <1>1, <1>3, <2>2, AdvancesToItself
  <2> QED
    BY <2>1, <2>2
<1>5. status' = "failed" \/ Waiting' \/ data' = lastPersisted'
  BY <1>2, <1>4 DEF Waiting
<1>6. Advances(lastPersisted, data)'
  BY <1>2, <1>4 DEF Advances, Gone, Version
<1>7. PageInv'
  BY <1>2, <1>3, <1>4, <1>5, <1>6, NothingInFlight
<1> QED
  BY <1>2, <1>4, <1>7

\* A page on which nothing happens.
LEMMA PageKept ==
    ASSUME PageInv, UNCHANGED pageVars, Projection' = Projection PROVE PageInv'
<1>1. UNCHANGED <<data, lastPersisted, inflight, effect, skip, attempt, passive, status>>
  BY DEF pageVars
<1>2. /\ StepsInOrder' /\ SavesLead' /\ StoredIsStep' /\ QueueInOrder' /\ data'.stamp # None
      /\ LastSave' = LastSave /\ (Explicit' <=> Explicit)
  BY <1>1, OrderKept
<1>3. StatusInOrder'
  BY <1>1, <1>2 DEF PageInv, StatusInOrder, Settled, Waiting, Reports
<1> QED
  BY <1>2, <1>3 DEF PageInv

\* The legacy workspace is one.
LEMMA LegacyShape ==
    ASSUME TypeInv
    PROVE  /\ Legacy \in Works(edits) /\ Legacy.stamp = 0 /\ Legacy # Absent /\ Absent \in Works(edits)
           /\ Works(edits) \subseteq Workspace /\ None # 0 /\ edits \in 0 .. MaxEdits
           /\ Absent.stamp = None
<1>1. edits \in 0 .. MaxEdits
  BY DEF TypeInv
<1> QED
  BY <1>1, FirstWorks DEF Legacy, Works

\* A damage keeps the invariant.
LEMMA HarmKeeps ==
    ASSUME OpeningOrder, Harm PROVE OpeningOrder'
<1>1. /\ screen = "off" /\ stored # Absent /\ database' \in {"damaged", "unreadable"}
      /\ UNCHANGED <<pipelineVars, mainVars, screen, schema, legacy, backups, aside, truth, replaced>>
  BY DEF Harm
<1>2. TypeInv'
  BY <1>1 DEF OpeningOrder, TypeInv, pipelineVars, mainVars
<1>3. ClosedInv' /\ UsableInv'
  BY <1>1 DEF OpeningOrder, ClosedInv, UsableInv, NoPage, pipelineVars, mainVars
<1>4. OffInv' /\ RecoveryInv'
  BY <1>1 DEF OpeningOrder, OffInv, RecoveryInv, pipelineVars, mainVars, Legacy
<1>5. DiskInv'
  BY <1>1 DEF OpeningOrder, ClosedInv, DiskInv, Kept, pipelineVars, mainVars, Legacy
<1> QED
  BY <1>2, <1>3, <1>4, <1>5 DEF OpeningOrder

\* An upgrade keeps the invariant, cut short or not.
LEMMA UpgradeKeeps ==
    ASSUME OpeningOrder, Upgrade PROVE OpeningOrder'
<1>1. /\ screen = "off" /\ schema' \in {"first", "current"} /\ aside' = aside \cup {stored}
      /\ UNCHANGED <<pipelineVars, mainVars, screen, database, legacy, backups, truth, replaced>>
  BY DEF Upgrade, SetAside
<1>2. TypeInv'
  BY <1>1 DEF OpeningOrder, TypeInv, pipelineVars, mainVars
<1>3. ClosedInv' /\ UsableInv'
  BY <1>1 DEF OpeningOrder, ClosedInv, UsableInv, NoPage, pipelineVars, mainVars
<1>4. OffInv' /\ RecoveryInv'
  BY <1>1 DEF OpeningOrder, OffInv, RecoveryInv, pipelineVars, mainVars, Legacy
<1>5. DiskInv'
  BY <1>1 DEF OpeningOrder, ClosedInv, DiskInv, Kept, pipelineVars, mainVars, Legacy
<1> QED
  BY <1>2, <1>3, <1>4, <1>5 DEF OpeningOrder

\* A damaged database is set aside, and the user told.
LEMMA OpenDamagedKeeps ==
    ASSUME OpeningOrder, OpenDamaged PROVE OpeningOrder'
<1>1. /\ screen = "off" /\ database = "damaged" /\ aside' = aside \cup {stored}
      /\ stored' = Absent /\ database' = "sound" /\ schema' = "current" /\ screen' = "recovery"
      /\ recovery' = [error |-> "database", source |-> stored]
      /\ UNCHANGED <<pageVars, deferred, migration, legacy, backups, truth, replaced, edits>>
  BY DEF OpenDamaged, SetAside, ShowsRecovery, faultVars
<1>2. /\ TypeInv /\ NoPage /\ deferred = FALSE /\ migration = "idle" /\ stored # Absent /\ truth = stored
      /\ stored \in Works(edits) /\ DiskInv
  BY <1>1 DEF OpeningOrder, TypeInv, ClosedInv, OffInv, DiskInv
<1>3. recovery'.error = "database" /\ recovery'.source = stored
      /\ recovery' \in [error : {"database", "legacy"}, source : Works(edits)]
      /\ recovery' # None
  <2>1. recovery' \in [error : {"database", "legacy"}, source : Works(edits)]
    BY <1>1, <1>2
  <2>2. recovery' \in [error : {"database", "legacy"}, source : Workspace]
    BY <1>1, <1>2, LegacyShape
  <2> QED
    BY <1>1, <2>1, <2>2, OpeningAssumption
<1>4. TypeInv'
  BY <1>1, <1>2, <1>3, LegacyShape DEF TypeInv, pageVars
<1>5. ClosedInv' /\ UsableInv' /\ OffInv'
  BY <1>1, <1>2 DEF ClosedInv, UsableInv, OffInv, NoPage, pageVars
<1>6. RecoveryInv'
  <2>1. recovery'.source \in Kept'
    BY <1>1, <1>3 DEF Kept
  <2> QED
    BY <1>1, <1>2, <1>3, <2>1 DEF RecoveryInv
<1>7. DiskInv'
  BY <1>1, <1>2 DEF DiskInv, Kept, Legacy
<1> QED
  BY <1>4, <1>5, <1>6, <1>7 DEF OpeningOrder

\* So is the user of one that does not load.
LEMMA OpenUnreadableKeeps ==
    ASSUME OpeningOrder, OpenUnreadable PROVE OpeningOrder'
<1>1. /\ screen = "off" /\ database = "unreadable" /\ screen' = "recovery" /\ recovery' = None
      /\ UNCHANGED <<pageVars, deferred, migration, stored, diskVars, truth, replaced, edits>>
  BY DEF OpenUnreadable, ShowsRecovery, faultVars
<1>2. /\ TypeInv /\ NoPage /\ deferred = FALSE /\ migration = "idle" /\ stored # Absent /\ truth = stored /\ DiskInv
  BY <1>1 DEF OpeningOrder, TypeInv, ClosedInv, OffInv, DiskInv
<1>3. TypeInv'
  BY <1>1, <1>2 DEF TypeInv, pageVars, diskVars
<1>4. ClosedInv' /\ UsableInv' /\ OffInv'
  BY <1>1, <1>2 DEF ClosedInv, UsableInv, OffInv, NoPage, pageVars
<1>5. RecoveryInv'
  <2>1. recovery' = None /\ database' = "unreadable" /\ stored' # Absent /\ truth' = stored'
    BY <1>1, <1>2 DEF diskVars
  <2> QED
    BY <2>1 DEF RecoveryInv
<1>6. DiskInv'
  BY <1>1, <1>2 DEF DiskInv, Kept, diskVars, Legacy
<1> QED
  BY <1>3, <1>4, <1>5, <1>6 DEF OpeningOrder

\* What is stored is shown.
LEMMA OpenStoredKeeps ==
    ASSUME OpeningOrder, OpenStored PROVE OpeningOrder'
<1>1. /\ screen = "off" /\ database = "sound" /\ (stored # Absent \/ legacy = None) /\ screen' = "usable"
      /\ ShowsLoaded(stored)
      /\ UNCHANGED <<inflight, stored, diskVars, deferred, recovery, migration, truth, replaced, edits>>
  BY DEF OpenStored, Opens, ShowsWorkspace, faultVars
<1>2. /\ TypeInv /\ inflight = <<>> /\ deferred = FALSE /\ migration = "idle" /\ DiskInv
      /\ stored \in Works(edits) /\ (stored = Absent \/ stored.stamp # None) /\ edits \in 0 .. MaxEdits
      /\ truth = stored
  <2>1. None # "unreadable"
    BY OpeningAssumption
  <2> QED
    BY <1>1, <2>1 DEF OpeningOrder, TypeInv, ClosedInv, NoPage, OffInv
<1>3. Projection' = stored
  BY <1>1, <1>2 DEF Projection
<1>4. /\ PageInv' /\ data' \in Works(edits) /\ lastPersisted' \in Works(edits) /\ inflight' \in Seq(Saves(edits))
      /\ effect' \in BOOLEAN /\ skip' \in (0 .. edits) \cup {None}
      /\ attempt' \in Nat /\ passive' \in 0 .. attempt' /\ status' \in {"saving", "saved", "failed"}
  BY <1>1, <1>2, <1>3, LoadedBegins
<1>5. TypeInv'
  BY <1>1, <1>2, <1>4 DEF TypeInv, diskVars
<1>6. ClosedInv' /\ UsableInv' /\ OffInv' /\ RecoveryInv'
  BY <1>1, <1>2, <1>3, <1>4 DEF ClosedInv, UsableInv, OffInv, RecoveryInv, diskVars
<1>7. DiskInv'
  BY <1>1, <1>2 DEF DiskInv, Kept, diskVars, Legacy
<1> QED
  BY <1>5, <1>6, <1>7 DEF OpeningOrder

\* So is what an earlier release left, or the user told that it is not readable.
LEMMA OpenLegacyKeeps ==
    ASSUME OpeningOrder, OpenLegacy PROVE OpeningOrder'
<1>1. /\ screen = "off" /\ database = "sound" /\ stored = Absent /\ legacy # None
      /\ aside' = aside \cup {Legacy}
      /\ UNCHANGED <<stored, database, schema, legacy, backups, truth, replaced, edits>>
  BY DEF OpenLegacy, Opens, SetAside, faultVars
<1>2. /\ TypeInv /\ NoPage /\ deferred = FALSE /\ migration = "idle" /\ DiskInv
      /\ truth = Legacy \/ (truth = Absent /\ legacy = "unreadable")
  BY <1>1 DEF OpeningOrder, TypeInv, ClosedInv, OffInv
<1>3. CASE legacy = "unreadable"
  <2>1. /\ screen' = "recovery" /\ recovery' = [error |-> "legacy", source |-> Legacy]
        /\ UNCHANGED <<pageVars, deferred, migration>>
    BY <1>3 DEF OpenLegacy, ShowsRecovery
  <2>2. /\ recovery'.error = "legacy" /\ recovery'.source = Legacy /\ recovery' # None
        /\ recovery' \in [error : {"database", "legacy"}, source : Works(edits)]
    <3>1. recovery' \in [error : {"database", "legacy"}, source : Works(edits)]
      BY <1>2, <2>1, LegacyShape
    <3>2. recovery' \in [error : {"database", "legacy"}, source : Workspace]
      BY <1>2, <2>1, LegacyShape
    <3> QED
      BY <2>1, <3>1, <3>2, OpeningAssumption
  <2>3. TypeInv'
    BY <1>1, <1>2, <2>1, <2>2, LegacyShape DEF TypeInv, pageVars
  <2>4. ClosedInv' /\ UsableInv' /\ OffInv'
    BY <1>2, <2>1 DEF ClosedInv, UsableInv, OffInv, NoPage, pageVars
  <2>5. RecoveryInv'
    <3>1. recovery'.source \in Kept'
      BY <1>1, <2>2 DEF Kept
    <3>2. Legacy' = Legacy
      BY DEF Legacy
    <3> QED
      BY <1>1, <1>2, <1>3, <2>1, <2>2, <3>1, <3>2 DEF RecoveryInv
  <2>6. DiskInv'
    BY <1>1, <1>2, <2>1 DEF DiskInv, Kept, Legacy
  <2> QED
    BY <2>3, <2>4, <2>5, <2>6 DEF OpeningOrder
<1>4. CASE legacy # "unreadable"
  <2>1. /\ deferred' = TRUE /\ screen' = "usable" /\ ShowsLoaded(Legacy)
        /\ UNCHANGED <<recovery, migration, inflight>>
    BY <1>4 DEF OpenLegacy, ShowsWorkspace
  <2>2. Projection' = Legacy /\ truth = Legacy /\ inflight' = <<>>
    BY <1>2, <1>4, <2>1 DEF Projection, Legacy, NoPage
  <2>3. Legacy \in Works(edits) /\ Legacy.stamp # None /\ edits \in 0 .. MaxEdits
    BY <1>2, LegacyShape
  <2>4. /\ PageInv' /\ data' \in Works(edits) /\ lastPersisted' \in Works(edits) /\ inflight' \in Seq(Saves(edits))
        /\ effect' \in BOOLEAN /\ skip' \in (0 .. edits) \cup {None}
        /\ attempt' \in Nat /\ passive' \in 0 .. attempt' /\ status' \in {"saving", "saved", "failed"}
    BY <2>1, <2>2, <2>3, LoadedBegins
  <2>5. TypeInv'
    BY <1>1, <1>2, <2>1, <2>3, <2>4 DEF TypeInv
  <2>6. ClosedInv' /\ UsableInv' /\ OffInv' /\ RecoveryInv'
    BY <1>1, <2>1, <2>2, <2>4 DEF ClosedInv, UsableInv, OffInv, RecoveryInv
  <2>7. DiskInv'
    <3>1. legacy \in {"sound", "unchecked"}
      BY <1>1, <1>2, <1>4 DEF TypeInv
    <3> QED
      BY <1>1, <1>2, <2>1, <3>1 DEF DiskInv, Kept, Legacy
  <2> QED
    BY <2>5, <2>6, <2>7 DEF OpeningOrder
<1> QED
  BY <1>3, <1>4

-----------------------------------------------------------------------------
(* Migration *)

\* The migration of a legacy workspace keeps the invariant.
LEMMA MigrationKeeps ==
    ASSUME OpeningOrder, QueueMigration \/ MigrationCommits \/ MigrationAccepted \/ MigrationFails
    PROVE  OpeningOrder'
<1>1. /\ UNCHANGED <<pageVars, diskVars, recovery, screen, truth, replaced, edits>>
      /\ \/ deferred /\ migration = "idle" /\ migration' = "running" /\ UNCHANGED <<stored, deferred>>
         \/ migration = "running" /\ migration' = "committed" /\ stored' = Materialized /\ UNCHANGED deferred
         \/ migration = "committed" /\ migration' = "accepted" /\ deferred' = FALSE /\ UNCHANGED stored
         \/ migration = "running" /\ migration' = "failed" /\ UNCHANGED <<stored, deferred>>
  BY DEF QueueMigration, MigrationCommits, MigrationAccepted, MigrationFails, pipelineVars, faultVars, pageVars
<1>2. /\ TypeInv /\ DiskInv /\ deferred = TRUE /\ screen = "usable" /\ PageInv /\ truth = Projection
      /\ database = "sound" /\ legacy \in {"sound", "unchecked"}
      /\ stored = IF migration = "committed" THEN Legacy ELSE Absent
  <2>1. TypeInv /\ DiskInv /\ deferred = TRUE
    BY <1>1 DEF OpeningOrder, DiskInv, TypeInv
  <2>2. screen = "usable"
    BY <2>1 DEF OpeningOrder, ClosedInv
  <2> QED
    BY <2>1, <2>2 DEF OpeningOrder, UsableInv, DiskInv
<1>3. Projection = Legacy /\ Projection' = Legacy
  BY <1>1, <1>2, LegacyShape DEF Projection, Materialized, Legacy
<1>4. PageInv'
  BY <1>1, <1>2, <1>3, PageKept
<1>5. /\ stored' \in Works(edits) /\ (stored' = Absent \/ stored'.stamp # None) /\ deferred' \in BOOLEAN
      /\ migration' \in {"idle", "running", "committed", "accepted", "failed"}
  BY <1>1, <1>2, LegacyShape DEF Materialized
<1>6. TypeInv'
  BY <1>1, <1>2, <1>5 DEF TypeInv, pageVars, diskVars
<1>7. ClosedInv' /\ UsableInv' /\ OffInv' /\ RecoveryInv'
  BY <1>1, <1>2, <1>3, <1>4 DEF ClosedInv, UsableInv, OffInv, RecoveryInv, diskVars
<1>8. DiskInv'
  <2>1. Kept' = Kept /\ database' = "sound" /\ legacy' = legacy
    BY <1>1, <1>2 DEF Kept, diskVars, Legacy
  <2>2. deferred' => /\ migration' # "accepted"
                     /\ stored' = IF migration' = "committed" THEN Legacy ELSE Absent
    BY <1>1, <1>2 DEF Materialized
  <2>3. migration' \in {"running", "committed"} => deferred'
    BY <1>1, <1>2
  <2> QED
    BY <1>1, <1>2, <2>1, <2>2, <2>3 DEF DiskInv, Legacy
<1> QED
  BY <1>6, <1>7, <1>8 DEF OpeningOrder

-----------------------------------------------------------------------------
(* Recovery *)

\* The user's work is in a file, or in the database.
LEMMA TruthIsKept ==
    ASSUME OpeningOrder
    PROVE  /\ truth \in Kept \cup {Absent, stored}
           /\ screen # "off" => truth \in Kept \cup {Absent} \/ (truth = stored /\ (database = "unreadable" => screen = "recovery"))
<1>1. Legacy \in Kept \/ legacy = None
  BY DEF Kept
<1>2. CASE screen = "off"
  BY <1>1, <1>2 DEF OpeningOrder, OffInv
<1>3. CASE screen = "usable"
  <2>1. truth = Projection /\ (deferred => Legacy \in Kept) /\ database = "sound"
    <3>1. deferred => legacy # None
      BY OpeningAssumption DEF OpeningOrder, DiskInv
    <3> QED
      BY <1>1, <1>3, <3>1 DEF OpeningOrder, UsableInv
  <2> QED
    BY <1>3, <2>1 DEF Projection
<1>4. CASE screen = "recovery"
  BY <1>1, <1>4 DEF OpeningOrder, RecoveryInv
<1>5. screen \in {"off", "usable", "recovery"}
  BY DEF OpeningOrder, TypeInv
<1> QED
  BY <1>2, <1>3, <1>4, <1>5

\* A backup keeps all there is.
LEMMA BackupKeeps ==
    ASSUME OpeningOrder, Backup, UNCHANGED legacy
    PROVE  /\ Kept \subseteq Kept' /\ stored \in Kept' \cup {Absent}
           /\ backups' \subseteq {w \in Works(edits) : w.stamp # None} /\ aside' \subseteq Works(edits)
<1>1. TypeInv /\ Legacy' = Legacy
  BY DEF OpeningOrder, Legacy
<1> QED
  BY <1>1 DEF Backup, SetAside, Kept, TypeInv

\* A workspace that replaces the user's work on a page that opens keeps the invariant.
LEMMA ReplacementKeeps ==
    ASSUME OpeningOrder, Recovers, Backup, NEW w \in Works(edits), w = Absent \/ w.stamp # None,
           stored' = w, truth' = w, deferred' = FALSE, ShowsWorkspace(w),
           UNCHANGED <<schema, legacy, migration, edits>>
    PROVE  OpeningOrder'
<1>1. /\ inflight = <<>> /\ migration \notin {"running", "committed"}
      /\ replaced' = replaced \cup {truth} /\ recovery' = None /\ database' = "sound"
      /\ screen' = "usable" /\ ShowsLoaded(w) /\ inflight' = inflight
  BY DEF Recovers, Flushed, ShowsWorkspace
<1>2. TypeInv /\ DiskInv /\ edits \in 0 .. MaxEdits
  BY DEF OpeningOrder, TypeInv
<1>3. Projection' = w /\ inflight' = <<>>
  BY <1>1 DEF Projection
<1>4. /\ PageInv' /\ data' \in Works(edits) /\ lastPersisted' \in Works(edits) /\ inflight' \in Seq(Saves(edits))
      /\ effect' \in BOOLEAN /\ skip' \in (0 .. edits) \cup {None}
      /\ attempt' \in Nat /\ passive' \in 0 .. attempt' /\ status' \in {"saving", "saved", "failed"}
  BY <1>1, <1>2, <1>3, LoadedBegins
<1>5. /\ Kept \subseteq Kept' /\ stored \in Kept' \cup {Absent}
      /\ backups' \subseteq {v \in Works(edits) : v.stamp # None} /\ aside' \subseteq Works(edits)
  BY BackupKeeps
<1>6. TypeInv'
  BY <1>1, <1>2, <1>4, <1>5 DEF TypeInv
<1>7. ClosedInv' /\ UsableInv' /\ OffInv' /\ RecoveryInv'
  BY <1>1, <1>3, <1>4 DEF ClosedInv, UsableInv, OffInv, RecoveryInv
<1>8. DiskInv'
  <2>1. replaced' \subseteq Kept' \cup {Absent}
    BY <1>1, <1>2, <1>5, TruthIsKept DEF DiskInv
  <2> QED
    BY <1>1, <2>1 DEF DiskInv
<1> QED
  BY <1>6, <1>7, <1>8 DEF OpeningOrder

\* A backup that is restored keeps the invariant.
LEMMA RestoreBackupKeeps ==
    ASSUME OpeningOrder, NEW w \in backups, RestoreBackup(w) PROVE OpeningOrder'
<1>1. w \in Works(edits) /\ w.stamp # None /\ deferred \in BOOLEAN
  BY DEF OpeningOrder, TypeInv
<1> QED
  BY <1>1, ReplacementKeeps DEF RestoreBackup

\* A workspace that is erased keeps the invariant.
LEMMA ClearKeeps ==
    ASSUME OpeningOrder, Clear PROVE OpeningOrder'
<1>1. Absent \in Works(edits)
  BY LegacyShape DEF OpeningOrder
<1> QED
  BY <1>1, ReplacementKeeps DEF Clear, Erase

\* A window that reloads keeps the invariant.
LEMMA ReloadKeeps ==
    ASSUME Overlap = {}, OpeningOrder, Reload PROVE OpeningOrder'
<1>1. /\ screen = "usable" /\ ShowsLoaded(Projection)
      /\ \A k \in DOMAIN inflight : inflight[k].result # "sent"
      /\ UNCHANGED <<stored, mainVars, diskVars, screen, truth, replaced, edits>>
  BY DEF Reload, faultVars
<1>2. PICK done \in 0 .. Len(inflight) :
         /\ \A k \in DOMAIN inflight : inflight[k].result = "sent" <=> k > done
         /\ inflight' = [k \in 1 .. Len(inflight) - done |-> [inflight[done + k] EXCEPT !.kind = "abandoned"]]
  BY DEF Reload
<1>3. TypeInv /\ PageInv /\ truth = Projection /\ edits \in 0 .. MaxEdits /\ database = "sound"
  BY <1>1 DEF OpeningOrder, UsableInv, TypeInv
<1>4. inflight' = <<>>
  <2>1. done = Len(inflight) /\ Len(inflight) \in Nat
    <3>1. Len(inflight) \in Nat /\ DOMAIN inflight = 1 .. Len(inflight)
      BY <1>3, StepShape
    <3>2. done < Len(inflight) => Len(inflight) \in DOMAIN inflight /\ Len(inflight) > done
      BY <3>1
    <3> QED
      BY <1>1, <1>2, <3>1, <3>2
  <2>2. 1 .. Len(inflight) - done = {} /\ 1 .. 0 = {}
    BY <2>1
  <2>3. inflight' = [k \in 1 .. 0 |-> [inflight[done + k] EXCEPT !.kind = "abandoned"]]
    BY <1>2, <2>2
  <2>4. inflight' \in [1 .. 0 -> {}]
    BY <2>2, <2>3
  <2>5. inflight' \in Seq({}) /\ Len(inflight') = 0
    BY <2>2, <2>4, SeqDef
  <2> QED
    BY <2>5, EmptySeq
<1>5. Projection' = Projection
  BY <1>1 DEF Projection, mainVars, Legacy
<1>6. Projection \in Works(edits) /\ (Projection = Absent \/ Projection.stamp # None)
  BY <1>3, LegacyShape DEF Projection, TypeInv
<1>7. /\ PageInv' /\ data' \in Works(edits) /\ lastPersisted' \in Works(edits) /\ inflight' \in Seq(Saves(edits))
      /\ effect' \in BOOLEAN /\ skip' \in (0 .. edits) \cup {None}
      /\ attempt' \in Nat /\ passive' \in 0 .. attempt' /\ status' \in {"saving", "saved", "failed"}
  BY <1>1, <1>3, <1>4, <1>5, <1>6, LoadedBegins
<1> QED
  BY <1>1, <1>3, <1>5, <1>7, PageStep, PipelineAssumption DEF TypeInv, diskVars

\* An application that ends keeps the invariant.
LEMMA CrashKeeps ==
    ASSUME Overlap = {}, OpeningOrder, Crash PROVE OpeningOrder'
<1>1. /\ screen # "off" /\ screen' = "off" /\ recovery' = None /\ deferred' = FALSE /\ migration' = "idle"
      /\ inflight' = <<>> /\ PageOpens(Absent, Absent)
      /\ UNCHANGED <<stored, diskVars, truth, replaced, edits>>
      /\ ~(screen = "recovery" /\ stored = Absent /\ recovery.error = "database")
      /\ ~(truth = Absent /\ stored = Absent /\ legacy \in {"sound", "unchecked"})
  BY DEF Crash, Forgets, faultVars
<1>2. TypeInv /\ DiskInv
  BY DEF OpeningOrder
<1>3. NoPage'
  BY <1>1 DEF NoPage, PageOpens
<1>4. TypeInv'
  <2>1. Absent \in Works(edits) /\ <<>> \in Seq(Saves(edits))
    BY <1>2, LegacyShape
  <2>2. /\ data' = Absent /\ lastPersisted' = Absent /\ effect' = FALSE /\ skip' = None
        /\ attempt' = 0 /\ passive' = 0 /\ status' = "saved"
    BY <1>1 DEF PageOpens
  <2>3. /\ data' \in Works(edits') /\ lastPersisted' \in Works(edits') /\ inflight' \in Seq(Saves(edits'))
        /\ effect' \in BOOLEAN /\ skip' \in (0 .. edits') \cup {None} /\ status' \in {"saving", "saved", "failed"}
    <3>1. edits' = edits
      BY <1>1
    <3>2. inflight' \in Seq(Saves(edits'))
      BY <1>1, <2>1, <3>1
    <3> QED
      BY <2>1, <2>2, <3>1, <3>2
  <2>4. attempt' \in Nat /\ passive' \in 0 .. attempt'
    <3>1. 0 \in Nat /\ 0 \in 0 .. 0
      OBVIOUS
    <3> QED
      BY <2>2, <3>1
  <2> QED
    BY <1>1, <1>2, <2>3, <2>4 DEF TypeInv, diskVars
<1>5. ClosedInv' /\ UsableInv' /\ RecoveryInv'
  BY <1>1, <1>3 DEF ClosedInv, UsableInv, RecoveryInv
<1>6. \/ truth = IF stored = Absent /\ legacy # None THEN Legacy ELSE stored
      \/ truth = Absent /\ stored = Absent /\ legacy = "unreadable"
  <2>1. legacy \in {None, "sound", "unreadable", "unchecked"} /\ Legacy # Absent
        /\ None \notin {"sound", "unreadable", "unchecked"}
    BY <1>2, LegacyShape, OpeningAssumption DEF TypeInv
  <2>2. CASE screen = "usable" /\ deferred
    BY <2>1, <2>2 DEF OpeningOrder, UsableInv, DiskInv, Projection
  <2>3. CASE screen = "usable" /\ ~deferred
    BY <1>1, <2>1, <2>3 DEF OpeningOrder, UsableInv, Projection
  <2>4. CASE screen = "recovery"
    BY <1>1, <2>1, <2>4 DEF OpeningOrder, RecoveryInv
  <2> QED
    BY <1>1, <1>2, <2>2, <2>3, <2>4 DEF TypeInv
<1>7. OffInv'
  BY <1>1, <1>6 DEF OffInv, diskVars, Legacy
<1>8. DiskInv'
  BY <1>1, <1>2 DEF DiskInv, Kept, diskVars, Legacy
<1> QED
  BY <1>4, <1>5, <1>7, <1>8 DEF OpeningOrder

-----------------------------------------------------------------------------
(* The theorems *)

\* The invariant holds at the beginning.
LEMMA OpeningBegins == ASSUME Init PROVE OpeningOrder
<1>1. /\ database = "sound" /\ legacy \in {None, "sound", "unreadable", "unchecked"}
      /\ stored \in {Absent, Filled} /\ schema \in {"first", "current"}
      /\ backups = {} /\ aside = {} /\ replaced = {} /\ edits = 0
      /\ truth = IF stored = Absent /\ legacy # None THEN Legacy ELSE stored
      /\ screen = "off" /\ recovery = None /\ deferred = FALSE /\ migration = "idle" /\ NoPage
  BY DEF Init
<1>2. 0 \in 0 .. MaxEdits /\ 0 \in 0 .. 0
  BY PipelineAssumption
<1>3. /\ Absent \in Works(0) /\ Filled \in Works(0) /\ Filled.stamp # None
      /\ <<>> \in Seq(Saves(0))
  BY <1>2, FirstWorks
<1>4. /\ data = Absent /\ lastPersisted = Absent /\ inflight = <<>> /\ effect = FALSE /\ skip = None
      /\ attempt = 0 /\ passive = 0 /\ status = "saved"
  BY <1>1 DEF NoPage
<1>5. truth \in Works(0) /\ stored \in Works(0) /\ (stored = Absent \/ stored.stamp # None)
  BY <1>1, <1>3 DEF Legacy
<1>6. /\ data \in Works(edits) /\ lastPersisted \in Works(edits) /\ inflight \in Seq(Saves(edits))
      /\ effect \in BOOLEAN /\ skip \in (0 .. edits) \cup {None} /\ attempt \in Nat
      /\ passive \in 0 .. attempt /\ status \in {"saving", "saved", "failed"}
  BY <1>1, <1>2, <1>3, <1>4
<1>7. TypeInv
  BY <1>1, <1>2, <1>5, <1>6 DEF TypeInv
<1> QED
  BY <1>1, <1>7 DEF OpeningOrder, ClosedInv, UsableInv, OffInv, RecoveryInv, DiskInv

\* Every step keeps the invariant.
LEMMA OpeningContinues ==
    ASSUME Overlap = {}, OpeningOrder, [Next]_vars PROVE OpeningOrder'
<1>1. CASE Harm
  BY <1>1, HarmKeeps
<1>2. CASE OpenDamaged
  BY <1>2, OpenDamagedKeeps
<1>3. CASE OpenUnreadable
  BY <1>3, OpenUnreadableKeeps
<1>4. CASE Upgrade
  BY <1>4, UpgradeKeeps
<1>5. CASE OpenStored
  BY <1>5, OpenStoredKeeps
<1>6. CASE OpenLegacy
  BY <1>6, OpenLegacyKeeps
<1>7. CASE QueueMigration \/ MigrationCommits \/ MigrationAccepted \/ MigrationFails
  BY <1>7, MigrationKeeps
<1>8. CASE Edit
  BY <1>8, EditKeeps
<1>9. CASE Answered
  BY <1>9, AnswerKeeps
<1>10. ASSUME NEW k \in DOMAIN inflight, Commit(k) \/ Fail(k) \/ Reject(k) PROVE OpeningOrder'
  BY <1>10, CommitKeeps, FailKeeps
<1>11. ASSUME NEW w \in backups, RestoreBackup(w) PROVE OpeningOrder'
  BY <1>11, RestoreBackupKeeps
<1>12. CASE StartEmpty \/ ResetData
  BY <1>12, ClearKeeps DEF StartEmpty, ResetData
<1>13. CASE Reload
  BY <1>13, ReloadKeeps
<1>14. CASE Crash
  BY <1>14, CrashKeeps
<1>15. CASE UNCHANGED vars
  <2>1. /\ UNCHANGED <<stored, data, lastPersisted, inflight, effect, skip, attempt, passive, status, edits>>
        /\ UNCHANGED <<pipelineVars, pageVars, mainVars, diskVars, screen, truth, replaced>>
    BY <1>15 DEF vars, pipelineVars, pageVars
  <2>2. TypeInv'
    BY <2>1 DEF OpeningOrder, TypeInv, mainVars, diskVars
  <2>3. Projection' = Projection
    BY <2>1 DEF Projection, mainVars, Legacy
  <2>4. PageInv => PageInv'
    BY <2>1, <2>3, PageKept
  <2>5. UsableInv'
    BY <2>1, <2>3, <2>4 DEF OpeningOrder, UsableInv, diskVars
  <2>6. ClosedInv'
    BY <2>1 DEF OpeningOrder, ClosedInv, NoPage, mainVars
  <2>7. OffInv' /\ RecoveryInv' /\ DiskInv'
    BY <2>1 DEF OpeningOrder, OffInv, RecoveryInv, DiskInv, Kept, mainVars, diskVars, Legacy
  <2> QED
    BY <2>2, <2>5, <2>6, <2>7 DEF OpeningOrder
<1> QED
  BY <1>1, <1>2, <1>3, <1>4, <1>5, <1>6, <1>7, <1>8, <1>9, <1>10, <1>11, <1>12, <1>13, <1>14, <1>15 DEF Next

\* The invariant always holds.
LEMMA OpeningStaysInOrder == ASSUME Overlap = {} PROVE Spec => []OpeningOrder
<1>1. Init => OpeningOrder
  BY OpeningBegins
<1>2. OpeningOrder /\ [Next]_vars => OpeningOrder'
  BY OpeningContinues
<1> QED
  BY <1>1, <1>2, PTL DEF Spec

\* The variables have their types.
LEMMA OpeningTypes == ASSUME OpeningOrder PROVE PipelineTypeOK /\ OpeningTypeOK
<1>1. TypeInv /\ edits \in 0 .. MaxEdits /\ edits \in Nat
  BY PipelineAssumption DEF OpeningOrder, TypeInv
<1>2. Works(edits) \subseteq Workspace /\ \A w \in Works(edits) : Tidy(w)
  BY DEF Works
<1>3. OpeningTypeOK
  BY <1>1, <1>2 DEF TypeInv, OpeningTypeOK
<1>4. ASSUME NEW k \in DOMAIN inflight
      PROVE  /\ {inflight[k].snapshot, inflight[k].before} \subseteq Workspace
             /\ inflight[k].kind \in {"add", "update", "passive", "retry", "abandoned"}
             /\ k \in Live => inflight[k].attempt \in 1 .. attempt
             /\ inflight[k].result = "sent" => \A j \in k .. Len(inflight) : inflight[j].result = "sent"
  <2>1. inflight[k] \in Saves(edits) /\ Len(inflight) \in Nat /\ DOMAIN inflight = 1 .. Len(inflight)
    BY <1>1, StepShape
  <2>2. QueueInOrder
    <3>1. inflight # <<>>
      OBVIOUS
    <3> QED
      BY <1>1, <3>1 DEF OpeningOrder, ClosedInv, NoPage, UsableInv, PageInv, TypeInv
  <2>3. \A j \in k .. Len(inflight) : j \in DOMAIN inflight /\ (j = k \/ k < j)
    BY <2>1
  <2>4. inflight[k].result = "sent" => \A j \in k .. Len(inflight) : inflight[j].result = "sent"
    BY <2>2, <2>3 DEF QueueInOrder
  <2> QED
    BY <1>2, <2>1, <2>2, <2>4 DEF Saves, Kinds, QueueInOrder
<1>5. /\ {stored, data, lastPersisted} \subseteq Workspace
      /\ \A w \in {stored, data, lastPersisted}, i \in Items : 0 \in {w.items[i], w.trash[i]}
  BY <1>1, <1>2 DEF TypeInv, Tidy
<1>6. skip \in Stamps \cup {None}
  BY <1>1, PipelineAssumption DEF TypeInv, Stamps
<1> QED
  BY <1>1, <1>3, <1>4, <1>5, <1>6 DEF PipelineTypeOK, TypeInv

\* The invariant says that the renderer is right about what is stored, that what is
\* shown is what was saved, that nothing is lost and that the original is kept.
LEMMA OrderSuffices == ASSUME OpeningOrder PROVE OpeningInv
<1>1. TypeInv
  BY DEF OpeningOrder
<1>2. PersistedIsStored /\ SavedIsSeen
  <2> SUFFICES ASSUME screen = "usable", inflight = <<>>
               PROVE  /\ lastPersisted = Projection
                      /\ ~effect /\ status # "failed" => data = truth
    BY DEF PersistedIsStored, SavedIsSeen
  <2>1. PageInv /\ truth = Projection
    BY DEF OpeningOrder, UsableInv
  <2>2. Projection = lastPersisted
    <3>1. Len(inflight) = 0 /\ 0 .. 0 = {0}
      OBVIOUS
    <3>2. Projection = Step(0)
      BY <2>1, <3>1 DEF PageInv, StoredIsStep
    <3> QED
      BY <1>1, <3>2, StepShape
  <2>3. ~effect /\ status # "failed" => data = lastPersisted
    BY <2>1 DEF PageInv, StatusInOrder, Waiting, Settled
  <2> QED
    BY <2>1, <2>2, <2>3
<1>3. NothingLost
  BY TruthIsKept DEF NothingLost, OpeningOrder, DiskInv, Kept
<1>4. OriginalIsKept
  BY DEF OpeningOrder, RecoveryInv, OriginalIsKept, CanExportOriginal
<1> QED
  BY <1>2, <1>3, <1>4, OpeningTypes DEF OpeningInv

\* With no overlap a user who is not told of a failure sees the work as it was last
\* saved, the renderer is right about what is stored, work that was acknowledged is in
\* some file, and while a user has to recover it is what the recovery screen exports or
\* is still in the database that did not load (AppContext.tsx, storage.ts,
\* workspace-store.ts, WorkspaceRecovery.tsx).
THEOREM OpeningInvariance == ASSUME Overlap = {} PROVE Spec => []OpeningInv
<1>1. OpeningOrder => OpeningInv
  BY OrderSuffices
<1>2. Spec => []OpeningOrder
  BY OpeningStaysInOrder
<1> QED
  BY <1>1, <1>2, PTL

\* With no overlap no save replaces a note by an older version of it (AppContext.tsx,
\* main.ts).
THEOREM SavesNeverRegress == ASSUME Overlap = {} PROVE Spec => NoRegression
<1> DEFINE Latest(w, i) == {w.items[i], w.trash[i]} \ {0}
           Newer == \A i \in Items :
                       LET latest(w) == {w.items[i], w.trash[i]} \ {0}
                       IN  latest(stored) # {} /\ latest(stored)' # {} =>
                               \A before \in latest(stored), after \in latest(stored)' : after >= before
           Save == Len(inflight') = Len(inflight) /\ inflight' # inflight
<1>1. ASSUME NEW n \in 0 .. MaxEdits, stored \in Works(n), stored' \in Works(n), Advances(stored, stored')
      PROVE  Newer
  <2> SUFFICES ASSUME NEW i \in Items, NEW before \in Latest(stored, i), NEW after \in Latest(stored', i)
               PROVE  after >= before
    OBVIOUS
  <2>1. \A w \in {stored, stored'} :
           w.items[i] \in Nat /\ w.trash[i] \in Nat /\ (w.items[i] = 0 \/ w.trash[i] = 0)
    BY <1>1, WorksShape, PipelineAssumption DEF Tidy
  <2>2. before = Version(stored, i) /\ after = Version(stored', i) /\ ~Gone(stored, i) /\ ~Gone(stored', i)
    BY <2>1 DEF Version, Gone
  <2> QED
    BY <1>1, <2>2 DEF Advances
<1>2. ASSUME OpeningOrder, Next, Save PROVE Newer
  <2>1. TypeInv /\ edits \in 0 .. MaxEdits /\ edits \in Nat
    BY <1>2, PipelineAssumption DEF OpeningOrder, TypeInv
  <2>2. CASE stored' = stored
    BY <1>1, <2>1, <2>2, AdvancesToItself DEF TypeInv
  <2>3. ASSUME NEW k \in DOMAIN inflight, Commit(k) PROVE Newer
    <3>1. Migrated /\ FirstInQueue(k) /\ stored' = AfterChanges(stored, inflight[k].change)
      BY <2>3 DEF Commit, CommitSave
    <3>2. stored' \in Works(edits) /\ Advances(stored, stored')
      BY <1>2, <3>1, CommitLeads
    <3> QED
      BY <1>1, <2>1, <3>2 DEF TypeInv
  <2>4. stored' = stored \/ \E k \in DOMAIN inflight : Commit(k)
    <3>1. inflight' # inflight
      BY <1>2
    <3>2. ~OpenDamaged /\ ~MigrationCommits /\ ~StartEmpty /\ ~ResetData /\ \A w \in backups : ~RestoreBackup(w)
      BY <3>1 DEF OpenDamaged, MigrationCommits, StartEmpty, ResetData, Clear, RestoreBackup,
                  ShowsRecovery, ShowsWorkspace, pageVars
    <3>3. Edit => stored' = stored
      BY DEF Edit, Edits, PassiveEffect, RetryPersistence, AddItem, UpdateItem, UpdateItemsBulk,
             DeleteItem, RestoreItem, PurgeItem, Awaited, SetData
    <3>4. Harm \/ OpenUnreadable \/ Upgrade \/ OpenStored \/ OpenLegacy => stored' = stored
      BY DEF Harm, OpenUnreadable, Upgrade, OpenStored, OpenLegacy, pipelineVars
    <3>5. QueueMigration \/ MigrationAccepted \/ MigrationFails \/ Answered \/ Reload \/ Crash => stored' = stored
      BY DEF QueueMigration, MigrationAccepted, MigrationFails, Answered, Answer, Reload, Crash, pipelineVars
    <3>6. \A k \in DOMAIN inflight : Fail(k) \/ Reject(k) => stored' = stored
      BY DEF Fail, FailSave, Reject
    <3> QED
      BY <1>2, <3>2, <3>3, <3>4, <3>5, <3>6 DEF Next
  <2> QED
    BY <2>2, <2>3, <2>4
<1>3. OpeningOrder /\ [Next]_vars => [Save => Newer]_vars
  BY <1>2
<1>4. [][Save => Newer]_vars <=> NoRegression
  BY DEF NoRegression
<1> HIDE DEF Save, Newer
<1>5. Spec => []OpeningOrder
  BY OpeningStaysInOrder
<1> QED
  BY <1>3, <1>4, <1>5, PTL DEF Spec

=============================================================================
