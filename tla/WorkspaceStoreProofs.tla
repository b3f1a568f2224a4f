------------------------ MODULE WorkspaceStoreProofs ------------------------
(***************************************************************************)
(* Proofs about WorkspaceStore, for handlers that do not run while a       *)
(* restore waits (~Overlap) and collections that have their decks          *)
(* (Unfiled = {}): the caches are what a restart loads, every journal      *)
(* replays, receipts mean applied patches, no media lose their bytes, and  *)
(* the store implements DurableWorkspace.                                  *)
(*                                                                         *)
(* First what Replay computes, which needs an induction over the journal;  *)
(* then what change sets and patches do to a document and the projection   *)
(* of it; then the inductive invariant, one lemma per handler, and the     *)
(* theorems.                                                               *)
(***************************************************************************)
EXTENDS WorkspaceStore, SequenceTheorems, WellFoundedInduction, TLAPS

-----------------------------------------------------------------------------
(* Induction as a fact about sets, which first-order provers can use: the  *)
(* theorems of NaturalsInduction quantify over predicates, those of        *)
(* WellFoundedInduction about relations do not.                            *)

Less == {p \in Nat \X Nat : p[1] < p[2]}

\* Every set of naturals has a least element.
LEMMA LeastNatural ==
    ASSUME NEW T, T \subseteq Nat, T # {}
    PROVE  \E m \in T : \A n \in T : m <= n
<1>1. IsWellFoundedOn(Less, Nat)
  BY NatLessThanWellFounded DEF OpToRel, Less
<1>2. PICK m \in T : \A n \in T : <<n, m>> \notin Less
  BY <1>1, WFMin
<1>3. ASSUME NEW n \in T PROVE m <= n
  <2>1. m \in Nat /\ n \in Nat
    OBVIOUS
  <2>2. ~(n < m)
    BY <1>2, <2>1 DEF Less
  <2> QED
    BY <2>1, <2>2
<1> QED
  BY <1>3

\* Induction: a set with 0 that is closed under successors up to a bound holds
\* everything up to the bound.
LEMMA BoundedInduction ==
    ASSUME NEW T, NEW bound \in Nat, 0 \in T,
           \A n \in 0 .. bound : n < bound /\ n \in T => n + 1 \in T
    PROVE  0 .. bound \subseteq T
<1> SUFFICES ASSUME (0 .. bound) \ T # {} PROVE FALSE
  OBVIOUS
<1>1. PICK m \in (0 .. bound) \ T : \A n \in (0 .. bound) \ T : m <= n
  <2>1. (0 .. bound) \ T \subseteq Nat
    OBVIOUS
  <2> QED
    BY <2>1, LeastNatural
<1>2. m # 0 /\ m - 1 \in 0 .. bound /\ m - 1 < bound
  OBVIOUS
<1>3. m - 1 \in T
  BY <1>1, <1>2
<1>4. (m - 1) + 1 \in T
  BY <1>2, <1>3
<1> QED
  BY <1>4

\* What one entry of the journal makes of the outcomes before it.
After(outcomes, entry, fresh) ==
    {ReplayEntry(state, entry, fresh) : state \in {s \in outcomes : Accepts(s.document, entry)}}

First(document) == {[document |-> document, projection |-> Project(document)]}

\* f gives the outcomes of the first entries of the journal, up to the bound.
Unfolds(f, document, journal, fresh, bound) ==
    f = [n \in 0 .. bound |-> IF n = 0 THEN First(document) ELSE After(f[n - 1], journal[n], fresh)]

\* Two tables of outcomes agree as far as the shorter goes.
LEMMA UnfoldingIsUnique ==
    ASSUME NEW document, NEW journal, NEW fresh, NEW low \in Nat, NEW high \in Nat, low <= high,
           NEW f, NEW g, Unfolds(f, document, journal, fresh, low), Unfolds(g, document, journal, fresh, high)
    PROVE  \A n \in 0 .. low : f[n] = g[n]
<1> DEFINE T == {n \in 0 .. low : f[n] = g[n]}
<1>1. 0 \in T
  BY DEF Unfolds
<1>2. \A n \in 0 .. low : n < low /\ n \in T => n + 1 \in T
  <2> SUFFICES ASSUME NEW n \in 0 .. low, n < low, f[n] = g[n] PROVE f[n + 1] = g[n + 1]
    OBVIOUS
  <2>1. n + 1 \in 0 .. low /\ n + 1 \in 0 .. high /\ n + 1 # 0 /\ (n + 1) - 1 = n
    OBVIOUS
  <2>2. f[n + 1] = After(f[n], journal[n + 1], fresh)
    BY <2>1 DEF Unfolds
  <2>3. g[n + 1] = After(g[n], journal[n + 1], fresh)
    BY <2>1 DEF Unfolds
  <2> QED
    BY <2>2, <2>3
<1>3. 0 .. low \subseteq T
  <2> HIDE DEF T
  <2> QED
    BY <1>1, <1>2, BoundedInduction
<1> QED
  BY <1>3

\* There is a table of outcomes for every journal.
LEMMA UnfoldingExists ==
    ASSUME NEW document, NEW journal, NEW fresh, NEW bound \in Nat
    PROVE  \E f : Unfolds(f, document, journal, fresh, bound)
<1> DEFINE T == {n \in 0 .. bound : \E f : Unfolds(f, document, journal, fresh, n)}
<1>1. 0 \in T
  <2> DEFINE f == [n \in 0 .. 0 |-> First(document)]
  <2>1. Unfolds(f, document, journal, fresh, 0)
    BY DEF Unfolds
  <2> QED
    BY <2>1
<1>2. \A n \in 0 .. bound : n < bound /\ n \in T => n + 1 \in T
  <2> SUFFICES ASSUME NEW n \in 0 .. bound, n < bound, NEW f, Unfolds(f, document, journal, fresh, n)
               PROVE  \E g : Unfolds(g, document, journal, fresh, n + 1)
    OBVIOUS
  <2>1. PICK g : g = [k \in 0 .. n + 1 |-> IF k = n + 1 THEN After(f[n], journal[n + 1], fresh) ELSE f[k]]
    OBVIOUS
  <2>2. ASSUME NEW k \in 0 .. n + 1
        PROVE  g[k] = IF k = 0 THEN First(document) ELSE After(g[k - 1], journal[k], fresh)
    <3>1. CASE k = n + 1
      BY <2>1, <3>1
    <3>2. CASE k # n + 1
      <4>1. k \in 0 .. n /\ g[k] = f[k] /\ (k # 0 => k - 1 \in 0 .. n /\ g[k - 1] = f[k - 1])
        BY <2>1, <3>2
      <4> QED
        BY <4>1 DEF Unfolds
    <3> QED
      BY <3>1, <3>2
  <2>3. Unfolds(g, document, journal, fresh, n + 1)
    BY <2>1, <2>2 DEF Unfolds
  <2> QED
    BY <2>3
<1>3. bound \in T
  <2> HIDE DEF T
  <2>1. 0 .. bound \subseteq T
    BY <1>1, <1>2, BoundedInduction
  <2> QED
    BY <2>1
<1> QED
  BY <1>3

\* Replay is the last entry of that table.
LEMMA ReplayUnfolds ==
    ASSUME NEW document, NEW journal, NEW fresh, Len(journal) \in Nat,
           NEW f, Unfolds(f, document, journal, fresh, Len(journal))
    PROVE  Replay(document, journal, fresh) = f[Len(journal)]
<1> DEFINE outcomes == CHOOSE g : Unfolds(g, document, journal, fresh, Len(journal))
<1>1. Unfolds(outcomes, document, journal, fresh, Len(journal))
  OBVIOUS
<1>2. Replay(document, journal, fresh) = outcomes[Len(journal)]
  BY DEF Replay, Unfolds, First, After
<1> HIDE DEF outcomes
<1>3. \A n \in 0 .. Len(journal) : f[n] = outcomes[n]
  BY <1>1, UnfoldingIsUnique
<1> QED
  BY <1>2, <1>3

\* A document without a journal replays to itself.
LEMMA ReplayOfNothing ==
    ASSUME NEW document, NEW fresh
    PROVE  Replay(document, <<>>, fresh) = First(document)
<1>1. PICK f : Unfolds(f, document, <<>>, fresh, 0)
  BY UnfoldingExists
<1>2. Len(<<>>) = 0 /\ f[0] = First(document)
  BY <1>1 DEF Unfolds
<1> QED
  BY <1>1, <1>2, ReplayUnfolds

\* A journal that grows by an entry replays the entry last.
LEMMA ReplayOfOneMore ==
    ASSUME NEW document, NEW S, NEW journal \in Seq(S), NEW entry \in S, NEW fresh
    PROVE  Replay(document, Append(journal, entry), fresh) = After(Replay(document, journal, fresh), entry, fresh)
<1>0. PICK longer, n : longer = Append(journal, entry) /\ n = Len(journal)
  OBVIOUS
<1>1. /\ n \in Nat /\ n + 1 \in Nat /\ Len(longer) = n + 1 /\ longer[n + 1] = entry
      /\ \A k \in 1 .. n : longer[k] = journal[k]
  BY <1>0
<1>2. PICK f : Unfolds(f, document, longer, fresh, n + 1)
  BY <1>1, UnfoldingExists
<1>3. PICK g : Unfolds(g, document, journal, fresh, n)
  BY <1>1, UnfoldingExists
<1>4. Unfolds(g, document, longer, fresh, n)
  BY <1>1, <1>3 DEF Unfolds
<1>5. g[n] = f[n]
  <2>1. n <= n + 1 /\ n \in 0 .. n
    BY <1>1
  <2> QED
    BY <1>1, <1>2, <1>4, <2>1, UnfoldingIsUnique
<1>6. f[n + 1] = After(f[n], entry, fresh)
  <2>1. n + 1 \in 0 .. n + 1 /\ n + 1 # 0 /\ (n + 1) - 1 = n
    BY <1>1
  <2> QED
    BY <1>1, <1>2, <2>1 DEF Unfolds
<1>7. Replay(document, journal, fresh) = g[n]
  BY <1>0, <1>1, <1>3, ReplayUnfolds
<1>8. Replay(document, longer, fresh) = f[n + 1]
  BY <1>1, <1>2, ReplayUnfolds
<1> QED
  BY <1>0, <1>5, <1>6, <1>7, <1>8

-----------------------------------------------------------------------------
(* What a change set makes of a document and of the projection of it. *)

AllMedia == Media \cup ExtensionMedia

ContentOf(d) == [notes |-> d.notes, deleted |-> d.deleted, settings |-> d.settings]

\* A document without a deck whose tombstones mark notes it stores.
Sound(d) == d \in Document /\ d.deck = 0 /\ d.deleted \subseteq Present(d)

\* The renderer sees the notes and settings of the document, and at least its media
\* that no extension created.
Fits(d, p) ==
    /\ p \in Projection
    /\ p.notes = Without(d.deleted, d.notes) /\ p.settings = d.settings
    /\ p.media \subseteq d.media /\ d.media \ p.media \subseteq ExtensionMedia

\* The change set changes something the renderer sees.
Touches(change, p) ==
    /\ change.add \cap change.drop = {}
    /\ \/ ProjectionAfterChanges(p, change).notes # p.notes
       \/ change.settings # p.settings
       \/ change.add \ p.media # {}
       \/ change.drop \cap p.media # {}

\* The parts of a change set.
LEMMA ChangeTypes ==
    ASSUME NEW change \in Changes
    PROVE  /\ \E W \in SUBSET Items : change.upsert \in [W -> 1 .. MaxVersion]
           /\ change.remove \subseteq Items /\ change.settings \in Settings
           /\ change.add \subseteq Media /\ change.drop \subseteq Media
  BY StoreAssumption DEF Written

\* The parts of a projection.
LEMMA ProjectionTypes ==
    ASSUME NEW p \in Projection
    PROVE  /\ p.notes \in [Items -> 0 .. MaxVersion] /\ p.settings \in Settings /\ p.media \subseteq AllMedia
           /\ p = [notes |-> p.notes, settings |-> p.settings, media |-> p.media]
  BY DEF Projection, Versions, AllMedia

\* The parts of a document.
LEMMA DocumentTypes ==
    ASSUME NEW d \in Document
    PROVE  /\ d.revision \in 1 .. MaxRevision /\ d.notes \in [Items -> 0 .. MaxVersion] /\ d.deleted \subseteq Items
           /\ d.settings \in Settings /\ d.media \subseteq AllMedia /\ d.deck \in 0 .. MaxDecks
           /\ d.patched \subseteq {"core", "extension"} \X Keys
           /\ d = [revision |-> d.revision, notes |-> d.notes, deleted |-> d.deleted, settings |-> d.settings,
                   media |-> d.media, deck |-> d.deck, patched |-> d.patched]
  BY DEF Document, Versions, AllMedia

\* The projection after changes, part by part.
LEMMA ProjectionChanges ==
    ASSUME NEW p \in Projection, NEW change \in Changes
    PROVE  LET q == ProjectionAfterChanges(p, change)
           IN  /\ q \in Projection
               /\ \A i \in Items : q.notes[i] = IF i \in change.remove THEN 0
                                                ELSE IF i \in DOMAIN change.upsert THEN change.upsert[i] ELSE p.notes[i]
               /\ q.settings = change.settings /\ q.media = (p.media \ change.drop) \cup change.add
<1> DEFINE q == ProjectionAfterChanges(p, change)
<1>1. PICK W \in SUBSET Items : change.upsert \in [W -> 1 .. MaxVersion]
  BY ChangeTypes
<1>2. MaxVersion \in Nat
  BY StoreAssumption
<1>3. /\ q.notes = Without(change.remove, Overlay(change.upsert, p.notes))
      /\ q.settings = change.settings /\ q.media = (p.media \ change.drop) \cup change.add
      /\ q = [notes |-> q.notes, settings |-> q.settings, media |-> q.media]
  BY DEF ProjectionAfterChanges
<1> HIDE DEF q
<1>4. \A i \in Items : q.notes[i] = IF i \in change.remove THEN 0
                                    ELSE IF i \in DOMAIN change.upsert THEN change.upsert[i] ELSE p.notes[i]
  BY <1>3 DEF Without, Overlay
<1>5. q.notes \in [Items -> 0 .. MaxVersion]
  <2>1. \A i \in Items : q.notes[i] \in 0 .. MaxVersion
    BY <1>1, <1>2, <1>4, ProjectionTypes
  <2>2. q.notes = [i \in Items |-> q.notes[i]]
    BY <1>3 DEF Without
  <2> QED
    BY <2>1, <2>2
<1>6. q.settings \in Settings /\ q.media \subseteq AllMedia
  BY <1>3, ChangeTypes, ProjectionTypes DEF AllMedia
<1>7. q \in Projection
  BY <1>3, <1>5, <1>6 DEF Projection, Versions, AllMedia
<1> QED
  BY <1>3, <1>4, <1>7 DEF q

\* The notes a user sees after a change set are those of the changed projection.
LEMMA SavedContent ==
    ASSUME NEW d, Sound(d), NEW p, Fits(d, p), NEW change \in Changes,
           NEW q, q = ProjectionAfterChanges(p, change)
    PROVE  LET saved == Durable!Saved(ContentOf(d), change)
           IN  /\ saved.notes = [i \in Items |-> IF q.notes[i] # 0 THEN q.notes[i] ELSE d.notes[i]]
               /\ saved.deleted = Present(d) \ Present(q)
               /\ saved.settings = change.settings
               /\ saved = [notes |-> saved.notes, deleted |-> saved.deleted, settings |-> saved.settings]
<1> DEFINE c == ContentOf(d)
           shown == (Durable!Shown(c) \cup DOMAIN change.upsert) \ change.remove
           saved == Durable!Saved(c, change)
<1>1. PICK W \in SUBSET Items : change.upsert \in [W -> 1 .. MaxVersion] /\ W = DOMAIN change.upsert
  BY ChangeTypes
<1>2. p \in Projection /\ d \in Document /\ d.deleted \subseteq Present(d)
  BY DEF Fits, Sound
<1>3. \A i \in Items : q.notes[i] = IF i \in change.remove THEN 0
                                    ELSE IF i \in DOMAIN change.upsert THEN change.upsert[i] ELSE p.notes[i]
  BY <1>2, ProjectionChanges
<1>4. \A i \in Items : p.notes[i] = IF i \in d.deleted THEN 0 ELSE d.notes[i]
  BY DEF Fits, Without
<1>5. c # None /\ c.notes = d.notes /\ c.deleted = d.deleted
  <2>1. d.notes \in Versions /\ d.deleted \in SUBSET Items /\ d.settings \in Settings
    BY <1>2, DocumentTypes DEF Versions
  <2>2. c \in [notes : Versions, deleted : SUBSET Items, settings : Settings]
    BY <2>1 DEF ContentOf
  <2> QED
    BY <2>2, NoneAssumption DEF ContentOf
<1>6. Durable!Shown(c) = {i \in Items : p.notes[i] # 0}
  BY <1>4, <1>5 DEF Durable!Shown, Durable!Present
<1>7. \A i \in Items : i \in shown <=> q.notes[i] # 0
  <2>1. \A i \in DOMAIN change.upsert : change.upsert[i] # 0
    BY <1>1, StoreAssumption
  <2> QED
    BY <1>1, <1>3, <1>6, <2>1
<1>8. saved = [notes |-> [i \in Items |-> IF i \in shown \cap DOMAIN change.upsert THEN change.upsert[i] ELSE d.notes[i]],
               deleted |-> {i \in Items : (IF i \in shown \cap DOMAIN change.upsert THEN change.upsert[i] ELSE d.notes[i]) # 0} \ shown,
               settings |-> change.settings]
  BY <1>5 DEF Durable!Saved, Durable!Remembered
<1> HIDE DEF shown, saved, c
<1>9. ASSUME NEW i \in Items
      PROVE  (IF i \in shown \cap DOMAIN change.upsert THEN change.upsert[i] ELSE d.notes[i])
                = IF q.notes[i] # 0 THEN q.notes[i] ELSE d.notes[i]
  BY <1>3, <1>4, <1>7
<1>10. saved.notes = [i \in Items |-> IF q.notes[i] # 0 THEN q.notes[i] ELSE d.notes[i]]
  BY <1>8, <1>9
<1>11. saved.deleted = Present(d) \ Present(q)
  BY <1>7, <1>8 DEF Present
<1> QED
  BY <1>8, <1>10, <1>11 DEF saved, c

\* A change set that changes what the renderer sees makes the next revision of
\* the document, with the content the change set asks for; both ways of computing
\* it agree.
LEMMA DocumentChanges ==
    ASSUME Unfiled = {}, NEW d, Sound(d), NEW p, Fits(d, p), NEW change \in Changes,
           d.revision < MaxRevision, Touches(change, p), NEW fresh,
           NEW q, q = ProjectionAfterChanges(p, change),
           NEW e, e = DocumentAfterChanges(change, d, p, fresh)
    PROVE  /\ e.revision = d.revision + 1 /\ e.patched = d.patched /\ e.deck = 0
           /\ e.notes = [i \in Items |-> IF q.notes[i] # 0 THEN q.notes[i] ELSE d.notes[i]]
           /\ e.deleted = Present(d) \ Present(q)
           /\ e.settings = change.settings
           /\ e.media = IF Incremental(change, d, p) THEN d.media ELSE q.media
           /\ e \in Document
<1>1. /\ p \in Projection /\ d \in Document /\ d.deleted \subseteq Present(d) /\ d.deck = 0 /\ q \in Projection
      /\ q.settings = change.settings /\ q.media = (p.media \ change.drop) \cup change.add
  BY ProjectionChanges DEF Fits, Sound
<1>2. \A i \in Items : q.notes[i] = IF i \in change.remove THEN 0
                                    ELSE IF i \in DOMAIN change.upsert THEN change.upsert[i] ELSE p.notes[i]
  BY <1>1, ProjectionChanges
<1>3. \A i \in Items : p.notes[i] = IF i \in d.deleted THEN 0 ELSE d.notes[i]
  BY DEF Fits, Without
<1>4. d.revision + 1 \in 1 .. MaxRevision /\ d.notes \in [Items -> 0 .. MaxVersion] /\ q.notes \in [Items -> 0 .. MaxVersion]
  BY <1>1, DocumentTypes, ProjectionTypes, StoreAssumption
<1>5. PICK notes : notes = [i \in Items |-> IF q.notes[i] # 0 THEN q.notes[i] ELSE d.notes[i]]
  OBVIOUS
<1>6. notes \in Versions
  BY <1>4, <1>5 DEF Versions
<1>7. PICK deleted : deleted = Present(d) \ Present(q)
  OBVIOUS
<1>8. deleted \in SUBSET Items
  BY <1>7 DEF Present
<1>9. CASE Incremental(change, d, p)
  <2>1. Overlay(change.upsert, d.notes) = notes
    <3>1. \A i \in Items : (IF i \in DOMAIN change.upsert THEN change.upsert[i] ELSE d.notes[i])
                              = IF q.notes[i] # 0 THEN q.notes[i] ELSE d.notes[i]
      BY <1>2, <1>3, <1>9, ChangeTypes, StoreAssumption DEF Incremental, Present
    <3> QED
      BY <1>5, <3>1 DEF Overlay
  <2>2. d.deleted = deleted
    BY <1>1, <1>2, <1>3, <1>7, <1>9, ChangeTypes, StoreAssumption DEF Incremental, Present
  <2>3. e = [d EXCEPT !.notes = notes, !.settings = change.settings, !.revision = d.revision + 1]
    BY <1>9, <2>1 DEF DocumentAfterChanges
  <2> QED
    BY <1>1, <1>4, <1>5, <1>6, <1>7, <1>9, <2>2, <2>3, ChangeTypes DEF Document
<1>10. CASE ~Incremental(change, d, p)
  <2>1. Overlay(Restrict(q.notes, Present(q)), d.notes) = notes
    BY <1>5 DEF Overlay, Restrict, Present
  <2>2. DeckFor(q, d, fresh) = d.deck
    BY DEF DeckFor
  <2>3. PICK next : next = [d EXCEPT !.notes = notes, !.deleted = deleted, !.settings = change.settings,
                                     !.media = q.media, !.deck = d.deck]
    OBVIOUS
  <2>4. e = IF next = d THEN d ELSE [next EXCEPT !.revision = d.revision + 1]
    BY <1>1, <1>7, <1>10, <2>1, <2>2, <2>3 DEF DocumentAfterChanges, RefreshDocument
  <2>5. /\ next.notes = notes /\ next.deleted = deleted /\ next.settings = change.settings /\ next.media = q.media
        /\ next.deck = 0 /\ next.patched = d.patched
    BY <1>1, <2>3 DEF Document
  <2>6. next # d
    <3> SUFFICES ASSUME next = d PROVE FALSE
      OBVIOUS
    <3>1. d.notes = notes /\ d.deleted = deleted /\ d.settings = change.settings /\ d.media = q.media
      BY <2>5
    <3>2. q.notes = p.notes
      <4>1. \A i \in Items : q.notes[i] = p.notes[i]
        BY <1>3, <1>5, <1>7, <3>1 DEF Present
      <4> QED
        BY <1>1, <4>1, ProjectionTypes
    <3>3. change.settings = p.settings
      BY <3>1 DEF Fits
    <3>4. change.add \ p.media = {}
      BY <1>1, <3>1, ChangeTypes, StoreAssumption DEF Fits
    <3>5. change.drop \cap p.media = {}
      BY <1>1, <3>1, ChangeTypes DEF Fits, Touches
    <3> QED
      BY <3>2, <3>3, <3>4, <3>5 DEF Touches
  <2>7. e = [d EXCEPT !.notes = notes, !.deleted = deleted, !.settings = change.settings,
                      !.media = q.media, !.deck = 0, !.revision = d.revision + 1]
    BY <1>1, <2>3, <2>4, <2>6 DEF Document
  <2>8. /\ e.revision = d.revision + 1 /\ e.patched = d.patched /\ e.deck = 0 /\ e.notes = notes
        /\ e.deleted = deleted /\ e.settings = change.settings /\ e.media = q.media
    BY <1>1, <2>7 DEF Document
  <2>9. q.media \in SUBSET AllMedia /\ 0 \in 0 .. MaxDecks
    BY <1>1, ProjectionTypes, StoreAssumption
  <2>10. e \in Document
    BY <1>1, <1>4, <1>6, <1>8, <2>7, <2>9, ChangeTypes DEF Document, AllMedia
  <2> QED
    BY <1>5, <1>7, <1>10, <2>8, <2>10
<1> QED
  BY <1>9, <1>10

\* The changed projection is the projection of the changed document, and the
\* document is as the specification of a save has it.
LEMMA ChangesFit ==
    ASSUME Unfiled = {}, NEW d, Sound(d), NEW p, Fits(d, p), NEW change \in Changes,
           d.revision < MaxRevision, Touches(change, p), NEW fresh,
           NEW q, q = ProjectionAfterChanges(p, change),
           NEW e, e = DocumentAfterChanges(change, d, p, fresh)
    PROVE  /\ Sound(e) /\ Fits(e, q) /\ ContentOf(e) = Durable!Saved(ContentOf(d), change)
           /\ e.revision = d.revision + 1 /\ e.patched = d.patched
           /\ e.media = d.media \/ e.media = q.media
           /\ Incremental(change, d, p) => e.media = d.media
           /\ ~Incremental(change, d, p) => e.media = q.media
<1>1. /\ e.revision = d.revision + 1 /\ e.patched = d.patched /\ e.deck = 0
      /\ e.notes = [i \in Items |-> IF q.notes[i] # 0 THEN q.notes[i] ELSE d.notes[i]]
      /\ e.deleted = Present(d) \ Present(q)
      /\ e.settings = change.settings
      /\ e.media = IF Incremental(change, d, p) THEN d.media ELSE q.media
      /\ e \in Document
  BY DocumentChanges
<1>2. q \in Projection /\ q.settings = change.settings /\ q.media = (p.media \ change.drop) \cup change.add
  BY ProjectionChanges DEF Fits
<1>3. Sound(e)
  BY <1>1 DEF Sound, Present
<1>4. q.notes = Without(e.deleted, e.notes)
  <2>1. \A i \in Items : q.notes[i] = IF i \in e.deleted THEN 0 ELSE e.notes[i]
    BY <1>1 DEF Present
  <2>2. q.notes \in [Items -> 0 .. MaxVersion]
    BY <1>2, ProjectionTypes
  <2> QED
    BY <2>1, <2>2 DEF Without
<1>5. q.media \subseteq e.media /\ e.media \ q.media \subseteq ExtensionMedia
  BY <1>1, <1>2 DEF Fits, Incremental
<1>6. Fits(e, q)
  BY <1>1, <1>2, <1>4, <1>5 DEF Fits
<1>7. ContentOf(e) = Durable!Saved(ContentOf(d), change)
  <2>1. PICK saved : saved = Durable!Saved(ContentOf(d), change)
    OBVIOUS
  <2>2. /\ saved.notes = e.notes /\ saved.deleted = e.deleted /\ saved.settings = e.settings
        /\ saved = [notes |-> saved.notes, deleted |-> saved.deleted, settings |-> saved.settings]
    BY <1>1, <2>1, SavedContent
  <2> QED
    BY <2>1, <2>2 DEF ContentOf
<1> QED
  BY <1>1, <1>3, <1>6, <1>7

-----------------------------------------------------------------------------
(* What a store loads. *)

\* The store loads: its journal replays to one document, whose media it has.
Loads(image, d) ==
    /\ image \in Stores /\ Sound(image.snapshot)
    /\ ReplayImage(image, 1) = First(d)
    /\ Sound(d) /\ d.media \subseteq image.media

\* A store loads one document.
LEMMA LoadsOne ==
    ASSUME NEW image, NEW d, NEW e, Loads(image, d), Loads(image, e)
    PROVE  d = e
<1>1. First(d) = First(e)
  BY DEF Loads
<1>2. [document |-> d, projection |-> Project(d)] = [document |-> e, projection |-> Project(e)]
  BY <1>1 DEF First
<1> QED
  BY <1>2

\* A document and its projection show the same.
LEMMA ProjectTypes ==
    ASSUME NEW d, Sound(d)
    PROVE  /\ Project(d) \in Projection /\ Fits(d, Project(d))
           /\ Project(d).notes = Without(d.deleted, d.notes)
           /\ Project(d).settings = d.settings /\ Project(d).media = d.media
<1>1. /\ d.notes \in [Items -> 0 .. MaxVersion] /\ d.settings \in Settings /\ d.media \subseteq AllMedia
  BY DocumentTypes DEF Sound
<1>2. Without(d.deleted, d.notes) \in [Items -> 0 .. MaxVersion]
  BY <1>1, StoreAssumption DEF Without
<1> QED
  BY <1>1, <1>2 DEF Project, Projection, Fits, Versions, AllMedia

\* A snapshot without a journal loads as it is.
LEMMA SnapshotLoads ==
    ASSUME NEW d, Sound(d), NEW media, media \subseteq AllMedia, d.media \subseteq media
    PROVE  Loads([snapshot |-> d, journal |-> <<>>, media |-> media], d)
<1> DEFINE image == [snapshot |-> d, journal |-> <<>>, media |-> media]
<1>1. image.snapshot = d /\ image.journal = <<>> /\ image.media = media
  OBVIOUS
<1>2. image \in Stores
  BY DEF Stores, Sound, AllMedia
<1> HIDE DEF image
<1>3. ReplayImage(image, 1) = First(d)
  BY <1>1, ReplayOfNothing DEF ReplayImage
<1>4. Loads(image, d)
  BY <1>1, <1>2, <1>3 DEF Loads
<1> QED
  BY <1>4 DEF image

\* A journal that grows by an entry loads what the entry makes of the document.
LEMMA GrownLoads ==
    ASSUME NEW image, NEW d, Loads(image, d), NEW entry \in Entry, Accepts(d, entry),
           NEW media, media \subseteq AllMedia, NEW e, Sound(e), e.media \subseteq media,
           ReplayEntry([document |-> d, projection |-> Project(d)], entry, 1)
             = [document |-> e, projection |-> Project(e)]
    PROVE  Loads([snapshot |-> image.snapshot, journal |-> Append(image.journal, entry), media |-> media], e)
<1> DEFINE grown == [snapshot |-> image.snapshot, journal |-> Append(image.journal, entry), media |-> media]
<1>1. /\ grown.snapshot = image.snapshot /\ grown.journal = Append(image.journal, entry) /\ grown.media = media
  OBVIOUS
<1>2. image.snapshot \in Document /\ image.journal \in Seq(Entry)
  BY DEF Loads, Stores
<1>3. grown \in Stores
  BY <1>2 DEF Stores, AllMedia
<1> HIDE DEF grown
<1>4. After(First(d), entry, 1) = First(e)
  BY DEF After, First
<1>5. ReplayImage(grown, 1) = First(e)
  BY <1>1, <1>2, <1>4, ReplayOfOneMore DEF ReplayImage, Loads
<1>6. Loads(grown, e)
  BY <1>1, <1>3, <1>5 DEF Loads
<1> QED
  BY <1>6 DEF grown

\* Journaled changes load the changed document.
LEMMA ChangesLoad ==
    ASSUME Unfiled = {}, NEW image, NEW d, Loads(image, d), NEW change \in Changes,
           d.revision < MaxRevision, Touches(change, Project(d)),
           NEW e, e = DocumentAfterChanges(change, d, Project(d), 1)
    PROVE  Loads([snapshot |-> image.snapshot,
                  journal |-> Append(image.journal, [kind |-> "changes", value |-> change]),
                  media |-> (image.media \cup change.add) \ change.drop], e)
<1> DEFINE entry == [kind |-> "changes", value |-> change]
           media == (image.media \cup change.add) \ change.drop
<1>1. entry \in Entry /\ entry.kind = "changes" /\ entry.value = change
  BY DEF Entry
<1>2. Sound(d) /\ Fits(d, Project(d)) /\ Project(d).media = d.media /\ d.media \subseteq image.media
  BY ProjectTypes DEF Loads
<1>3. PICK q : q = ProjectionAfterChanges(Project(d), change)
  OBVIOUS
<1>4. Sound(e) /\ Fits(e, q)
  BY <1>2, <1>3, ChangesFit
<1>5. q \in Projection /\ q.settings = change.settings /\ q.media = (d.media \ change.drop) \cup change.add
  BY <1>2, <1>3, ProjectionChanges DEF Fits
<1>6. /\ e.media = d.media \/ e.media = q.media
      /\ Incremental(change, d, Project(d)) \/ e.media = q.media
  BY <1>2, <1>3, ChangesFit
<1>7. e.media = q.media
  BY <1>5, <1>6 DEF Incremental
<1>8. q = Project(e)
  BY <1>4, <1>5, <1>7, ProjectionTypes DEF Project, Fits
<1>9. media \subseteq AllMedia /\ e.media \subseteq media
  <2>1. image.media \subseteq AllMedia /\ change.add \subseteq Media /\ change.add \cap change.drop = {}
    BY ChangeTypes DEF Loads, Stores, Touches, AllMedia
  <2> QED
    BY <1>2, <1>5, <1>7, <2>1 DEF AllMedia
<1>10. ReplayEntry([document |-> d, projection |-> Project(d)], entry, 1) = [document |-> e, projection |-> Project(e)]
  BY <1>1, <1>3, <1>8 DEF ReplayEntry
<1>11. Accepts(d, entry)
  BY <1>1 DEF Accepts
<1> HIDE DEF entry, media
<1>12. Loads([snapshot |-> image.snapshot, journal |-> Append(image.journal, entry), media |-> media], e)
  BY <1>1, <1>4, <1>9, <1>10, <1>11, GrownLoads
<1> QED
  BY <1>12 DEF entry, media

\* A patch changes the revision and the patches of a document, nothing else.
LEMMA PatchedParts ==
    ASSUME NEW d, Sound(d), d.revision < MaxRevision, NEW patch \in Patch, NEW e, e = Patched(patch, d)
    PROVE  /\ Sound(e) /\ ContentOf(e) = ContentOf(d) /\ Project(e) = Project(d)
           /\ e.media = d.media /\ e.revision = d.revision + 1
           /\ e.patched = d.patched \cup {<<patch.owner, patch.key>>}
<1>1. d \in Document /\ d.deck = 0 /\ d.deleted \subseteq Present(d)
  BY DEF Sound
<1>2. PICK patched : patched = d.patched \cup {<<patch.owner, patch.key>>}
  OBVIOUS
<1>3. patched \in SUBSET ({"core", "extension"} \X Keys)
  BY <1>1, <1>2, DocumentTypes DEF Patch
<1>4. d.revision + 1 \in 1 .. MaxRevision
  BY <1>1, DocumentTypes, StoreAssumption
<1>5. e = [d EXCEPT !.revision = d.revision + 1, !.patched = patched]
  BY <1>2 DEF Patched
<1>6. /\ e.notes = d.notes /\ e.deleted = d.deleted /\ e.settings = d.settings /\ e.media = d.media /\ e.deck = d.deck
      /\ e.revision = d.revision + 1 /\ e.patched = patched
  BY <1>1, <1>5 DEF Document
<1>7. e \in Document
  BY <1>1, <1>3, <1>4, <1>5 DEF Document
<1> QED
  BY <1>1, <1>2, <1>6, <1>7 DEF Sound, ContentOf, Project, Present

\* A journaled patch of the program loads the patched document.
LEMMA PatchLoads ==
    ASSUME NEW image, NEW d, Loads(image, d), NEW patch \in Patch, Applies(patch, d), d.revision < MaxRevision
    PROVE  Loads([snapshot |-> image.snapshot,
                  journal |-> Append(image.journal, [kind |-> "core-patch", value |-> patch]),
                  media |-> image.media], Patched(patch, d))
<1>1. PICK entry : entry = [kind |-> "core-patch", value |-> patch]
  OBVIOUS
<1>2. entry \in Entry /\ entry.kind = "core-patch" /\ entry.value = patch
  BY <1>1 DEF Entry
<1>3. PICK e : e = Patched(patch, d)
  OBVIOUS
<1>4. Sound(e) /\ Project(e) = Project(d) /\ e.media = d.media
  BY <1>3, PatchedParts DEF Loads
<1>5. Accepts(d, entry)
  BY <1>2 DEF Accepts
<1>6. ReplayEntry([document |-> d, projection |-> Project(d)], entry, 1) = [document |-> e, projection |-> Project(e)]
  BY <1>2, <1>3, <1>4 DEF ReplayEntry, ProjectionAfterPatch
<1>7. image.media \subseteq AllMedia /\ e.media \subseteq image.media
  BY <1>4 DEF Loads, Stores, AllMedia
<1>8. Loads([snapshot |-> image.snapshot, journal |-> Append(image.journal, entry), media |-> image.media], e)
  BY <1>2, <1>4, <1>5, <1>6, <1>7, GrownLoads
<1> QED
  BY <1>1, <1>3, <1>8

-----------------------------------------------------------------------------
(* The caches, and the document the disk would load. *)

\* The document in memory is the one the disk loads, but may lack media that the
\* projection it was saved from did not have; those were created by extensions.
Matches(c, p, d) ==
    /\ Sound(c) /\ Fits(c, p) /\ Sound(d)
    /\ ContentOf(c) = ContentOf(d) /\ c.revision = d.revision /\ c.patched = d.patched
    /\ c.media \subseteq d.media /\ d.media \ p.media \subseteq ExtensionMedia

\* Documents with the same content have the same parts of it.
LEMMA SameContent ==
    ASSUME NEW c, NEW d, ContentOf(c) = ContentOf(d)
    PROVE  c.notes = d.notes /\ c.deleted = d.deleted /\ c.settings = d.settings /\ Present(c) = Present(d)
<1>1. /\ ContentOf(c).notes = c.notes /\ ContentOf(c).deleted = c.deleted /\ ContentOf(c).settings = c.settings
      /\ ContentOf(d).notes = d.notes /\ ContentOf(d).deleted = d.deleted /\ ContentOf(d).settings = d.settings
  BY DEF ContentOf
<1> QED
  BY <1>1 DEF Present

\* A document just loaded or stored is in step with itself.
LEMMA ProjectMatches ==
    ASSUME NEW d, Sound(d)
    PROVE  Matches(d, Project(d), d)
  BY ProjectTypes DEF Matches

\* An effective change set changes what a user sees of any document whose
\* projection shows the same and has all of the media in memory.
LEMMA EffectiveTouches ==
    ASSUME NEW c, NEW p, NEW d, Matches(c, p, d), NEW change \in Changes, Effective(change, p)
    PROVE  Touches(change, p) /\ Touches(change, Project(d))
<1>1. p \in Projection /\ Project(d) \in Projection
  BY ProjectTypes DEF Matches, Fits
<1>2. /\ Project(d).notes = p.notes /\ Project(d).settings = p.settings /\ Project(d).media = d.media
      /\ p.media \subseteq d.media /\ d.media \ p.media \subseteq ExtensionMedia
  BY ProjectTypes, SameContent DEF Matches, Fits
<1>3. PICK q : q = ProjectionAfterChanges(p, change)
  OBVIOUS
<1>4. /\ q.settings = change.settings /\ q.media = (p.media \ change.drop) \cup change.add
      /\ q = [notes |-> q.notes, settings |-> q.settings, media |-> q.media]
      /\ ProjectionAfterChanges(Project(d), change).notes = q.notes
  BY <1>2, <1>3 DEF ProjectionAfterChanges
<1>5. q # p /\ change.add \cap p.media = {} /\ change.drop \subseteq p.media /\ change.add \subseteq Media
  BY <1>3, ChangeTypes DEF Effective
<1>6. q.notes # p.notes \/ q.settings # p.settings \/ q.media # p.media
  BY <1>1, <1>4, <1>5, ProjectionTypes
<1>7. change.add \cap d.media = {}
  BY <1>2, <1>5, StoreAssumption
<1>8. q.media # p.media => change.add # {} \/ change.drop # {}
  BY <1>4
<1>9. change.add \cap change.drop = {}
  BY <1>5
<1>10. Touches(change, p)
  BY <1>3, <1>4, <1>5, <1>6, <1>8, <1>9 DEF Touches
<1>11. Touches(change, Project(d))
  BY <1>2, <1>4, <1>5, <1>6, <1>7, <1>8, <1>9 DEF Touches
<1> QED
  BY <1>10, <1>11

\* A change set keeps the memory in step with the disk.
LEMMA ChangesMatch ==
    ASSUME Unfiled = {}, NEW c, NEW p, NEW d, Matches(c, p, d), NEW change \in Changes, Effective(change, p),
           c.revision < MaxRevision
    PROVE  Matches(DocumentAfterChanges(change, c, p, 1), ProjectionAfterChanges(p, change),
                   DocumentAfterChanges(change, d, Project(d), 1))
<1>1. PICK r : r = Project(d)
  OBVIOUS
<1>2. PICK q : q = ProjectionAfterChanges(p, change)
  OBVIOUS
<1>3. PICK s : s = ProjectionAfterChanges(r, change)
  OBVIOUS
<1>4. PICK e : e = DocumentAfterChanges(change, c, p, 1)
  OBVIOUS
<1>5. PICK g : g = DocumentAfterChanges(change, d, r, 1)
  OBVIOUS
<1>6. /\ Sound(c) /\ Fits(c, p) /\ Sound(d) /\ Fits(d, r) /\ r.notes = p.notes /\ r.media = d.media
      /\ ContentOf(c) = ContentOf(d) /\ Present(c) = Present(d) /\ c.revision = d.revision /\ c.patched = d.patched
      /\ p.media \subseteq c.media /\ c.media \subseteq d.media /\ d.media \ p.media \subseteq ExtensionMedia
  BY <1>1, ProjectTypes, SameContent DEF Matches, Fits
<1>7. Touches(change, p) /\ Touches(change, r)
  BY <1>1, EffectiveTouches
<1>8. Incremental(change, d, r) <=> Incremental(change, c, p)
  BY <1>6 DEF Incremental, Present
<1>9. /\ q.media = (p.media \ change.drop) \cup change.add
      /\ s.media = (d.media \ change.drop) \cup change.add
  BY <1>2, <1>3, <1>6 DEF ProjectionAfterChanges
<1>10. /\ Sound(e) /\ Fits(e, q) /\ ContentOf(e) = Durable!Saved(ContentOf(c), change)
       /\ e.revision = c.revision + 1 /\ e.patched = c.patched
       /\ Incremental(change, c, p) => e.media = c.media
       /\ ~Incremental(change, c, p) => e.media = q.media
  BY <1>2, <1>4, <1>6, <1>7, ChangesFit
<1>11. /\ Sound(g) /\ ContentOf(g) = Durable!Saved(ContentOf(d), change)
       /\ g.revision = d.revision + 1 /\ g.patched = d.patched
       /\ Incremental(change, d, r) => g.media = d.media
       /\ ~Incremental(change, d, r) => g.media = s.media
  BY <1>3, <1>5, <1>6, <1>7, ChangesFit
<1>12. ContentOf(e) = ContentOf(g) /\ e.revision = g.revision /\ e.patched = g.patched
  BY <1>6, <1>10, <1>11
<1>13. e.media \subseteq g.media /\ g.media \ q.media \subseteq ExtensionMedia
  BY <1>6, <1>8, <1>9, <1>10, <1>11 DEF Incremental
<1>14. Matches(e, q, g)
  BY <1>10, <1>11, <1>12, <1>13 DEF Matches
<1> QED
  BY <1>1, <1>2, <1>4, <1>5, <1>14

\* So does a patch.
LEMMA PatchesMatch ==
    ASSUME NEW c, NEW p, NEW d, Matches(c, p, d), NEW patch \in Patch, c.revision < MaxRevision
    PROVE  Matches(Patched(patch, c), ProjectionAfterPatch(patch, Patched(patch, c), p), Patched(patch, d))
<1>1. PICK e : e = Patched(patch, c)
  OBVIOUS
<1>2. PICK g : g = Patched(patch, d)
  OBVIOUS
<1>3. /\ Sound(c) /\ Fits(c, p) /\ Sound(d) /\ p.media \subseteq c.media
      /\ ContentOf(c) = ContentOf(d) /\ c.revision = d.revision /\ c.patched = d.patched
      /\ c.media \subseteq d.media /\ d.media \ p.media \subseteq ExtensionMedia
  BY DEF Matches, Fits
<1>4. /\ Sound(e) /\ ContentOf(e) = ContentOf(c) /\ Project(e) = Project(c) /\ e.media = c.media
      /\ e.revision = c.revision + 1 /\ e.patched = c.patched \cup {<<patch.owner, patch.key>>}
  BY <1>1, <1>3, PatchedParts
<1>5. /\ Sound(g) /\ ContentOf(g) = ContentOf(d) /\ g.media = d.media
      /\ g.revision = d.revision + 1 /\ g.patched = d.patched \cup {<<patch.owner, patch.key>>}
  BY <1>2, <1>3, PatchedParts
<1>6. Fits(e, p) /\ Fits(e, Project(e)) /\ Project(e).media = c.media
  BY <1>3, <1>4, SameContent, ProjectTypes DEF Fits
<1>7. ASSUME NEW shown, shown = p \/ shown = Project(e)
      PROVE  Matches(e, shown, g)
  BY <1>3, <1>4, <1>5, <1>6, <1>7 DEF Matches
<1>8. ProjectionAfterPatch(patch, e, p) = p \/ ProjectionAfterPatch(patch, e, p) = Project(e)
  BY DEF ProjectionAfterPatch
<1> QED
  BY <1>1, <1>2, <1>7, <1>8

-----------------------------------------------------------------------------
(* The inductive invariant. *)

Disks == [snapshot : Document, journal : Seq(Entry), receipts : SUBSET ({"core", "extension"} \X Keys),
          media : SUBSET AllMedia]

ImageOf(k) == [snapshot |-> k.snapshot, journal |-> k.journal, media |-> k.media]

\* The disk loads the document, to which the patches with receipts were applied.
Keeps(k, d) == k \in Disks /\ Loads(ImageOf(k), d) /\ k.receipts \subseteq d.patched

Unloaded == documentCache = <<>> /\ projectionCache = <<>>

\* There is no workspace, on disk or in memory.
Nowhere ==
    /\ disk = EmptyDisk
    /\ Unloaded \/ (documentCache = <<None>> /\ projectionCache = <<None>>)

\* The disk loads a document, and memory is in step with it.
Holds(d) ==
    /\ Keeps(disk, d)
    /\ Unloaded \/ \E c, p : documentCache = <<c>> /\ projectionCache = <<p>> /\ Matches(c, p, d)

Kept(image) == image = None \/ \E d : Loads(image, d)

StoreInv ==
    /\ Nowhere \/ \E d : Holds(d)
    /\ Kept(backup)
    /\ restoring # None => restoring = backup /\ Unloaded
    /\ drawn = 0

(* How an action changes what a restart and a restore would find. *)

\* The content of a disk.
Says(k, x) == (k = EmptyDisk /\ x = None) \/ \E d : Keeps(k, d) /\ x = ContentOf(d)

\* The content of a backup.
Copies(image, x) == (image = None /\ x = None) \/ \E d : Loads(image, d) /\ x = ContentOf(d)

\* A step of DurableWorkspace from content x and copy u to content y and copy v.
Turns(x, y, u, v) ==
    \/ (Durable!SavesChanges(x, y) \/ Durable!Incorporates(x, y) \/ Durable!Configures(x, y)) /\ v = u
    \/ x # None /\ v = x /\ y = x
    \/ u # None /\ y = u /\ v \in {u, x} \ {None}
    \/ y = None /\ v \in {u} \cup ({x} \ {None})
    \/ x = y /\ u = v

Promised == \E x, y, u, v : Says(disk, x) /\ Says(disk', y) /\ Copies(backup, u) /\ Copies(backup', v) /\ Turns(x, y, u, v)

\* A document is a workspace, and its content is one.
LEMMA SoundTypes ==
    ASSUME NEW d, Sound(d)
    PROVE  /\ d # None /\ ContentOf(d) # None
           /\ ContentOf(d) \in Durable!Content
<1>1. d \in Document /\ d.notes \in Versions /\ d.deleted \in SUBSET Items /\ d.settings \in Settings
  BY DocumentTypes DEF Sound, Versions
<1>2. ContentOf(d) \in [notes : Versions, deleted : SUBSET Items, settings : Settings]
  BY <1>1 DEF ContentOf
<1> QED
  BY <1>1, <1>2, NoneAssumption DEF Versions, Durable!Content

\* A disk with a document is not the empty one.
LEMMA KeepsSomething ==
    ASSUME NEW k, NEW d, Keeps(k, d)
    PROVE  k.snapshot # None /\ k # EmptyDisk /\ Sound(d) /\ ContentOf(d) # None /\ ImageOf(k) # None
<1>1. k.snapshot \in Document /\ ImageOf(k) \in Stores
  BY DEF Keeps, Disks, Loads
<1>2. k.snapshot # None /\ ImageOf(k) # None
  BY <1>1, NoneAssumption
<1>3. EmptyDisk.snapshot = None
  BY DEF EmptyDisk
<1> QED
  BY <1>2, <1>3, SoundTypes DEF Keeps, Loads

\* The backup holds a copy of some content, or there is none.
LEMMA CopyExists ==
    ASSUME StoreInv
    PROVE  \E u : Copies(backup, u)
  BY DEF StoreInv, Kept, Copies

\* A disk that loads a document, with its image and receipts.
LEMMA Keeping ==
    ASSUME NEW d, NEW snapshot, NEW journal, NEW media, NEW receipts,
           Loads([snapshot |-> snapshot, journal |-> journal, media |-> media], d), receipts \subseteq d.patched
    PROVE  Keeps([snapshot |-> snapshot, journal |-> journal, receipts |-> receipts, media |-> media], d)
<1>1. PICK image : image = [snapshot |-> snapshot, journal |-> journal, media |-> media]
  OBVIOUS
<1>2. /\ image.snapshot = snapshot /\ image.journal = journal /\ image.media = media
      /\ image \in Stores /\ Loads(image, d)
  BY <1>1 DEF Loads
<1>3. snapshot \in Document /\ journal \in Seq(Entry) /\ media \in SUBSET AllMedia
  BY <1>2 DEF Stores, AllMedia
<1>4. receipts \in SUBSET ({"core", "extension"} \X Keys)
  BY DocumentTypes DEF Loads, Sound
<1>5. PICK k : k = [snapshot |-> snapshot, journal |-> journal, receipts |-> receipts, media |-> media]
  OBVIOUS
<1>6. k \in Disks /\ k.receipts = receipts
  BY <1>3, <1>4, <1>5 DEF Disks
<1>7. ImageOf(k) = image
  BY <1>1, <1>5 DEF ImageOf
<1> QED
  BY <1>2, <1>5, <1>6, <1>7 DEF Keeps

\* Memory that was not written stays in step, memory that was written is.
LEMMA LoadedInStep ==
    ASSUME StoreInv, Loaded, documentCache[1] # None
    PROVE  \E c, p, d : /\ documentCache = <<c>> /\ projectionCache = <<p>> /\ Cached = c /\ Projected = p
                        /\ Keeps(disk, d) /\ Matches(c, p, d) /\ restoring = None
<1>1. ~Unloaded
  BY DEF Loaded, Unloaded
<1>2. restoring = None
  BY <1>1 DEF StoreInv
<1>3. ~Nowhere
  BY <1>1 DEF Nowhere, Unloaded
<1>4. PICK d, c, p : Keeps(disk, d) /\ documentCache = <<c>> /\ projectionCache = <<p>> /\ Matches(c, p, d)
  BY <1>1, <1>3 DEF StoreInv, Holds
<1>5. p # None
  BY <1>4, NoneAssumption DEF Matches, Fits
<1>6. Cached = c /\ Projected = p
  BY <1>4, <1>5 DEF Cached, Projected
<1> QED
  BY <1>2, <1>4, <1>6

\* Where nothing is loaded there is nothing on the disk.
LEMMA LoadedWithout ==
    ASSUME StoreInv, Loaded, documentCache[1] = None
    PROVE  disk = EmptyDisk /\ Projected = NoProjection /\ restoring = None
<1>1. ~Unloaded
  BY DEF Loaded, Unloaded
<1>2. ASSUME NEW d, Holds(d) PROVE FALSE
  <2>1. PICK c, p : documentCache = <<c>> /\ Matches(c, p, d)
    BY <1>1, <1>2 DEF Holds
  <2> QED
    BY <2>1, SoundTypes DEF Matches
<1>3. Nowhere
  BY <1>2 DEF StoreInv
<1> QED
  BY <1>1, <1>3 DEF StoreInv, Nowhere, Projected

\* The state after a handler wrote the disk and both caches.
LEMMA Writing ==
    ASSUME StoreInv, NEW d, NEW c, NEW p, Keeps(disk', d), Matches(c, p, d),
           documentCache' = <<c>>, projectionCache' = <<p>>, restoring = None,
           backup' = backup, restoring' = restoring, drawn' = drawn
    PROVE  StoreInv'
<1>1. Holds(d)'
  BY DEF Holds
<1> QED
  BY <1>1 DEF StoreInv, Kept, Unloaded

\* A step that keeps the copy turns the content of the disk into another.
LEMMA Telling ==
    ASSUME StoreInv, NEW x, NEW y, Says(disk, x), Says(disk', y), backup' = backup,
           \/ Durable!SavesChanges(x, y) \/ Durable!Incorporates(x, y) \/ Durable!Configures(x, y)
           \/ x = y
    PROVE  Promised
<1>1. PICK u : Copies(backup, u)
  BY CopyExists
<1>2. Copies(backup', u)
  BY <1>1
<1>3. Turns(x, y, u, u)
  BY DEF Turns
<1> QED
  BY <1>1, <1>2, <1>3 DEF Promised

\* The disk says what a restart would load.
LEMMA SaysSomething ==
    ASSUME StoreInv
    PROVE  \E x : Says(disk, x)
  BY DEF StoreInv, Nowhere, Holds, Says

\* A step that leaves disk and backup alone keeps the promise.
LEMMA Unchanged ==
    ASSUME StoreInv, disk' = disk, backup' = backup
    PROVE  Promised
<1>1. PICK x : Says(disk, x)
  BY SaysSomething
<1>2. Says(disk', x)
  BY <1>1
<1> QED
  BY <1>1, <1>2, Telling

\* Nothing is in memory while the projection is not.
LEMMA UnloadedTogether ==
    ASSUME StoreInv, projectionCache = <<>>
    PROVE  documentCache = <<>>
<1>1. CASE Nowhere
  BY <1>1 DEF Nowhere, Unloaded
<1>2. ASSUME NEW d, Holds(d) PROVE documentCache = <<>>
  <2>1. ~ \E c, p : documentCache = <<c>> /\ projectionCache = <<p>> /\ Matches(c, p, d)
    OBVIOUS
  <2> QED
    BY <1>2, <2>1 DEF Holds, Unloaded
<1> QED
  BY <1>1, <1>2 DEF StoreInv

\* Loading what the disk keeps.
LEMMA Loading ==
    ASSUME documentCache = <<>>, drawn = 0, NEW image, NEW d, Loads(image, d), LoadFrom(image)
    PROVE  documentCache' = <<d>> /\ projectionCache' = <<Project(d)>> /\ drawn' = 0
<1>1. image.snapshot # None
  BY NoneAssumption DEF Loads, Sound
<1>2. PICK outcomes : outcomes = Replay(image.snapshot, image.journal, 1)
  OBVIOUS
<1>3. outcomes = {[document |-> d, projection |-> Project(d)]}
  BY <1>2 DEF Loads, ReplayImage, First
<1>4. Fresh = 1
  BY DEF Fresh
<1>5. PICK state \in outcomes : /\ documentCache' = <<state.document>> /\ projectionCache' = <<state.projection>>
                                /\ Draw(state.document)
  BY <1>1, <1>2, <1>3, <1>4 DEF LoadFrom
<1>6. state.document = d /\ state.projection = Project(d)
  BY <1>3, <1>5
<1>7. d.deck = 0
  BY DEF Loads, Sound
<1> QED
  BY <1>4, <1>5, <1>6, <1>7 DEF Draw

\* load.
LEMMA LoadWorkspaceKeeps ==
    ASSUME ~Overlap, StoreInv, LoadWorkspace
    PROVE  StoreInv' /\ Promised
<1>1. /\ projectionCache = <<>> /\ restoring = None /\ LoadFrom(Image) /\ documentCache = <<>>
      /\ disk' = disk /\ backup' = backup /\ restoring' = None /\ drawn = 0
  BY UnloadedTogether DEF LoadWorkspace, StoreInv
<1>2. Promised
  BY <1>1, Unchanged
<1>3. CASE disk = EmptyDisk
  <2>1. Image.snapshot = None
    BY <1>3 DEF Image, EmptyDisk
  <2>2. documentCache' = <<None>> /\ projectionCache' = <<None>> /\ drawn' = drawn
    BY <1>1, <2>1 DEF LoadFrom
  <2>3. Nowhere'
    BY <1>1, <1>3, <2>2 DEF Nowhere
  <2> QED
    BY <1>1, <1>2, <2>2, <2>3 DEF StoreInv, Kept
<1>4. CASE disk # EmptyDisk
  <2>1. PICK d : Keeps(disk, d)
    BY <1>4 DEF StoreInv, Nowhere, Holds
  <2>2. Loads(Image, d)
    BY <2>1 DEF Keeps, Image, ImageOf
  <2>3. documentCache' = <<d>> /\ projectionCache' = <<Project(d)>> /\ drawn' = 0
    BY <1>1, <2>2, Loading
  <2>4. Matches(d, Project(d), d) /\ Keeps(disk', d)
    BY <1>1, <2>1, <2>2, ProjectMatches DEF Loads
  <2> QED
    BY <1>1, <1>2, <2>3, <2>4, Writing
<1> QED
  BY <1>3, <1>4

\* The first save makes the first document.
LEMMA FirstDocument ==
    ASSUME Unfiled = {}, NEW p \in Projection, NEW fresh, NEW d, d = NewDocument(p, fresh)
    PROVE  /\ Sound(d) /\ Project(d) = p /\ d.media = p.media /\ d.patched = {} /\ d.revision = 1
           /\ d.notes = p.notes /\ d.deleted = {} /\ d.settings = p.settings
<1>1. PICK first : first = [revision |-> 1, notes |-> p.notes, deleted |-> {}, settings |-> p.settings,
                            media |-> p.media, deck |-> 0, patched |-> {}]
  OBVIOUS
<1>2. first \in Document
  BY <1>1, ProjectionTypes, StoreAssumption DEF Document, Versions, AllMedia
<1>3. d = [first EXCEPT !.deck = 0]
  BY <1>1 DEF NewDocument, DeckFor
<1>4. d = first
  BY <1>1, <1>3
<1>5. /\ d.notes = p.notes /\ d.deleted = {} /\ d.settings = p.settings /\ d.media = p.media /\ d.patched = {}
      /\ d.revision = 1 /\ d.deck = 0
  BY <1>1, <1>4
<1>6. Without(d.deleted, d.notes) = p.notes
  BY <1>5, ProjectionTypes DEF Without
<1>7. Project(d) = p
  BY <1>5, <1>6, ProjectionTypes DEF Project
<1> QED
  BY <1>2, <1>4, <1>5, <1>7 DEF Sound

\* The projection before the first save.
LEMMA NoProjectionTypes ==
    NoProjection \in Projection /\ NoProjection.media = {} /\ NoProjection.notes = NoNotes
  BY StoreAssumption DEF NoProjection, Projection, NoNotes, Versions

\* The empty disk after a first document was stored.
LEMMA FirstStored ==
    ASSUME StoreInv, disk = EmptyDisk, NEW d, Sound(d), d.patched = {},
           NEW media, media \subseteq AllMedia, d.media \subseteq media,
           StoreDocument(d, disk.receipts, media), projectionCache' = <<Project(d)>>, restoring = None,
           backup' = backup, restoring' = restoring, drawn' = drawn,
           Durable!SavesChanges(None, ContentOf(d)) \/ Durable!Incorporates(None, ContentOf(d))
    PROVE  StoreInv' /\ Promised
<1>1. Loads([snapshot |-> d, journal |-> <<>>, media |-> media], d)
  BY SnapshotLoads
<1>2. disk.receipts = {}
  BY DEF EmptyDisk
<1>3. disk' = [snapshot |-> d, journal |-> <<>>, receipts |-> {}, media |-> media] /\ documentCache' = <<d>>
  BY <1>2 DEF StoreDocument
<1>4. Keeps(disk', d)
  BY <1>1, <1>3, Keeping
<1>5. StoreInv'
  BY <1>3, <1>4, ProjectMatches, Writing
<1>6. Says(disk, None) /\ Says(disk', ContentOf(d))
  BY <1>4 DEF Says
<1> QED
  BY <1>5, <1>6, Telling

\* The content a first save makes, as the specification has it.
LEMMA FirstSaved ==
    ASSUME NEW change \in Changes, NEW q, q = ProjectionAfterChanges(NoProjection, change)
    PROVE  Durable!Saved(None, change) = [notes |-> q.notes, deleted |-> {}, settings |-> q.settings]
<1>1. PICK W \in SUBSET Items : change.upsert \in [W -> 1 .. MaxVersion] /\ W = DOMAIN change.upsert
  BY ChangeTypes
<1>2. \A i \in DOMAIN change.upsert : change.upsert[i] # 0
  BY <1>1, StoreAssumption
<1>3. /\ q.settings = change.settings
      /\ q.notes = [i \in Items |-> IF i \in change.remove THEN 0
                                    ELSE IF i \in DOMAIN change.upsert THEN change.upsert[i] ELSE 0]
  <2>1. q.notes = Without(change.remove, Overlay(change.upsert, NoNotes)) /\ q.settings = change.settings
    BY NoProjectionTypes DEF ProjectionAfterChanges
  <2> QED
    BY <2>1 DEF Without, Overlay, NoNotes
<1>4. PICK shown : shown = ({} \cup DOMAIN change.upsert) \ change.remove
  OBVIOUS
<1>5. Durable!Shown(None) = {}
  BY DEF Durable!Shown, Durable!Present
<1>6. PICK notes : notes = [i \in Items |-> IF i \in shown \cap DOMAIN change.upsert THEN change.upsert[i]
                                            ELSE [j \in Items |-> 0][i]]
  OBVIOUS
<1>7. Durable!Saved(None, change) = [notes |-> notes, deleted |-> {i \in Items : notes[i] # 0} \ shown,
                                     settings |-> change.settings]
  BY <1>4, <1>5, <1>6 DEF Durable!Saved, Durable!Remembered
<1>8. notes = q.notes
  <2>1. \A i \in Items : (IF i \in shown \cap DOMAIN change.upsert THEN change.upsert[i] ELSE [j \in Items |-> 0][i])
                           = IF i \in change.remove THEN 0
                             ELSE IF i \in DOMAIN change.upsert THEN change.upsert[i] ELSE 0
    BY <1>4
  <2> QED
    BY <1>3, <1>6, <2>1
<1>9. {i \in Items : notes[i] # 0} \ shown = {}
  BY <1>4, <1>6
<1> QED
  BY <1>3, <1>7, <1>8, <1>9

\* applyChanges, for the first save and every later one.
LEMMA ApplyChangesKeeps ==
    ASSUME ~Overlap, Unfiled = {}, StoreInv, NEW change \in Changes, ApplyChanges(change)
    PROVE  StoreInv' /\ Promised
<1>1. /\ Loaded /\ Effective(change, Projected) /\ Fresh = 1
      /\ backup' = backup /\ restoring' = restoring /\ drawn = 0
  BY DEF ApplyChanges, Ready, Fresh, StoreInv
<1>2. CASE Cached = None
  <2>1. disk = EmptyDisk /\ Projected = NoProjection /\ restoring = None
    BY <1>1, <1>2, LoadedWithout DEF Cached
  <2>2. PICK q : q = ProjectionAfterChanges(NoProjection, change)
    OBVIOUS
  <2>3. q \in Projection /\ q.media = (NoProjection.media \ change.drop) \cup change.add
    BY <2>2, NoProjectionTypes, ProjectionChanges
  <2>4. PICK d : d = NewDocument(q, 1)
    OBVIOUS
  <2>5. /\ Sound(d) /\ Project(d) = q /\ d.media = q.media /\ d.patched = {}
        /\ d.notes = q.notes /\ d.deleted = {} /\ d.settings = q.settings
    BY <2>3, <2>4, FirstDocument
  <2>6. PICK media : media = (disk.media \cup change.add) \ change.drop
    OBVIOUS
  <2>7. /\ StoreDocument(d, disk.receipts, media) /\ projectionCache' = <<Project(d)>> /\ Draw(d)
    BY <1>1, <1>2, <2>1, <2>2, <2>4, <2>5, <2>6 DEF ApplyChanges
  <2>8. drawn' = drawn
    BY <1>1, <2>5, <2>7 DEF Draw, Sound
  <2>9. media \subseteq AllMedia /\ d.media \subseteq media
    <3>1. disk.media = {} /\ change.add \subseteq Media /\ change.drop = {}
      BY <1>1, <2>1, ChangeTypes, NoProjectionTypes DEF EmptyDisk, Effective
    <3> QED
      BY <2>3, <2>5, <2>6, <3>1, NoProjectionTypes DEF AllMedia
  <2>10. ContentOf(d) = Durable!Saved(None, change)
    BY <2>2, <2>5, FirstSaved DEF ContentOf
  <2>11. Durable!SavesChanges(None, ContentOf(d))
    BY <2>10 DEF Durable!SavesChanges
  <2> QED
    BY <1>1, <2>1, <2>5, <2>7, <2>8, <2>9, <2>11, FirstStored
<1>3. CASE Cached # None
  <2>1. PICK c, p, d : /\ Cached = c /\ Projected = p /\ Keeps(disk, d) /\ Matches(c, p, d) /\ restoring = None
    BY <1>1, <1>3, LoadedInStep DEF Cached
  <2>2. PICK e : e = DocumentAfterChanges(change, c, p, 1)
    OBVIOUS
  <2>3. PICK g : g = DocumentAfterChanges(change, d, Project(d), 1)
    OBVIOUS
  <2>4. PICK q : q = ProjectionAfterChanges(p, change)
    OBVIOUS
  <2>5. PICK entry : entry = [kind |-> "changes", value |-> change]
    OBVIOUS
  <2>6. PICK media : media = (disk.media \cup change.add) \ change.drop
    OBVIOUS
  <2>7. /\ c.revision < MaxRevision /\ Effective(change, p)
        /\ disk' = [disk EXCEPT !.journal = Append(disk.journal, entry), !.media = media]
        /\ documentCache' = <<e>> /\ projectionCache' = <<q>> /\ Draw(e)
    BY <1>1, <1>3, <2>1, <2>2, <2>4, <2>5, <2>6 DEF ApplyChanges, Journaled
  <2>8. Matches(e, q, g)
    BY <2>1, <2>2, <2>3, <2>4, <2>7, ChangesMatch
  <2>9. drawn' = drawn
    BY <1>1, <2>7, <2>8 DEF Draw, Matches, Sound
  <2>10. Touches(change, Project(d)) /\ d.revision < MaxRevision /\ Sound(d) /\ Fits(d, Project(d))
    BY <2>1, <2>7, EffectiveTouches, ProjectTypes DEF Matches
  <2>11. Loads(ImageOf(disk), d) /\ disk \in Disks /\ disk.receipts \subseteq d.patched
    BY <2>1 DEF Keeps
  <2>12. ImageOf(disk).snapshot = disk.snapshot /\ ImageOf(disk).journal = disk.journal /\ ImageOf(disk).media = disk.media
    BY DEF ImageOf
  <2>13. Loads([snapshot |-> disk.snapshot, journal |-> Append(disk.journal, entry), media |-> media], g)
    <3>1. PICK image : image = ImageOf(disk)
      OBVIOUS
    <3>2. Loads([snapshot |-> image.snapshot,
                  journal |-> Append(image.journal, [kind |-> "changes", value |-> change]),
                  media |-> (image.media \cup change.add) \ change.drop], g)
      BY <2>3, <2>10, <2>11, <3>1, ChangesLoad
    <3> QED
      BY <2>5, <2>6, <2>12, <3>1, <3>2
  <2>14. /\ g.patched = d.patched /\ ContentOf(g) = Durable!Saved(ContentOf(d), change)
    <3>1. PICK r : r = Project(d)
      OBVIOUS
    <3>2. PICK s : s = ProjectionAfterChanges(r, change)
      OBVIOUS
    <3> QED
      BY <2>3, <2>10, <3>1, <3>2, ChangesFit
  <2>15. disk' = [snapshot |-> disk.snapshot, journal |-> Append(disk.journal, entry), receipts |-> disk.receipts,
                  media |-> media]
    BY <2>7, <2>11 DEF Disks
  <2>16. Keeps(disk', g)
    BY <2>11, <2>13, <2>14, <2>15, Keeping
  <2>17. StoreInv'
    BY <1>1, <2>1, <2>7, <2>8, <2>9, <2>16, Writing
  <2>18. Says(disk, ContentOf(d)) /\ Says(disk', ContentOf(g)) /\ Durable!SavesChanges(ContentOf(d), ContentOf(g))
    BY <2>1, <2>14, <2>16 DEF Says, Durable!SavesChanges
  <2> QED
    BY <1>1, <2>17, <2>18, Telling
<1> QED
  BY <1>2, <1>3

\* A patch made for the document in memory is a patch of what the disk loads.
LEMMA PatchTypes ==
    ASSUME StoreInv, NEW owner \in {"core", "extension"}, NEW key \in Keys, NEW target \in Items \cup {Structure},
           Unused(owner, key, target), Unfiled = {}
    PROVE  \E c, p, d, patch :
              /\ Cached = c /\ Projected = p /\ Keeps(disk, d) /\ Matches(c, p, d) /\ restoring = None
              /\ patch = PatchOf(owner, key, target) /\ patch \in Patch
              /\ patch.owner = owner /\ patch.key = key /\ patch.target = target
              /\ c.revision < MaxRevision /\ d.revision < MaxRevision
              /\ Applies(patch, c) => Applies(patch, d)
<1>1. Loaded /\ Cached # None /\ Cached.revision < MaxRevision
  BY DEF Unused, Active, Ready
<1>2. PICK c, p, d : /\ Cached = c /\ Projected = p /\ Keeps(disk, d) /\ Matches(c, p, d) /\ restoring = None
  BY <1>1, LoadedInStep DEF Cached
<1>3. PICK patch : patch = PatchOf(owner, key, target)
  OBVIOUS
<1>4. patch = [owner |-> owner, key |-> key, base |-> c.revision, target |-> target, deck |-> 0]
  BY <1>2, <1>3 DEF PatchOf
<1>5. c.revision \in 1 .. MaxRevision /\ 0 \in 0 .. MaxDecks /\ d.revision = c.revision /\ Present(d) = Present(c)
  BY <1>2, DocumentTypes, SameContent, StoreAssumption DEF Matches, Sound
<1>6. patch \in Patch
  BY <1>4, <1>5 DEF Patch
<1>7. Applies(patch, c) => Applies(patch, d)
  BY <1>5 DEF Applies
<1> QED
  BY <1>1, <1>2, <1>3, <1>4, <1>5, <1>6, <1>7

\* A patch of the program goes to the journal.
LEMMA ApplyCorePatchKeeps ==
    ASSUME ~Overlap, Unfiled = {}, StoreInv, NEW key \in Keys, NEW target \in Items \cup {Structure},
           ApplyCorePatch(key, target)
    PROVE  StoreInv' /\ Promised
<1>1. PICK c, p, d, patch :
              /\ Cached = c /\ Projected = p /\ Keeps(disk, d) /\ Matches(c, p, d) /\ restoring = None
              /\ patch = PatchOf("core", key, target) /\ patch \in Patch
              /\ patch.owner = "core" /\ patch.key = key /\ patch.target = target
              /\ c.revision < MaxRevision /\ d.revision < MaxRevision
              /\ Applies(patch, c) => Applies(patch, d)
  BY PatchTypes DEF ApplyCorePatch
<1>2. PICK e : e = Patched(patch, c)
  OBVIOUS
<1>3. PICK g : g = Patched(patch, d)
  OBVIOUS
<1>4. PICK q : q = ProjectionAfterPatch(patch, e, p)
  OBVIOUS
<1>5. PICK entry : entry = [kind |-> "core-patch", value |-> patch]
  OBVIOUS
<1>6. PICK receipts : receipts = disk.receipts \cup {<<"core", key>>}
  OBVIOUS
<1>7. /\ Applies(patch, c)
      /\ disk' = [disk EXCEPT !.journal = Append(disk.journal, entry), !.receipts = receipts]
      /\ documentCache' = <<e>> /\ projectionCache' = <<q>>
      /\ backup' = backup /\ restoring' = restoring /\ drawn' = drawn
  BY <1>1, <1>2, <1>4, <1>5, <1>6 DEF ApplyCorePatch, Journaled
<1>8. Matches(e, q, g)
  BY <1>1, <1>2, <1>3, <1>4, PatchesMatch
<1>9. Loads(ImageOf(disk), d) /\ disk \in Disks /\ disk.receipts \subseteq d.patched
  BY <1>1 DEF Keeps
<1>10. ImageOf(disk).snapshot = disk.snapshot /\ ImageOf(disk).journal = disk.journal /\ ImageOf(disk).media = disk.media
  BY DEF ImageOf
<1>11. Loads([snapshot |-> disk.snapshot, journal |-> Append(disk.journal, entry), media |-> disk.media], g)
  <2>1. PICK image : image = ImageOf(disk)
    OBVIOUS
  <2>2. Loads([snapshot |-> image.snapshot, journal |-> Append(image.journal, entry), media |-> image.media], g)
    BY <1>1, <1>3, <1>5, <1>7, <1>9, <2>1, PatchLoads
  <2> QED
    BY <1>10, <2>1, <2>2
<1>12. ContentOf(g) = ContentOf(d) /\ g.patched = d.patched \cup {<<"core", key>>}
  BY <1>1, <1>3, PatchedParts DEF Matches
<1>13. disk' = [snapshot |-> disk.snapshot, journal |-> Append(disk.journal, entry), receipts |-> receipts,
                media |-> disk.media]
  BY <1>7, <1>9 DEF Disks
<1>14. receipts \subseteq g.patched
  BY <1>6, <1>9, <1>12
<1>15. Keeps(disk', g)
  BY <1>11, <1>13, <1>14, Keeping
<1>16. StoreInv'
  BY <1>1, <1>7, <1>8, <1>15, Writing
<1>17. Says(disk, ContentOf(d)) /\ Says(disk', ContentOf(d))
  BY <1>1, <1>12, <1>15 DEF Says
<1> QED
  BY <1>7, <1>16, <1>17, Telling

\* A handler that writes a snapshot leaves the store in step with it.
LEMMA Storing ==
    ASSUME StoreInv, NEW e, NEW q, Matches(e, q, e), NEW receipts, NEW media, StoreDocument(e, receipts, media),
           receipts \subseteq e.patched, media \subseteq AllMedia, e.media \subseteq media,
           projectionCache' = <<q>>, restoring = None,
           backup' = backup, restoring' = restoring, drawn' = drawn
    PROVE  StoreInv' /\ Keeps(disk', e)
<1>1. Sound(e)
  BY DEF Matches
<1>2. Loads([snapshot |-> e, journal |-> <<>>, media |-> media], e)
  BY <1>1, SnapshotLoads
<1>3. disk' = [snapshot |-> e, journal |-> <<>>, receipts |-> receipts, media |-> media] /\ documentCache' = <<e>>
  BY DEF StoreDocument
<1>4. Keeps(disk', e)
  BY <1>2, <1>3, Keeping
<1> QED
  BY <1>3, <1>4, Writing

\* A patch of an extension makes a snapshot.
LEMMA ApplyExtensionPatchKeeps ==
    ASSUME ~Overlap, Unfiled = {}, StoreInv, NEW key \in Keys, NEW target \in Items \cup {Structure},
           ApplyExtensionPatch(key, target)
    PROVE  StoreInv' /\ Promised
<1>1. PICK c, p, d, patch :
              /\ Cached = c /\ Projected = p /\ Keeps(disk, d) /\ Matches(c, p, d) /\ restoring = None
              /\ patch = PatchOf("extension", key, target) /\ patch \in Patch
              /\ patch.owner = "extension" /\ patch.key = key /\ patch.target = target
              /\ c.revision < MaxRevision /\ d.revision < MaxRevision
              /\ Applies(patch, c) => Applies(patch, d)
  BY PatchTypes DEF ApplyExtensionPatch
<1>2. PICK e : e = Patched(patch, c)
  OBVIOUS
<1>3. PICK receipts : receipts = disk.receipts \cup {<<"extension", key>>}
  OBVIOUS
<1>4. /\ StoreDocument(e, receipts, disk.media) /\ projectionCache' = <<Project(e)>>
      /\ backup' = backup /\ restoring' = restoring /\ drawn' = drawn
  BY <1>1, <1>2, <1>3 DEF ApplyExtensionPatch
<1>5. /\ Sound(e) /\ ContentOf(e) = ContentOf(c) /\ e.media = c.media
      /\ e.patched = c.patched \cup {<<"extension", key>>}
  BY <1>1, <1>2, PatchedParts DEF Matches
<1>6. /\ disk \in Disks /\ disk.receipts \subseteq c.patched /\ c.media \subseteq disk.media
      /\ ContentOf(c) = ContentOf(d)
  BY <1>1 DEF Keeps, Loads, ImageOf, Matches
<1>7. disk.media \subseteq AllMedia /\ receipts \subseteq e.patched
  BY <1>3, <1>5, <1>6 DEF Disks
<1>8. StoreInv' /\ Keeps(disk', e)
  BY <1>1, <1>4, <1>5, <1>6, <1>7, ProjectMatches, Storing
<1>9. Says(disk, ContentOf(d)) /\ Says(disk', ContentOf(d))
  BY <1>1, <1>5, <1>6, <1>8 DEF Says
<1> QED
  BY <1>4, <1>8, <1>9, Telling

\* Writing the settings of an extension.
LEMMA WriteExtensionConfigKeeps ==
    ASSUME ~Overlap, StoreInv, NEW settings \in Settings, WriteExtensionConfig(settings)
    PROVE  StoreInv' /\ Promised
<1>1. Loaded /\ Cached # None
  BY DEF WriteExtensionConfig, Active, Ready
<1>2. PICK c, p, d : Cached = c /\ Keeps(disk, d) /\ Matches(c, p, d) /\ restoring = None
  BY <1>1, LoadedInStep DEF Cached
<1>3. PICK e : e = [c EXCEPT !.settings = settings, !.revision = c.revision + 1]
  OBVIOUS
<1>4. /\ c.revision < MaxRevision
      /\ StoreDocument(e, disk.receipts, disk.media) /\ projectionCache' = <<Project(e)>>
      /\ backup' = backup /\ restoring' = restoring /\ drawn' = drawn
  BY <1>2, <1>3 DEF WriteExtensionConfig
<1>5. /\ c \in Document /\ c.deck = 0 /\ c.deleted \subseteq Present(c)
      /\ ContentOf(c) = ContentOf(d) /\ c.patched = d.patched /\ c.media \subseteq d.media
  BY <1>2 DEF Matches, Sound
<1>6. c.revision + 1 \in 1 .. MaxRevision
  BY <1>4, <1>5, DocumentTypes, StoreAssumption
<1>7. /\ e.notes = c.notes /\ e.deleted = c.deleted /\ e.settings = settings /\ e.media = c.media
      /\ e.patched = c.patched /\ e.deck = c.deck /\ e \in Document
  BY <1>3, <1>5, <1>6 DEF Document
<1>8. Sound(e)
  BY <1>5, <1>7 DEF Sound, Present
<1>9. disk \in Disks /\ disk.receipts \subseteq e.patched /\ e.media \subseteq disk.media
  BY <1>2, <1>5, <1>7 DEF Keeps, Loads, ImageOf
<1>10. disk.media \subseteq AllMedia
  BY <1>9 DEF Disks
<1>11. StoreInv' /\ Keeps(disk', e)
  BY <1>2, <1>4, <1>8, <1>9, <1>10, ProjectMatches, Storing
<1>12. PICK x : x = ContentOf(d)
  OBVIOUS
<1>13. ContentOf(e) = [x EXCEPT !.settings = settings] /\ x # None
  BY <1>2, <1>5, <1>7, <1>12, SoundTypes DEF ContentOf, Matches
<1>14. Durable!Configures(x, ContentOf(e))
  BY <1>13 DEF Durable!Configures
<1>15. Says(disk, x) /\ Says(disk', ContentOf(e))
  BY <1>2, <1>11, <1>12 DEF Says
<1> QED
  BY <1>4, <1>11, <1>14, <1>15, Telling

\* An extension creates media.
LEMMA CreateExtensionMediaKeeps ==
    ASSUME ~Overlap, StoreInv, NEW m \in ExtensionMedia, CreateExtensionMedia(m)
    PROVE  StoreInv' /\ Promised
<1>1. Loaded /\ Cached # None
  BY DEF CreateExtensionMedia, Active, Ready
<1>2. PICK c, p, d : /\ projectionCache = <<p>> /\ Cached = c /\ Keeps(disk, d) /\ Matches(c, p, d) /\ restoring = None
  BY <1>1, LoadedInStep DEF Cached
<1>3. PICK held : held = c.media \cup {m}
  OBVIOUS
<1>4. PICK e : e = [c EXCEPT !.media = held, !.revision = c.revision + 1]
  OBVIOUS
<1>5. PICK media : media = disk.media \cup {m}
  OBVIOUS
<1>6. /\ c.revision < MaxRevision
      /\ StoreDocument(e, disk.receipts, media) /\ projectionCache' = <<p>>
      /\ backup' = backup /\ restoring' = restoring /\ drawn' = drawn
  BY <1>2, <1>3, <1>4, <1>5 DEF CreateExtensionMedia
<1>7. /\ c \in Document /\ c.deck = 0 /\ c.deleted \subseteq Present(c) /\ Fits(c, p)
      /\ ContentOf(c) = ContentOf(d) /\ c.patched = d.patched /\ c.media \subseteq d.media
  BY <1>2 DEF Matches, Sound
<1>8. c.revision + 1 \in 1 .. MaxRevision /\ held \in SUBSET (Media \cup ExtensionMedia)
  BY <1>3, <1>6, <1>7, DocumentTypes, StoreAssumption DEF AllMedia
<1>9. /\ e.notes = c.notes /\ e.deleted = c.deleted /\ e.settings = c.settings /\ e.media = held
      /\ e.patched = c.patched /\ e.deck = c.deck /\ e \in Document
  BY <1>4, <1>7, <1>8 DEF Document
<1>10. Sound(e)
  BY <1>7, <1>9 DEF Sound, Present
<1>11. disk \in Disks /\ disk.receipts \subseteq e.patched /\ e.media \subseteq media
  BY <1>2, <1>3, <1>5, <1>7, <1>9 DEF Keeps, Loads, ImageOf
<1>12. media \subseteq AllMedia
  BY <1>5, <1>11 DEF Disks, AllMedia
<1>13. Fits(e, p)
  BY <1>3, <1>7, <1>9 DEF Fits
<1>14. Matches(e, p, e)
  BY <1>10, <1>13 DEF Matches, Fits
<1>15. StoreInv' /\ Keeps(disk', e)
  BY <1>2, <1>6, <1>11, <1>12, <1>14, Storing
<1>16. ContentOf(e) = ContentOf(d)
  BY <1>7, <1>9 DEF ContentOf
<1>17. Says(disk, ContentOf(d)) /\ Says(disk', ContentOf(d))
  BY <1>2, <1>15, <1>16 DEF Says
<1> QED
  BY <1>6, <1>15, <1>17, Telling

\* What arrives is written over what is there.
LEMMA Arriving ==
    ASSUME NEW incoming \in Incoming, NEW notes \in Versions, NEW merged, merged = Overlay(incoming, notes)
    PROVE  /\ merged \in Versions
           /\ \A i \in Items : /\ i \in DOMAIN incoming => merged[i] # 0
                               /\ i \notin DOMAIN incoming => merged[i] = notes[i]
<1>1. PICK W \in SUBSET Items : incoming \in [W -> 1 .. MaxVersion]
  BY StoreAssumption DEF Written
<1>2. \A i \in Items : merged[i] = IF i \in DOMAIN incoming THEN incoming[i] ELSE notes[i]
  BY DEF Overlay
<1>3. \A i \in DOMAIN incoming : incoming[i] \in 0 .. MaxVersion /\ incoming[i] # 0
  BY <1>1, StoreAssumption
<1>4. \A i \in Items : merged[i] \in 0 .. MaxVersion
  BY <1>2, <1>3 DEF Versions
<1>5. merged \in Versions
  BY <1>4 DEF Versions, Overlay
<1> QED
  BY <1>2, <1>3, <1>5

\* An import, into a workspace or into none.
LEMMA ImportWorkspaceKeeps ==
    ASSUME ~Overlap, Unfiled = {}, StoreInv, NEW incoming \in Incoming, NEW media \in SUBSET Media,
           ImportWorkspace(incoming, media)
    PROVE  StoreInv' /\ Promised
<1>1. Loaded /\ backup' = backup /\ restoring' = restoring /\ drawn' = drawn /\ media \subseteq AllMedia
  BY DEF ImportWorkspace, Ready, AllMedia
<1>2. CASE Cached = None
  <2>1. disk = EmptyDisk /\ restoring = None
    BY <1>1, <1>2, LoadedWithout DEF Cached
  <2>2. PICK notes : notes = Overlay(incoming, NoNotes)
    OBVIOUS
  <2>3. NoNotes \in Versions
    BY StoreAssumption DEF NoNotes, Versions
  <2>4. notes \in Versions /\ \A i \in Items : notes[i] # 0 => i \in DOMAIN incoming
    BY <2>2, <2>3, Arriving DEF NoNotes
  <2>5. PICK p : p = [notes |-> notes, settings |-> 0, media |-> media]
    OBVIOUS
  <2>6. p \in Projection /\ p.notes = notes /\ p.media = media
    BY <1>1, <2>4, <2>5, StoreAssumption DEF Projection, AllMedia
  <2>7. PICK d : d = NewDocument(p, Fresh)
    OBVIOUS
  <2>8. /\ Sound(d) /\ d.media = media /\ d.patched = {} /\ d.notes = notes /\ d.deleted = {}
    BY <2>6, <2>7, FirstDocument
  <2>9. PICK stored : stored = (disk.media \cup media) \cap d.media
    OBVIOUS
  <2>10. StoreDocument(d, disk.receipts, stored) /\ projectionCache' = <<Project(d)>>
    BY <1>2, <2>2, <2>5, <2>7, <2>9 DEF ImportWorkspace, Commit
  <2>11. stored \subseteq AllMedia /\ d.media \subseteq stored
    BY <1>1, <2>8, <2>9
  <2>12. ContentOf(d) \in Durable!Content /\ ContentOf(d).deleted = {} /\ ContentOf(d).notes = notes
    BY <2>8, SoundTypes DEF ContentOf
  <2>13. Durable!Incorporates(None, ContentOf(d))
    BY <2>4, <2>12 DEF Durable!Incorporates, Durable!Remembered
  <2> QED
    BY <1>1, <2>1, <2>8, <2>10, <2>11, <2>13, FirstStored
<1>3. CASE Cached # None
  <2>1. PICK c, p, d : Cached = c /\ Keeps(disk, d) /\ Matches(c, p, d) /\ restoring = None
    BY <1>1, <1>3, LoadedInStep DEF Cached
  <2>2. PICK notes : notes = Overlay(incoming, c.notes)
    OBVIOUS
  <2>3. PICK held : held = c.media \cup media
    OBVIOUS
  <2>4. PICK e : e = [c EXCEPT !.notes = notes, !.media = held, !.revision = c.revision + 1]
    OBVIOUS
  <2>5. PICK stored : stored = (disk.media \cup media) \cap e.media
    OBVIOUS
  <2>6. /\ c.revision < MaxRevision /\ DOMAIN incoming \cap Present(c) = {}
        /\ StoreDocument(e, disk.receipts, stored) /\ projectionCache' = <<Project(e)>>
    BY <1>3, <2>1, <2>2, <2>3, <2>4, <2>5 DEF ImportWorkspace, Commit
  <2>7. /\ c \in Document /\ c.deck = 0 /\ c.deleted \subseteq Present(c)
        /\ ContentOf(c) = ContentOf(d) /\ c.patched = d.patched /\ c.media \subseteq d.media
    BY <2>1 DEF Matches, Sound
  <2>8. c.notes \in Versions /\ c.revision + 1 \in 1 .. MaxRevision /\ held \in SUBSET (Media \cup ExtensionMedia)
    BY <1>1, <2>3, <2>6, <2>7, DocumentTypes, StoreAssumption DEF Versions, AllMedia
  <2>9. /\ notes \in Versions
        /\ \A i \in Items : /\ i \in DOMAIN incoming => notes[i] # 0
                            /\ i \notin DOMAIN incoming => notes[i] = c.notes[i]
    BY <2>2, <2>8, Arriving
  <2>10. /\ e.notes = notes /\ e.deleted = c.deleted /\ e.settings = c.settings /\ e.media = held
         /\ e.patched = c.patched /\ e.deck = c.deck /\ e \in Document
    BY <2>4, <2>7, <2>8, <2>9 DEF Document
  <2>11. Sound(e)
    BY <2>7, <2>9, <2>10 DEF Sound, Present
  <2>12. disk \in Disks /\ disk.receipts \subseteq e.patched /\ c.media \subseteq disk.media
    BY <2>1, <2>7, <2>10 DEF Keeps, Loads, ImageOf
  <2>13. stored \subseteq AllMedia /\ e.media \subseteq stored
    BY <1>1, <2>3, <2>5, <2>10, <2>12 DEF Disks
  <2>14. StoreInv' /\ Keeps(disk', e)
    BY <1>1, <2>1, <2>6, <2>11, <2>12, <2>13, ProjectMatches, Storing
  <2>15. PICK x, y : x = ContentOf(d) /\ y = ContentOf(e)
    OBVIOUS
  <2>16. /\ x # None /\ x.notes = c.notes /\ x.deleted = c.deleted /\ x.settings = c.settings
    BY <2>1, <2>7, <2>15, SoundTypes DEF ContentOf, Matches
  <2>17. y \in Durable!Content /\ y.notes = notes /\ y.deleted = c.deleted /\ y.settings = c.settings
    BY <2>10, <2>11, <2>15, SoundTypes DEF ContentOf
  <2>18. \A i \in Items : y.notes[i] # Durable!Remembered(x)[i] => y.notes[i] # 0 /\ i \notin y.deleted
    BY <2>6, <2>7, <2>9, <2>16, <2>17 DEF Durable!Remembered
  <2>19. Durable!Incorporates(x, y)
    BY <2>16, <2>17, <2>18 DEF Durable!Incorporates
  <2>20. Says(disk, x) /\ Says(disk', y)
    BY <2>1, <2>14, <2>15 DEF Says
  <2> QED
    BY <1>1, <2>14, <2>19, <2>20, Telling
<1> QED
  BY <1>2, <1>3

\* A synchronization commits what it merged.
LEMMA CommitSynchronizedWorkspaceKeeps ==
    ASSUME ~Overlap, StoreInv, NEW incoming \in Incoming, CommitSynchronizedWorkspace(incoming)
    PROVE  StoreInv' /\ Promised
<1>1. Loaded /\ Cached # None
  BY DEF CommitSynchronizedWorkspace, Active, Ready
<1>2. PICK c, p, d : Cached = c /\ Keeps(disk, d) /\ Matches(c, p, d) /\ restoring = None
  BY <1>1, LoadedInStep DEF Cached
<1>3. PICK notes : notes = Overlay(incoming, c.notes)
  OBVIOUS
<1>4. PICK e : e = [c EXCEPT !.notes = notes, !.deleted = {}, !.revision = c.revision + 1]
  OBVIOUS
<1>5. PICK stored : stored = (disk.media \cup {}) \cap e.media
  OBVIOUS
<1>6. /\ c.revision < MaxRevision
      /\ StoreDocument(e, disk.receipts, stored) /\ projectionCache' = <<Project(e)>>
      /\ backup' = backup /\ restoring' = restoring /\ drawn' = drawn
  BY <1>2, <1>3, <1>4, <1>5 DEF CommitSynchronizedWorkspace, Commit
<1>7. /\ c \in Document /\ c.deck = 0
      /\ ContentOf(c) = ContentOf(d) /\ c.patched = d.patched /\ c.media \subseteq d.media
  BY <1>2 DEF Matches, Sound
<1>8. c.notes \in Versions /\ c.revision + 1 \in 1 .. MaxRevision
  BY <1>6, <1>7, DocumentTypes, StoreAssumption DEF Versions
<1>9. /\ notes \in Versions
      /\ \A i \in Items : /\ i \in DOMAIN incoming => notes[i] # 0
                          /\ i \notin DOMAIN incoming => notes[i] = c.notes[i]
  BY <1>3, <1>8, Arriving
<1>10. /\ e.notes = notes /\ e.deleted = {} /\ e.settings = c.settings /\ e.media = c.media
       /\ e.patched = c.patched /\ e.deck = c.deck /\ e \in Document
  BY <1>4, <1>7, <1>8, <1>9 DEF Document
<1>11. Sound(e)
  BY <1>7, <1>10 DEF Sound
<1>12. disk \in Disks /\ disk.receipts \subseteq e.patched /\ c.media \subseteq disk.media
  BY <1>2, <1>7, <1>10 DEF Keeps, Loads, ImageOf
<1>13. stored \subseteq AllMedia /\ e.media \subseteq stored
  BY <1>5, <1>10, <1>12 DEF Disks
<1>14. StoreInv' /\ Keeps(disk', e)
  BY <1>2, <1>6, <1>11, <1>12, <1>13, ProjectMatches, Storing
<1>15. PICK x, y : x = ContentOf(d) /\ y = ContentOf(e)
  OBVIOUS
<1>16. /\ x # None /\ x.notes = c.notes /\ x.settings = c.settings
  BY <1>2, <1>7, <1>15, SoundTypes DEF ContentOf, Matches
<1>17. y \in Durable!Content /\ y.notes = notes /\ y.deleted = {} /\ y.settings = c.settings
  BY <1>10, <1>11, <1>15, SoundTypes DEF ContentOf
<1>18. \A i \in Items : y.notes[i] # Durable!Remembered(x)[i] => y.notes[i] # 0 /\ i \notin y.deleted
  BY <1>9, <1>16, <1>17 DEF Durable!Remembered
<1>19. Durable!Incorporates(x, y)
  BY <1>16, <1>17, <1>18 DEF Durable!Incorporates
<1>20. Says(disk, x) /\ Says(disk', y)
  BY <1>2, <1>14, <1>15 DEF Says
<1> QED
  BY <1>6, <1>14, <1>19, <1>20, Telling

-----------------------------------------------------------------------------
(* Backups, restarts, and the steps together. *)

\* The copy and the content the disk has before one of them is replaced.
LEMMA TellingBoth ==
    ASSUME StoreInv, NEW x, NEW y, NEW u, NEW v, Says(disk, x), Says(disk', y), Copies(backup, u), Copies(backup', v),
           Turns(x, y, u, v)
    PROVE  Promised
  BY DEF Promised

\* Either there is no workspace, or the disk keeps a document.
LEMMA DiskCases ==
    ASSUME StoreInv
    PROVE  \/ disk = EmptyDisk /\ ~HasWorkspace
           \/ HasWorkspace /\ \E d : Keeps(disk, d) /\ Loads(Image, d) /\ Says(disk, ContentOf(d)) /\ ContentOf(d) # None
<1>1. CASE disk = EmptyDisk
  BY <1>1 DEF HasWorkspace, EmptyDisk
<1>2. CASE disk # EmptyDisk
  <2>1. PICK d : Keeps(disk, d)
    BY <1>2 DEF StoreInv, Nowhere, Holds
  <2> QED
    BY <2>1, KeepsSomething DEF Says, HasWorkspace, Keeps, Image, ImageOf
<1> QED
  BY <1>1, <1>2

\* createBackup.
LEMMA CreateBackupKeeps ==
    ASSUME ~Overlap, StoreInv, CreateBackup
    PROVE  StoreInv' /\ Promised
<1>1. /\ HasWorkspace /\ backup' = Image /\ disk' = disk /\ documentCache' = documentCache
      /\ projectionCache' = projectionCache /\ restoring' = restoring /\ drawn' = drawn /\ restoring = None
  BY DEF CreateBackup
<1>2. PICK d : Loads(Image, d) /\ Says(disk, ContentOf(d)) /\ ContentOf(d) # None
  BY <1>1, DiskCases
<1>3. PICK u : Copies(backup, u)
  BY CopyExists
<1>4. Copies(backup', ContentOf(d)) /\ Says(disk', ContentOf(d))
  BY <1>1, <1>2 DEF Copies
<1>5. Turns(ContentOf(d), ContentOf(d), u, ContentOf(d))
  BY <1>2 DEF Turns
<1>6. Promised
  BY <1>2, <1>3, <1>4, <1>5, TellingBoth
<1>7. Kept(backup')
  BY <1>1, <1>2 DEF Kept
<1>8. (Nowhere' <=> Nowhere) /\ \A e : Holds(e)' <=> Holds(e)
  BY <1>1 DEF Nowhere, Holds, Unloaded
<1>9. StoreInv'
  BY <1>1, <1>7, <1>8 DEF StoreInv
<1> QED
  BY <1>6, <1>9

\* restoreBackup up to its await.
LEMMA BeginRestoreKeeps ==
    ASSUME StoreInv, BeginRestore
    PROVE  StoreInv' /\ Promised
<1>1. /\ restoring' = backup /\ documentCache' = <<>> /\ projectionCache' = <<>>
      /\ disk' = disk /\ backup' = backup /\ drawn' = drawn
  BY DEF BeginRestore
<1>2. Unloaded'
  BY <1>1 DEF Unloaded
<1>3. Nowhere => Nowhere'
  BY <1>1, <1>2 DEF Nowhere
<1>4. ASSUME NEW d, Holds(d) PROVE Holds(d)'
  <2>1. Keeps(disk', d)
    BY <1>1, <1>4 DEF Holds
  <2> QED
    BY <1>2, <2>1 DEF Holds
<1>5. StoreInv'
  BY <1>1, <1>2, <1>3, <1>4 DEF StoreInv
<1> QED
  BY <1>1, <1>5, Unchanged

\* A restart, or a crash, loses the caches.
LEMMA RestartKeeps ==
    ASSUME StoreInv, Restart
    PROVE  StoreInv' /\ Promised
<1>1. /\ documentCache' = <<>> /\ projectionCache' = <<>> /\ restoring' = None
      /\ disk' = disk /\ backup' = backup /\ drawn' = drawn
  BY DEF Restart
<1>2. Unloaded'
  BY <1>1 DEF Unloaded
<1>3. Nowhere => Nowhere'
  BY <1>1, <1>2 DEF Nowhere
<1>4. ASSUME NEW d, Holds(d) PROVE Holds(d)'
  <2>1. Keeps(disk', d)
    BY <1>1, <1>4 DEF Holds
  <2> QED
    BY <1>2, <2>1 DEF Holds
<1>5. StoreInv'
  BY <1>1, <1>2, <1>3, <1>4 DEF StoreInv
<1> QED
  BY <1>1, <1>5, Unchanged

\* An automatic backup leaves the older copy or the workspace being replaced.
LEMMA CopyKept ==
    ASSUME StoreInv, NEW copy \in BackupsKept, NEW x, Says(disk, x), NEW u, Copies(backup, u)
    PROVE  /\ Kept(copy)
           /\ \E v : Copies(copy, v) /\ v \in {u} \cup ({x} \ {None})
<1>1. CASE copy = backup
  BY <1>1 DEF StoreInv
<1>2. CASE copy # backup
  <2>1. HasWorkspace /\ copy = Image
    BY <1>2 DEF BackupsKept
  <2>2. PICK d : Keeps(disk, d) /\ Loads(Image, d) /\ ContentOf(d) # None
    BY <2>1, DiskCases
  <2>3. x = ContentOf(d)
    <3>1. disk # EmptyDisk
      BY <2>2, KeepsSomething
    <3>2. PICK e : Keeps(disk, e) /\ x = ContentOf(e)
      BY <3>1 DEF Says
    <3>3. e = d
      BY <2>2, <3>2, LoadsOne DEF Keeps
    <3> QED
      BY <3>2, <3>3
  <2> QED
    BY <2>1, <2>2, <2>3 DEF Kept, Copies
<1> QED
  BY <1>1, <1>2

\* clear.
LEMMA ClearKeeps ==
    ASSUME ~Overlap, StoreInv, Clear
    PROVE  StoreInv' /\ Promised
<1>1. /\ backup' \in BackupsKept /\ disk' = EmptyDisk /\ documentCache' = <<None>> /\ projectionCache' = <<None>>
      /\ restoring = None /\ restoring' = None /\ drawn' = drawn
  BY DEF Clear
<1>2. PICK x : Says(disk, x)
  BY SaysSomething
<1>3. PICK u : Copies(backup, u)
  BY CopyExists
<1>4. PICK v : Copies(backup', v) /\ v \in {u} \cup ({x} \ {None})
  BY <1>1, <1>2, <1>3, CopyKept
<1>5. Kept(backup')
  BY <1>1, <1>2, <1>3, CopyKept
<1>6. Says(disk', None)
  BY <1>1 DEF Says
<1>7. Turns(x, None, u, v)
  BY <1>4 DEF Turns
<1>8. Promised
  BY <1>2, <1>3, <1>4, <1>6, <1>7, TellingBoth
<1>9. Nowhere'
  BY <1>1 DEF Nowhere
<1>10. StoreInv'
  BY <1>1, <1>5, <1>9 DEF StoreInv
<1> QED
  BY <1>8, <1>10

\* restoreBackup after its await.
LEMMA FinishRestoreKeeps ==
    ASSUME StoreInv, FinishRestore
    PROVE  StoreInv' /\ Promised
<1>1. /\ restoring # None /\ restoring = backup /\ documentCache = <<>> /\ projectionCache = <<>>
      /\ drawn = 0 /\ Kept(backup)
  BY DEF FinishRestore, StoreInv, Unloaded
<1>2. /\ disk' = Restored(backup) /\ backup' \in BackupsKept /\ restoring' = None /\ LoadFrom(backup)
  BY <1>1 DEF FinishRestore
<1>3. PICK d : Loads(backup, d)
  BY <1>1 DEF Kept
<1>4. documentCache' = <<d>> /\ projectionCache' = <<Project(d)>> /\ drawn' = 0
  BY <1>1, <1>2, <1>3, Loading
<1>5. disk' = [snapshot |-> backup.snapshot, journal |-> backup.journal, receipts |-> {}, media |-> backup.media]
  BY <1>2 DEF Restored
<1>6. backup = [snapshot |-> backup.snapshot, journal |-> backup.journal, media |-> backup.media]
  BY <1>3 DEF Loads, Stores
<1>7. Keeps(disk', d)
  BY <1>3, <1>5, <1>6, Keeping
<1>8. PICK x : Says(disk, x)
  BY SaysSomething
<1>9. PICK u : u = ContentOf(d)
  OBVIOUS
<1>10. Copies(backup, u) /\ u # None /\ Says(disk', u)
  BY <1>3, <1>7, <1>9, KeepsSomething DEF Copies, Says
<1>11. PICK v : Copies(backup', v) /\ v \in {u} \cup ({x} \ {None})
  BY <1>2, <1>8, <1>10, CopyKept
<1>12. Kept(backup')
  BY <1>2, <1>8, <1>10, CopyKept
<1>13. Turns(x, u, u, v)
  BY <1>10, <1>11 DEF Turns
<1>14. Promised
  BY <1>8, <1>10, <1>11, <1>13, TellingBoth
<1>15. Holds(d)'
  BY <1>3, <1>4, <1>7, ProjectMatches DEF Holds, Loads
<1>16. StoreInv'
  BY <1>2, <1>4, <1>12, <1>15 DEF StoreInv
<1> QED
  BY <1>14, <1>16

\* The store of a new installation.
LEMMA InitialStore ==
    ASSUME StoreInit
    PROVE  StoreInv
<1>1. Unloaded /\ disk = EmptyDisk /\ backup = None /\ restoring = None /\ drawn = 0
  BY DEF StoreInit, Unloaded
<1>2. Nowhere
  BY <1>1 DEF Nowhere
<1> QED
  BY <1>1, <1>2 DEF StoreInv, Kept

\* Every step keeps the invariant and the promise.
LEMMA EveryStep ==
    ASSUME ~Overlap, Unfiled = {}, StoreInv, [StoreNext]_storeVars
    PROVE  StoreInv' /\ Promised
<1>1. CASE LoadWorkspace
  BY <1>1, LoadWorkspaceKeeps
<1>2. CASE \E change \in Changes : ApplyChanges(change)
  BY <1>2, ApplyChangesKeeps
<1>3. ASSUME NEW key \in Keys, NEW target \in Items \cup {Structure},
             ApplyCorePatch(key, target) \/ ApplyExtensionPatch(key, target)
      PROVE  StoreInv' /\ Promised
  BY <1>3, ApplyCorePatchKeeps, ApplyExtensionPatchKeeps
<1>4. CASE \E settings \in Settings : WriteExtensionConfig(settings)
  BY <1>4, WriteExtensionConfigKeeps
<1>5. CASE \E m \in ExtensionMedia : CreateExtensionMedia(m)
  BY <1>5, CreateExtensionMediaKeeps
<1>6. CASE \E incoming \in Incoming, media \in SUBSET Media : ImportWorkspace(incoming, media)
  BY <1>6, ImportWorkspaceKeeps
<1>7. CASE \E incoming \in Incoming : CommitSynchronizedWorkspace(incoming)
  BY <1>7, CommitSynchronizedWorkspaceKeeps
<1>8. CASE CreateBackup
  BY <1>8, CreateBackupKeeps
<1>9. CASE BeginRestore
  BY <1>9, BeginRestoreKeeps
<1>10. CASE FinishRestore
  BY <1>10, FinishRestoreKeeps
<1>11. CASE Clear
  BY <1>11, ClearKeeps
<1>12. CASE Restart
  BY <1>12, RestartKeeps
<1>13. CASE UNCHANGED storeVars
  <2>1. /\ disk' = disk /\ documentCache' = documentCache /\ projectionCache' = projectionCache
        /\ backup' = backup /\ restoring' = restoring /\ drawn' = drawn
    BY <1>13 DEF storeVars
  <2>2. Nowhere => Nowhere'
    BY <2>1 DEF Nowhere, Unloaded
  <2>3. ASSUME NEW d, Holds(d) PROVE Holds(d)'
    BY <2>1, <2>3 DEF Holds, Unloaded
  <2>4. StoreInv'
    BY <2>1, <2>2, <2>3 DEF StoreInv, Unloaded
  <2> QED
    BY <2>1, <2>4, Unchanged
<1> QED
  BY <1>1, <1>2, <1>3, <1>4, <1>5, <1>6, <1>7, <1>8, <1>9, <1>10, <1>11, <1>12, <1>13 DEF StoreNext

\* The disk and memory stay in step, and every step turns the content as the
\* specification of a durable workspace allows.
THEOREM StoreInvariant ==
    ASSUME ~Overlap, Unfiled = {}
    PROVE  StoreSpec => []StoreInv
<1>1. StoreInit => StoreInv
  BY InitialStore
<1>2. StoreInv /\ [StoreNext]_storeVars => StoreInv'
  BY EveryStep
<1> QED
  BY <1>1, <1>2, PTL DEF StoreSpec

-----------------------------------------------------------------------------
(* The properties. *)

\* What the images the store has would load.
LEMMA ImagesLoad ==
    ASSUME StoreInv, NEW image \in Images, image.snapshot # None
    PROVE  \E d : Loads(image, d) /\ (image = Image => Keeps(disk, d))
<1>1. CASE image = Image
  <2>1. HasWorkspace
    BY <1>1 DEF Image, HasWorkspace
  <2> QED
    BY <1>1, <2>1, DiskCases
<1>2. CASE image # Image
  <2>1. image = backup /\ backup # None
    BY <1>2 DEF Images, StoreInv
  <2> QED
    BY <1>2, <2>1 DEF StoreInv, Kept
<1> QED
  BY <1>1, <1>2

\* A store that loads a document replays to it.
LEMMA ImageReplays ==
    ASSUME StoreInv, NEW image, NEW d, Loads(image, d)
    PROVE  ReplayImage(image, Fresh) = {[document |-> d, projection |-> Project(d)]}
<1>1. Fresh = 1
  BY DEF StoreInv, Fresh
<1> QED
  BY <1>1 DEF Loads, First

\* Startup and every restore can replay the journal they find.
THEOREM JournalsReplay ==
    ASSUME ~Overlap, Unfiled = {}
    PROVE  StoreSpec => []JournalReplays
<1>1. StoreInv => JournalReplays
  BY ImagesLoad, ImageReplays DEF JournalReplays
<1> QED
  BY <1>1, StoreInvariant, PTL

\* A patch that a receipt answers was applied to what a restart loads.
THEOREM ReceiptsMeanApplied ==
    ASSUME ~Overlap, Unfiled = {}
    PROVE  StoreSpec => []ReceiptMeansApplied
<1>1. ASSUME StoreInv, HasWorkspace, NEW state \in ReplayImage(Image, Fresh)
      PROVE  disk.receipts \subseteq state.document.patched
  <2>1. PICK d : Keeps(disk, d) /\ Loads(Image, d)
    BY <1>1, DiskCases
  <2>2. state.document = d
    BY <1>1, <2>1, ImageReplays
  <2> QED
    BY <2>1, <2>2 DEF Keeps
<1>2. StoreInv => ReceiptMeansApplied
  BY <1>1 DEF ReceiptMeansApplied
<1> QED
  BY <1>2, StoreInvariant, PTL

\* Documents, and projections, that differ only in media are equal without them.
LEMMA EqualWithoutMedia ==
    ASSUME NEW c, NEW p, NEW d, Matches(c, p, d)
    PROVE  /\ [d EXCEPT !.media = {}] = [c EXCEPT !.media = {}]
           /\ [Project(d) EXCEPT !.media = {}] = [p EXCEPT !.media = {}]
<1>1. c \in Document /\ d \in Document /\ p \in Projection /\ Project(d) \in Projection
  BY ProjectTypes DEF Matches, Sound, Fits
<1>2. /\ c.notes = d.notes /\ c.deleted = d.deleted /\ c.settings = d.settings
      /\ c.revision = d.revision /\ c.patched = d.patched /\ c.deck = 0 /\ d.deck = 0
  BY SameContent DEF Matches, Sound
<1>3. [d EXCEPT !.media = {}] = [c EXCEPT !.media = {}]
  BY <1>1, <1>2 DEF Document
<1>4. Project(d).notes = p.notes /\ Project(d).settings = p.settings
  BY <1>2, ProjectTypes DEF Matches, Fits
<1>5. [Project(d) EXCEPT !.media = {}] = [p EXCEPT !.media = {}]
  BY <1>1, <1>4 DEF Projection
<1> QED
  BY <1>3, <1>5

\* A loaded workspace is the one a restart would load.
THEOREM CachesAreDisk ==
    ASSUME ~Overlap, Unfiled = {}
    PROVE  StoreSpec => []CacheIsDisk
<1>1. ASSUME StoreInv, Loaded, Cached = None
      PROVE  ~HasWorkspace /\ projectionCache[1] = None
  <2>1. disk = EmptyDisk
    BY <1>1, LoadedWithout DEF Cached
  <2>2. ASSUME NEW d, Holds(d) PROVE FALSE
    BY <2>1, <2>2, KeepsSomething DEF Holds
  <2>3. Nowhere
    BY <1>1, <2>2 DEF StoreInv
  <2> QED
    BY <1>1, <2>1, <2>3 DEF Nowhere, Unloaded, Loaded, HasWorkspace, EmptyDisk
<1>2. ASSUME StoreInv, Loaded, Cached # None
      PROVE  /\ HasWorkspace
             /\ \E state \in ReplayImage(Image, IF Cached.deck = 0 THEN Fresh ELSE Cached.deck) :
                    /\ [state.document EXCEPT !.media = {}] = [Cached EXCEPT !.media = {}]
                    /\ [state.projection EXCEPT !.media = {}] = [Projected EXCEPT !.media = {}]
                    /\ Cached.media \subseteq state.document.media
  <2>1. PICK c, p, d : Cached = c /\ Projected = p /\ Keeps(disk, d) /\ Matches(c, p, d)
    BY <1>2, LoadedInStep DEF Cached
  <2>2. Loads(Image, d) /\ HasWorkspace
    BY <2>1, KeepsSomething DEF Keeps, Image, ImageOf, HasWorkspace
  <2>3. PICK state : state = [document |-> d, projection |-> Project(d)]
    OBVIOUS
  <2>4. state.document = d /\ state.projection = Project(d) /\ state \in ReplayImage(Image, Fresh)
    BY <1>2, <2>2, <2>3, ImageReplays
  <2>5. Cached.deck = 0 /\ c.media \subseteq d.media
    BY <2>1 DEF Matches, Sound
  <2>6. /\ [state.document EXCEPT !.media = {}] = [Cached EXCEPT !.media = {}]
        /\ [state.projection EXCEPT !.media = {}] = [Projected EXCEPT !.media = {}]
        /\ Cached.media \subseteq state.document.media
    <3>1. /\ [d EXCEPT !.media = {}] = [c EXCEPT !.media = {}]
          /\ [Project(d) EXCEPT !.media = {}] = [p EXCEPT !.media = {}]
      BY <2>1, EqualWithoutMedia
    <3> QED
      BY <2>1, <2>4, <2>5, <3>1
  <2> QED
    BY <2>1, <2>2, <2>4, <2>5, <2>6, Zenon
<1>3. StoreInv => CacheIsDisk
  BY <1>1, <1>2 DEF CacheIsDisk
<1> QED
  BY <1>3, StoreInvariant, PTL

\* The store has its types and every note its bytes: no journal is without a
\* snapshot, no receipt without a patch, and no media that a load names without
\* its bytes on the disk or in the backup.
THEOREM StoresAreComplete ==
    ASSUME ~Overlap, Unfiled = {}
    PROVE  StoreSpec => []StoreIsComplete
<1>1. ASSUME StoreInv PROVE MediaStored
  <2>1. ASSUME NEW image \in Images, image.snapshot # None, NEW state \in ReplayImage(image, Fresh)
        PROVE  state.document.media \subseteq image.media
    <3>1. PICK d : Loads(image, d)
      BY <1>1, <2>1, ImagesLoad
    <3>2. state.document = d
      BY <1>1, <2>1, <3>1, ImageReplays
    <3> QED
      BY <3>1, <3>2 DEF Loads
  <2> QED
    BY <2>1 DEF MediaStored
<1>2. ASSUME StoreInv PROVE StoreTypeOK
  <2>1. disk = EmptyDisk \/ disk \in Disks
    BY <1>2 DEF StoreInv, Nowhere, Holds, Keeps
  <2>2. disk.snapshot \in Document \cup {None} /\ disk.media \subseteq Media \cup ExtensionMedia
        /\ disk.receipts \subseteq {"core", "extension"} \X Keys
    BY <2>1 DEF EmptyDisk, Disks, AllMedia
  <2>3. disk.snapshot = None => disk = EmptyDisk
    BY <2>1, NoneAssumption DEF Disks
  <2>4. ASSUME NEW k \in DOMAIN disk.journal
        PROVE  \/ disk.journal[k].kind = "changes" /\ disk.journal[k].value \in Changes
               \/ disk.journal[k].kind = "core-patch" /\ disk.journal[k].value \in Patch
    <3>1. disk.journal \in Seq(Entry)
      BY <2>1 DEF EmptyDisk, Disks
    <3>2. disk.journal[k] \in Entry
      BY <2>4, <3>1
    <3> QED
      BY <3>2 DEF Entry
  <2>5. /\ documentCache # <<>> => Cached \in Document \cup {None}
        /\ projectionCache # <<>> => projectionCache[1] \in Projection \cup {None}
    <3>1. CASE Nowhere
      BY <3>1 DEF Nowhere, Unloaded, Cached
    <3>2. ASSUME NEW d, Holds(d)
          PROVE  /\ documentCache # <<>> => Cached \in Document \cup {None}
                 /\ projectionCache # <<>> => projectionCache[1] \in Projection \cup {None}
      BY <3>2 DEF Holds, Unloaded, Cached, Matches, Sound, Fits
    <3> QED
      BY <1>2, <3>1, <3>2 DEF StoreInv
  <2>6. ASSUME NEW image \in Images, image.snapshot # None
        PROVE  image.snapshot.deleted \subseteq Present(image.snapshot)
    BY <1>2, <2>6, ImagesLoad DEF Loads, Sound
  <2>7. drawn \in 0 .. MaxDecks
    BY <1>2, StoreAssumption DEF StoreInv
  <2> QED
    BY <2>2, <2>3, <2>4, <2>5, <2>6, <2>7 DEF StoreTypeOK
<1>3. StoreInv => StoreIsComplete
  BY <1>1, <1>2 DEF StoreIsComplete
<1> QED
  BY <1>3, StoreInvariant, PTL

-----------------------------------------------------------------------------
(* The store implements DurableWorkspace. *)

\* Stored and its value after a step, as operators of the image alone.
ContentsOf(image) ==
    {[notes |-> state.document.notes, deleted |-> state.document.deleted, settings |-> state.document.settings] :
        state \in IF image = None \/ image.snapshot = None THEN {} ELSE ReplayImage(image, 1)}

StoredOf(image) == IF ContentsOf(image) = {} THEN None ELSE CHOOSE content \in ContentsOf(image) : TRUE

\* The stored content is that of the document that loads.
LEMMA StoredLoads ==
    ASSUME NEW image, NEW d, Loads(image, d)
    PROVE  StoredOf(image) = ContentOf(d)
<1>1. image # None /\ image.snapshot # None
  BY NoneAssumption DEF Loads, Sound
<1>2. PICK state : state = [document |-> d, projection |-> Project(d)]
  OBVIOUS
<1>3. ReplayImage(image, 1) = {state} /\ state.document = d
  BY <1>2 DEF Loads, First
<1>4. ContentsOf(image) = {ContentOf(d)}
  BY <1>1, <1>3 DEF ContentsOf, ContentOf
<1> QED
  BY <1>4 DEF StoredOf

\* Where there is no store, nothing is stored.
LEMMA StoredNothing ==
    /\ StoredOf(None) = None
    /\ \A image : image.snapshot = None => StoredOf(image) = None
  BY DEF StoredOf, ContentsOf

\* What the disk says, and what the backup copies, are the stored contents.
LEMMA SaidIsStored ==
    ASSUME NEW k, NEW x, Says(k, x)
    PROVE  StoredOf(ImageOf(k)) = x
<1>1. CASE k = EmptyDisk /\ x = None
  BY <1>1, StoredNothing DEF ImageOf, EmptyDisk
<1>2. CASE \E d : Keeps(k, d) /\ x = ContentOf(d)
  BY <1>2, StoredLoads DEF Keeps
<1> QED
  BY <1>1, <1>2 DEF Says

\* So is the content of a copy.
LEMMA CopiedIsStored ==
    ASSUME NEW image, NEW x, Copies(image, x)
    PROVE  StoredOf(image) = x
  BY StoredNothing, StoredLoads DEF Copies

\* Stored depends on the image alone while no deck was drawn.
LEMMA StoredNow ==
    ASSUME drawn = 0, NEW image
    PROVE  Stored(image) = StoredOf(image)
<1>1. Fresh = 1
  BY DEF Fresh
<1>2. Contents(image) = ContentsOf(image)
  BY <1>1 DEF Contents, ContentsOf
<1> QED
  BY <1>2 DEF Stored, StoredOf

\* The store keeps the promise of DurableWorkspace across loads, journal,
\* checkpoints, restores and restarts: every step of it turns the stored content
\* as that specification allows, or leaves it alone.
THEOREM StoreIsDurable ==
    ASSUME ~Overlap, Unfiled = {}
    PROVE  StoreSpec => ImplementsDurability
<1>1. ASSUME StoreInit PROVE Durable!DurableInit
  <2>1. StoreInv /\ disk = EmptyDisk /\ backup = None
    BY <1>1, InitialStore DEF StoreInit
  <2>2. Says(disk, None) /\ Copies(backup, None)
    BY <2>1 DEF Says, Copies
  <2>3. Image = ImageOf(disk) /\ drawn = 0
    BY <2>1 DEF Image, ImageOf, StoreInv
  <2>4. Stored(Image) = None /\ Stored(backup) = None
    BY <2>2, <2>3, SaidIsStored, CopiedIsStored, StoredNow
  <2> QED
    BY <2>4 DEF Durable!DurableInit
<1>2. ASSUME StoreInv, StoreInv', [StoreNext]_storeVars PROVE [Durable!DurableNext]_Durable!durableVars
  <2>1. Promised
    BY <1>2, EveryStep
  <2>2. PICK x, y, u, v : /\ Says(disk, x) /\ Says(disk', y) /\ Copies(backup, u) /\ Copies(backup', v)
                          /\ Turns(x, y, u, v)
    BY <2>1 DEF Promised
  <2>3. Image = ImageOf(disk) /\ Image' = ImageOf(disk') /\ drawn = 0 /\ drawn' = 0
    BY <1>2 DEF Image, ImageOf, StoreInv
  <2>4. Stored(Image) = x /\ Stored(backup) = u
    BY <2>2, <2>3, SaidIsStored, CopiedIsStored, StoredNow
  <2>5. Stored(Image)' = y /\ Stored(backup)' = v
    <3>1. StoredOf(ImageOf(disk')) = y /\ StoredOf(backup') = v
      BY <2>2, SaidIsStored, CopiedIsStored
    <3>2. Fresh' = 1
      BY <2>3 DEF Fresh
    <3>3. Contents(Image)' = ContentsOf(Image') /\ Contents(backup)' = ContentsOf(backup')
      BY <3>2 DEF Contents, ContentsOf, ReplayImage
    <3>4. Stored(Image)' = StoredOf(Image') /\ Stored(backup)' = StoredOf(backup')
      BY <3>3 DEF Stored, StoredOf
    <3> QED
      BY <2>3, <3>1, <3>4
  <2>6. CASE (Durable!SavesChanges(x, y) \/ Durable!Incorporates(x, y) \/ Durable!Configures(x, y)) /\ v = u
    BY <2>4, <2>5, <2>6 DEF Durable!DurableNext, Durable!Change
  <2>7. CASE x # None /\ v = x /\ y = x
    BY <2>4, <2>5, <2>7 DEF Durable!DurableNext, Durable!Keep
  <2>8. CASE u # None /\ y = u /\ v \in {u, x} \ {None}
    BY <2>4, <2>5, <2>8 DEF Durable!DurableNext, Durable!Restore
  <2>9. CASE y = None /\ v \in {u} \cup ({x} \ {None})
    BY <2>4, <2>5, <2>9 DEF Durable!DurableNext, Durable!Erase
  <2>10. CASE x = y /\ u = v
    BY <2>4, <2>5, <2>10 DEF Durable!durableVars
  <2> QED
    BY <2>2, <2>6, <2>7, <2>8, <2>9, <2>10 DEF Turns
<1> QED
  BY <1>1, <1>2, StoreInvariant, PTL DEF StoreSpec, ImplementsDurability, Durable!DurableSpec

=============================================================================
