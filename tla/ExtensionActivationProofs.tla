----------------------- MODULE ExtensionActivationProofs -----------------------
(***************************************************************************)
(* Proofs about ExtensionActivation, for one operation of the manager at a *)
(* time (Alone) and versions that are not installed again once they are    *)
(* confirmed (~Reinstalls): whatever fails or crashes between two file     *)
(* operations, the version known to work stays installed, or what a        *)
(* rollback returns to, and its package stays on the disk.                 *)
(***************************************************************************)
EXTENDS ExtensionActivation, TLAPS

Alone == \A g, h \in Handlers : g = h

Kinds == {"install", "setEnabled", "uninstall", "confirm", "rollback"}

Steps == {"displace", "place", "save", "rotate", "replace", "forget", "clean"}

Op == [kind : Kinds, by : {"startup", "frame", "user", "nobody"}, step : Steps,
       base : Entry \cup {None}, next : Entry \cup {None}, version : Versions,
       hadCurrent : BOOLEAN, displaced : BOOLEAN]

\* An entry has a way back only while it is pending.
Sensible(entry) == entry \in Entry /\ (entry.previous # None => entry.pending)

Types ==
    /\ \A file \in {stateFile, recoveryFile} : file = NoFile \/ file = None \/ Sensible(file)
    /\ packages \subseteq Versions /\ staged \subseteq Versions
    /\ renderer \in [phase : Phases, runs : Versions \cup {None}]
    /\ DOMAIN op = Handlers

\* The packages an entry names.
Needed(entry) == IF entry = None THEN {} ELSE {entry.version, entry.previous} \ {None}

\* What an operation makes of the entry it has loaded.
Leads(o) ==
    \/ /\ o.kind = "install" /\ o.next # None /\ o.next.pending
       /\ Proven(o.base) # None => o.next.previous = Proven(o.base)
    \/ /\ o.kind = "setEnabled" /\ o.next # None /\ o.base # None
       /\ o.next.version = o.base.version /\ o.next.pending = o.base.pending /\ o.next.previous = o.base.previous
    \/ o.kind = "uninstall" /\ o.next = None
    \/ o.kind = "confirm" /\ o.base # None /\ o.base.pending /\ o.next = Confirmed(o.base)
    \/ o.kind = "rollback" /\ o.base # None /\ o.base.pending /\ o.next = RolledBack(o.base)

\* How far an operation has come, and what it relies on: the registry has not
\* changed since it was loaded, and has the new entry once it was replaced.
Working(o) ==
    /\ o \in Op /\ Leads(o)
    /\ \A entry \in {o.base, o.next} : entry = None \/ Sensible(entry)
    /\ o.step \in {"displace", "place", "save", "rotate", "replace"} => o.base = Loaded
    /\ o.step \in {"displace", "place"} => Needed(o.next) \ {o.version} \subseteq packages
    /\ o.step \in {"save", "rotate", "replace"} => Needed(o.next) \subseteq packages
    /\ o.step = "rotate" => stateFile # NoFile /\ o.hadCurrent
    /\ o.step = "replace" => stateFile = NoFile /\ (o.hadCurrent => recoveryFile # NoFile)
    /\ o.step \in {"forget", "clean"} => stateFile = o.next
    /\ o.step = "displace" => ~o.displaced

ActivationOrder ==
    /\ Types
    /\ Needed(Loaded) \subseteq packages \cup Displaced
    /\ \A h \in Handlers : ~Free(h) => Working(op[h])

Renderers == [phase : Phases, runs : Versions \cup {None}]

\* What an entry holds.
LEMMA EntryTypes ==
    ASSUME NEW entry, Sensible(entry)
    PROVE  /\ entry \in Entry /\ entry # None /\ entry # NoFile
           /\ entry.version \in Versions /\ entry.enabled \in BOOLEAN /\ entry.pending \in BOOLEAN
           /\ entry.previous \in Versions \cup {None}
           /\ entry.previous # None => entry.pending
           /\ Needed(entry) = {entry.version, entry.previous} \ {None}
           /\ Needed(entry) \subseteq Versions
  BY NoEntryAssumption, VersionsAssumption DEF Sensible, Entry, Needed

\* An operation under way is not an idle handler.
LEMMA OpTypes ==
    ASSUME NEW o \in Op
    PROVE  /\ o # Idle /\ o.kind \in Kinds /\ o.step \in Steps /\ o.version \in Versions
           /\ o.by \in {"startup", "frame", "user", "nobody"}
           /\ o.base \in Entry \cup {None} /\ o.next \in Entry \cup {None}
           /\ o.hadCurrent \in BOOLEAN /\ o.displaced \in BOOLEAN
<1>1. Idle.kind = "idle"
  BY DEF Idle
<1>2. o.kind \in Kinds /\ o.kind # "idle"
  BY DEF Op, Kinds
<1> QED
  BY <1>1, <1>2 DEF Op

\* What is loaded is an entry, or there is none.
LEMMA LoadedTypes ==
    ASSUME Types
    PROVE  /\ Loaded = None \/ Sensible(Loaded)
           /\ stateFile # NoFile => Loaded = stateFile
           /\ (stateFile = NoFile /\ recoveryFile # NoFile) => Loaded = recoveryFile
  BY NoFileAssumption DEF Types, Loaded

\* The entries a handler may store.
LEMMA SensibleEntries ==
    ASSUME NEW entry, Sensible(entry)
    PROVE  /\ Sensible(Confirmed(entry)) /\ Confirmed(entry).version = entry.version
           /\ Confirmed(entry).previous = None /\ ~Confirmed(entry).pending
           /\ RolledBack(entry) = None \/ Sensible(RolledBack(entry))
           /\ Needed(Confirmed(entry)) = {entry.version}
           /\ Needed(RolledBack(entry)) = {entry.previous} \ {None}
           /\ Proven(Confirmed(entry)) = entry.version
           /\ entry.pending => Proven(RolledBack(entry)) = Proven(entry)
<1>1. /\ entry.version \in Versions /\ entry.previous \in Versions \cup {None} /\ entry \in Entry
      /\ entry # None
  BY EntryTypes
<1>2. PICK confirmed : confirmed = Confirmed(entry)
  OBVIOUS
<1>3. /\ confirmed \in Entry /\ confirmed.version = entry.version /\ confirmed.previous = None /\ confirmed.pending = FALSE
  BY <1>1, <1>2 DEF Confirmed, Entry
<1>4. confirmed # None /\ Sensible(confirmed)
  BY <1>3, NoEntryAssumption DEF Sensible
<1>5. Needed(confirmed) = {entry.version} /\ Proven(confirmed) = entry.version
  BY <1>1, <1>3, <1>4, VersionsAssumption DEF Needed, Proven
<1>6. CASE entry.previous = None
  BY <1>1, <1>2, <1>3, <1>4, <1>5, <1>6 DEF RolledBack, Needed, Proven
<1>7. CASE entry.previous # None
  <2>1. PICK back : back = [version |-> entry.previous, enabled |-> TRUE, pending |-> FALSE, previous |-> None]
    OBVIOUS
  <2>2. /\ back \in Entry /\ back.version = entry.previous /\ back.previous = None /\ back.pending = FALSE
    BY <1>1, <1>7, <2>1 DEF Entry
  <2>3. back # None /\ Sensible(back)
    BY <2>2, NoEntryAssumption DEF Sensible
  <2>4. Needed(back) = {entry.previous} \ {None} /\ Proven(back) = entry.previous
    BY <2>2, <2>3 DEF Needed, Proven
  <2>5. RolledBack(entry) = back
    BY <1>7, <2>1 DEF RolledBack
  <2>6. entry.pending => Proven(entry) = entry.previous
    BY <1>1 DEF Proven
  <2> QED
    BY <1>2, <1>3, <1>4, <1>5, <2>3, <2>4, <2>5, <2>6
<1> QED
  BY <1>6, <1>7

\* The window is in one of its phases whatever it is answered.
LEMMA AnsweredTypes ==
    ASSUME NEW asked \in Renderers, NEW by, NEW kind, NEW outcome
    PROVE  Answered(asked, by, kind, outcome) \in Renderers
  BY DEF Answered, Renderers, Phases

\* With one handler, packages are out of their place only while it places one.
LEMMA OneHandler ==
    ASSUME Alone, NEW h \in Handlers
    PROVE  /\ Handlers = {h}
           /\ Displaced = IF At(h, "place") /\ op[h].displaced THEN {op[h].version} ELSE {}
<1>1. Handlers = {h}
  BY DEF Alone
<1> QED
  BY <1>1 DEF Displaced

\* A handler that goes on.
LEMMA Going ==
    ASSUME Alone, ActivationOrder, NEW h \in Handlers, NEW o, op' = [op EXCEPT ![h] = o],
           Types', Working(o)', Needed(Loaded') \subseteq packages' \cup (IF o.step = "place" /\ o.displaced THEN {o.version} ELSE {})
    PROVE  ActivationOrder'
<1>1. op'[h] = o /\ o # Idle
  BY OpTypes DEF ActivationOrder, Types, Working
<1>2. Displaced' = IF o.step = "place" /\ o.displaced THEN {o.version} ELSE {}
  <2>1. Handlers = {h}
    BY OneHandler
  <2>2. At(h, "place")' <=> o.step = "place"
    BY <1>1 DEF At, Free
  <2> QED
    BY <1>1, <2>1, <2>2 DEF Displaced
<1>3. \A g \in Handlers : Working(op[g])'
  BY <1>1, OneHandler
<1> QED
  BY <1>2, <1>3 DEF ActivationOrder

\* A handler that ends.
LEMMA Ending ==
    ASSUME Alone, ActivationOrder, NEW h \in Handlers, op' = [op EXCEPT ![h] = Idle],
           Types', Needed(Loaded') \subseteq packages'
    PROVE  ActivationOrder'
<1>1. op'[h] = Idle
  BY DEF ActivationOrder, Types
<1>2. \A g \in Handlers : Free(g)'
  BY <1>1, OneHandler DEF Free
<1> QED
  BY <1>2 DEF ActivationOrder

\* Nothing is under way.
LEMMA Resting ==
    ASSUME Alone, ActivationOrder, NEW h \in Handlers, Free(h)
    PROVE  Displaced = {} /\ Needed(Loaded) \subseteq packages
  BY OneHandler DEF At, ActivationOrder

\* A handler that begins.
LEMMA Beginning ==
    ASSUME Alone, ActivationOrder, NEW h \in Handlers, Free(h), UNCHANGED disk, staged' \subseteq Versions,
           renderer' \in Renderers,
           NEW kind \in Kinds, NEW by \in {"startup", "frame", "user"}, NEW step \in {"displace", "save"},
           NEW next, next = None \/ Sensible(next), NEW version \in Versions,
           Started(h, kind, by, step, next, version),
           NEW o, o = [kind |-> kind, by |-> by, step |-> step, base |-> Loaded, next |-> next,
                       version |-> version, hadCurrent |-> FALSE, displaced |-> FALSE],
           Leads(o),
           step = "displace" => Needed(next) \ {version} \subseteq packages,
           step = "save" => Needed(next) \subseteq packages
    PROVE  ActivationOrder'
<1>1. /\ stateFile' = stateFile /\ recoveryFile' = recoveryFile /\ packages' = packages /\ Loaded' = Loaded
  BY DEF disk, Loaded
<1>2. op' = [op EXCEPT ![h] = o]
  BY DEF Started
<1>3. Types'
  BY <1>1, <1>2 DEF ActivationOrder, Types, Renderers
<1>4. /\ o.kind = kind /\ o.step = step /\ o.base = Loaded /\ o.next = next /\ o.version = version
      /\ o.hadCurrent = FALSE /\ o.displaced = FALSE
  OBVIOUS
<1>5. o \in Op
  BY LoadedTypes DEF Op, Steps, ActivationOrder, Sensible
<1>6. Working(o)'
  BY <1>1, <1>4, <1>5, LoadedTypes DEF Working, ActivationOrder
<1>7. Needed(Loaded') \subseteq packages'
  BY <1>1, Resting
<1> QED
  BY <1>2, <1>3, <1>4, <1>6, <1>7, Going


\* The files, the handlers and the packages stay as they are.
LEMMA NothingMoves ==
    ASSUME ActivationOrder, UNCHANGED <<disk, op>>, staged' \subseteq Versions, renderer' \in Renderers
    PROVE  ActivationOrder'
<1>1. /\ stateFile' = stateFile /\ recoveryFile' = recoveryFile /\ packages' = packages /\ op' = op
      /\ Loaded' = Loaded
  BY DEF disk, Loaded
<1>2. Types'
  BY <1>1 DEF ActivationOrder, Types, Renderers
<1>3. Displaced' = Displaced
  BY <1>1 DEF Displaced, At, Free
<1>4. \A h \in Handlers : ~Free(h)' => Working(op[h])'
  BY <1>1 DEF ActivationOrder, Working, Free
<1> QED
  BY <1>1, <1>2, <1>3, <1>4 DEF ActivationOrder

\* A package is offered for review, or no longer.
LEMMA StagingKeeps ==
    ASSUME ActivationOrder, NEW v \in Versions, Stage(v) \/ Discard(v)
    PROVE  ActivationOrder'
<1>1. UNCHANGED <<disk, op, renderer>> /\ staged' \subseteq Versions
  BY DEF Stage, Discard, ActivationOrder, Types
<1>2. renderer' \in Renderers
  BY <1>1 DEF ActivationOrder, Types, Renderers
<1> QED
  BY <1>1, <1>2, NothingMoves

\* An installation returns to the version known to work, and needs no package
\* but its own and those the installed entry names.
LEMMA InstallKeeps ==
    ASSUME Alone, ~Reinstalls, ActivationOrder, NEW h \in Handlers, NEW v \in Versions, BeginInstall(h, v)
    PROVE  ActivationOrder'
<1>1. /\ Free(h) /\ UNCHANGED disk /\ staged' \subseteq Versions /\ renderer' \in Renderers
  BY DEF BeginInstall, ActivationOrder, Types, Renderers
<1>2. Types /\ (Loaded = None \/ Sensible(Loaded)) /\ Needed(Loaded) \subseteq packages
  BY <1>1, LoadedTypes, Resting DEF ActivationOrder
<1>3. "install" \in Kinds /\ "user" \in {"startup", "frame", "user"}
  BY DEF Kinds
<1>4. CASE SameDigest(v)
  <2>1. /\ Loaded # None /\ Loaded.version = v /\ v \in packages /\ Loaded.pending
        /\ Loaded \in Entry /\ Sensible(Loaded)
    BY <1>2, <1>4 DEF SameDigest, BeginInstall, Sensible
  <2>2. PICK next : next = [Loaded EXCEPT !.enabled = TRUE, !.pending = TRUE]
    OBVIOUS
  <2>3. Started(h, "install", "user", "save", next, v)
    BY <1>4, <2>2 DEF BeginInstall
  <2>4. /\ next \in Entry /\ next.version = v /\ next.pending = TRUE /\ next.previous = Loaded.previous
    BY <2>1, <2>2 DEF Entry
  <2>5. next # None /\ Sensible(next)
    BY <2>4, NoEntryAssumption DEF Sensible
  <2>6. Needed(next) \subseteq packages
    BY <1>2, <2>1, <2>4, <2>5 DEF Needed
  <2>7. Proven(Loaded) = next.previous
    BY <2>1, <2>4 DEF Proven
  <2>8. PICK o : o = [kind |-> "install", by |-> "user", step |-> "save", base |-> Loaded, next |-> next,
                      version |-> v, hadCurrent |-> FALSE, displaced |-> FALSE]
    OBVIOUS
  <2>9. Leads(o)
    BY <2>4, <2>5, <2>7, <2>8 DEF Leads
  <2> QED
    BY <1>1, <1>3, <2>3, <2>5, <2>6, <2>8, <2>9, Beginning
<1>5. CASE ~SameDigest(v)
  <2>1. PICK next : next = [version |-> v, enabled |-> TRUE, pending |-> TRUE, previous |-> Kept(Loaded)]
    OBVIOUS
  <2>2. Started(h, "install", "user", "displace", next, v)
    BY <1>5, <2>1 DEF BeginInstall
  <2>3. Kept(Loaded) \in Versions \cup {None} /\ {Kept(Loaded)} \ {None} \subseteq Needed(Loaded)
    <3>1. CASE Loaded = None
      BY <3>1 DEF Kept
    <3>2. CASE Sensible(Loaded)
      BY <3>2, EntryTypes DEF Kept
    <3> QED
      BY <1>2, <3>1, <3>2
  <2>4. /\ next \in Entry /\ next.version = v /\ next.pending = TRUE /\ next.previous = Kept(Loaded)
    BY <2>1, <2>3 DEF Entry
  <2>5. next # None /\ Sensible(next)
    BY <2>4, NoEntryAssumption DEF Sensible
  <2>6. Needed(next) \ {v} \subseteq packages
    BY <1>2, <2>3, <2>4, <2>5 DEF Needed
  <2>7. Proven(Loaded) # None => next.previous = Proven(Loaded)
    <3>1. CASE Loaded = None
      BY <3>1 DEF Proven
    <3>2. CASE Sensible(Loaded)
      BY <2>4, <3>2, EntryTypes DEF Kept, Proven
    <3> QED
      BY <1>2, <3>1, <3>2
  <2>8. PICK o : o = [kind |-> "install", by |-> "user", step |-> "displace", base |-> Loaded, next |-> next,
                      version |-> v, hadCurrent |-> FALSE, displaced |-> FALSE]
    OBVIOUS
  <2>9. Leads(o)
    BY <2>4, <2>5, <2>7, <2>8 DEF Leads
  <2> QED
    BY <1>1, <1>3, <2>2, <2>5, <2>6, <2>8, <2>9, Beginning
<1> QED
  BY <1>4, <1>5

\* Switching an extension on or off keeps its versions.
LEMMA SetEnabledKeeps ==
    ASSUME Alone, ActivationOrder, NEW h \in Handlers, NEW enabled \in BOOLEAN, BeginSetEnabled(h, enabled)
    PROVE  ActivationOrder'
<1>1. /\ Free(h) /\ UNCHANGED disk /\ staged' \subseteq Versions /\ renderer' \in Renderers /\ Loaded # None
  BY DEF BeginSetEnabled, ActivationOrder, Types, Renderers
<1>2. Types /\ Sensible(Loaded) /\ Needed(Loaded) \subseteq packages
  BY <1>1, LoadedTypes, Resting DEF ActivationOrder
<1>3. "setEnabled" \in Kinds /\ "user" \in {"startup", "frame", "user"}
  BY DEF Kinds
<1>4. PICK next : next = [Loaded EXCEPT !.enabled = enabled]
  OBVIOUS
<1>5. Loaded \in Entry /\ Loaded.version \in Versions /\ (Loaded.previous # None => Loaded.pending)
  BY <1>2, EntryTypes
<1>6. /\ next \in Entry /\ next.version = Loaded.version /\ next.pending = Loaded.pending
      /\ next.previous = Loaded.previous
  BY <1>4, <1>5 DEF Entry
<1>7. next # None /\ Sensible(next)
  BY <1>5, <1>6, NoEntryAssumption DEF Sensible
<1>8. Needed(next) \subseteq packages
  BY <1>1, <1>2, <1>6, <1>7 DEF Needed
<1>9. PICK o : o = [kind |-> "setEnabled", by |-> "user", step |-> "save", base |-> Loaded, next |-> next,
                    version |-> Loaded.version, hadCurrent |-> FALSE, displaced |-> FALSE]
  OBVIOUS
<1>10. Leads(o)
  BY <1>1, <1>6, <1>7, <1>9 DEF Leads
<1>11. Started(h, "setEnabled", "user", "save", next, Loaded.version)
  BY <1>4 DEF BeginSetEnabled
<1> QED
  BY <1>1, <1>3, <1>5, <1>7, <1>8, <1>9, <1>10, <1>11, Beginning

\* Removing an extension keeps nothing.
LEMMA UninstallKeeps ==
    ASSUME Alone, ActivationOrder, NEW h \in Handlers, BeginUninstall(h)
    PROVE  ActivationOrder'
<1>1. /\ Free(h) /\ UNCHANGED disk /\ staged' \subseteq Versions /\ renderer' \in Renderers /\ Loaded # None
  BY DEF BeginUninstall, ActivationOrder, Types, Renderers
<1>2. Loaded.version \in Versions
  BY <1>1, LoadedTypes, EntryTypes DEF ActivationOrder
<1>3. "uninstall" \in Kinds /\ "user" \in {"startup", "frame", "user"}
  BY DEF Kinds
<1>4. PICK o : o = [kind |-> "uninstall", by |-> "user", step |-> "save", base |-> Loaded, next |-> None,
                    version |-> Loaded.version, hadCurrent |-> FALSE, displaced |-> FALSE]
  OBVIOUS
<1>5. Leads(o)
  BY <1>4 DEF Leads
<1>6. Needed(None) \subseteq packages
  BY DEF Needed
<1>7. Started(h, "uninstall", "user", "save", None, Loaded.version)
  BY DEF BeginUninstall
<1> QED
  BY <1>1, <1>2, <1>3, <1>4, <1>5, <1>6, <1>7, Beginning

\* A confirmation needs the installed version, a rollback the one it returns to.
LEMMA SettlingKeeps ==
    ASSUME Alone, ActivationOrder, NEW h \in Handlers, NEW kind \in {"confirm", "rollback"},
           NEW by \in {"startup", "frame"}, NEW asked \in Renderers, BeginSettling(h, kind, by, asked)
    PROVE  ActivationOrder'
<1>1. Free(h) /\ UNCHANGED disk /\ staged' \subseteq Versions
  BY DEF BeginSettling, ActivationOrder, Types
<1>2. CASE Loaded # None /\ Loaded.pending
  <2>1. Types /\ Sensible(Loaded) /\ Needed(Loaded) \subseteq packages
    BY <1>1, <1>2, LoadedTypes, Resting DEF ActivationOrder
  <2>2. PICK next : next = IF kind = "confirm" THEN Confirmed(Loaded) ELSE RolledBack(Loaded)
    OBVIOUS
  <2>3. Started(h, kind, by, "save", next, Loaded.version) /\ renderer' \in Renderers
    BY <1>2, <2>2 DEF BeginSettling
  <2>4. (next = None \/ Sensible(next)) /\ Needed(next) \subseteq Needed(Loaded)
    BY <2>1, <2>2, SensibleEntries, EntryTypes, VersionsAssumption
  <2>5. PICK o : o = [kind |-> kind, by |-> by, step |-> "save", base |-> Loaded, next |-> next,
                      version |-> Loaded.version, hadCurrent |-> FALSE, displaced |-> FALSE]
    OBVIOUS
  <2>6. o.kind = kind /\ o.base = Loaded /\ o.next = next
    BY <2>5
  <2>7. Leads(o)
    BY <1>2, <2>2, <2>6 DEF Leads
  <2>8. Loaded.version \in Versions /\ Needed(next) \subseteq packages
    BY <2>1, <2>4, EntryTypes
  <2>9. kind \in Kinds /\ by \in {"startup", "frame", "user"}
    BY DEF Kinds
  <2> QED
    BY <1>1, <2>3, <2>4, <2>5, <2>7, <2>8, <2>9, Beginning
<1>3. CASE ~(Loaded # None /\ Loaded.pending)
  <2>1. renderer' = Answered(asked, by, kind, "nothing") /\ UNCHANGED op
    BY <1>3 DEF BeginSettling
  <2> QED
    BY <1>1, <2>1, AnsweredTypes, NothingMoves
<1> QED
  BY <1>2, <1>3

\* What a handler under way relies on.
LEMMA UnderWay ==
    ASSUME Alone, ActivationOrder, NEW h \in Handlers, ~Free(h)
    PROVE  /\ Working(op[h]) /\ op[h] \in Op /\ op[h] # Idle /\ op[h].version \in Versions
           /\ op[h].step \in Steps
           /\ Needed(Loaded) \subseteq packages \cup (IF op[h].step = "place" /\ op[h].displaced THEN {op[h].version} ELSE {})
<1>1. Working(op[h]) /\ op[h] \in Op
  BY DEF ActivationOrder, Working
<1>2. At(h, "place") <=> op[h].step = "place"
  BY DEF At
<1> QED
  BY <1>1, <1>2, OneHandler, OpTypes DEF ActivationOrder

\* The package that is moved aside is the one that is being placed.
LEMMA DisplaceKeeps ==
    ASSUME Alone, ActivationOrder, NEW h \in Handlers, Displace(h)
    PROVE  ActivationOrder'
<1>1. ~Free(h) /\ op[h].step = "displace"
  BY DEF Displace, At
<1>2. /\ Working(op[h]) /\ op[h] \in Op /\ op[h].version \in Versions /\ Needed(Loaded) \subseteq packages
      /\ ~op[h].displaced
  BY <1>1, UnderWay DEF Working
<1>3. PICK displaced \in BOOLEAN : displaced = (op[h].version \in packages)
  <2>1. (op[h].version \in packages) \in BOOLEAN
    OBVIOUS
  <2> QED
    BY <2>1, Zenon
<1>4. PICK o : o = [op[h] EXCEPT !.step = "place", !.displaced = displaced]
  OBVIOUS
<1>5. /\ o \in Op /\ o.step = "place" /\ o.displaced = displaced /\ o.kind = op[h].kind
      /\ o.base = op[h].base /\ o.next = op[h].next /\ o.version = op[h].version /\ o.hadCurrent = op[h].hadCurrent
  BY <1>2, <1>4 DEF Op, Steps
<1>6. op' = [op EXCEPT ![h] = o]
  BY <1>3, <1>4 DEF Displace
<1>7. /\ stateFile' = stateFile /\ recoveryFile' = recoveryFile /\ packages' = packages \ {op[h].version}
      /\ Loaded' = Loaded /\ staged' = staged /\ renderer' = renderer
  BY DEF Displace, Loaded
<1>8. Types'
  BY <1>6, <1>7 DEF ActivationOrder, Types
<1>9. Leads(o)
  BY <1>2, <1>5 DEF Working, Leads
<1>10. Working(o)'
  BY <1>1, <1>2, <1>5, <1>7, <1>9 DEF Working
<1>11. Needed(Loaded') \subseteq packages' \cup (IF o.step = "place" /\ o.displaced THEN {o.version} ELSE {})
  BY <1>2, <1>3, <1>5, <1>7
<1> QED
  BY <1>6, <1>8, <1>10, <1>11, Going

\* The package is in its place, and so is all the new entry names.
LEMMA PlaceKeeps ==
    ASSUME Alone, ActivationOrder, NEW h \in Handlers, Place(h)
    PROVE  ActivationOrder'
<1>1. ~Free(h) /\ op[h].step = "place"
  BY DEF Place, At
<1>2. /\ Working(op[h]) /\ op[h] \in Op /\ op[h].version \in Versions
      /\ Needed(Loaded) \subseteq packages \cup {op[h].version}
  BY <1>1, UnderWay
<1>3. PICK o : o = [op[h] EXCEPT !.step = "save"]
  OBVIOUS
<1>4. /\ o \in Op /\ o.step = "save" /\ o.displaced = op[h].displaced /\ o.kind = op[h].kind
      /\ o.base = op[h].base /\ o.next = op[h].next /\ o.version = op[h].version /\ o.hadCurrent = op[h].hadCurrent
  BY <1>2, <1>3 DEF Op, Steps
<1>5. op' = [op EXCEPT ![h] = o]
  BY <1>3 DEF Place, Continues
<1>6. /\ stateFile' = stateFile /\ recoveryFile' = recoveryFile /\ packages' = packages \cup {op[h].version}
      /\ Loaded' = Loaded /\ staged' = staged /\ renderer' = renderer
  BY DEF Place, Loaded
<1>7. Types'
  BY <1>2, <1>5, <1>6 DEF ActivationOrder, Types
<1>8. Leads(o)
  BY <1>2, <1>4 DEF Working, Leads
<1>9. Working(o)'
  BY <1>1, <1>2, <1>4, <1>6, <1>8 DEF Working
<1>10. Needed(Loaded') \subseteq packages'
  BY <1>2, <1>6
<1> QED
  BY <1>4, <1>5, <1>7, <1>9, <1>10, Going

\* The recovery file that is removed is not the one that is loaded.
LEMMA WriteTemporaryKeeps ==
    ASSUME Alone, ActivationOrder, NEW h \in Handlers, WriteTemporary(h)
    PROVE  ActivationOrder'
<1>1. ~Free(h) /\ op[h].step = "save"
  BY DEF WriteTemporary, At
<1>2. /\ Working(op[h]) /\ op[h] \in Op /\ Needed(Loaded) \subseteq packages
  BY <1>1, UnderWay
<1>3. PICK hadCurrent \in BOOLEAN : hadCurrent = (stateFile # NoFile)
  OBVIOUS
<1>4. PICK step \in {"rotate", "replace"} : step = IF hadCurrent THEN "rotate" ELSE "replace"
  OBVIOUS
<1>5. PICK o : o = [op[h] EXCEPT !.hadCurrent = hadCurrent, !.step = step]
  OBVIOUS
<1>6. /\ o \in Op /\ o.step = step /\ o.displaced = op[h].displaced /\ o.kind = op[h].kind
      /\ o.base = op[h].base /\ o.next = op[h].next /\ o.version = op[h].version /\ o.hadCurrent = hadCurrent
  BY <1>2, <1>5 DEF Op, Steps
<1>7. op' = [op EXCEPT ![h] = o]
  BY <1>3, <1>4, <1>5 DEF WriteTemporary
<1>8. /\ stateFile' = stateFile /\ recoveryFile' = (IF hadCurrent THEN NoFile ELSE recoveryFile)
      /\ packages' = packages /\ staged' = staged /\ renderer' = renderer
  BY <1>3 DEF WriteTemporary
<1>9. Loaded' = Loaded
  BY <1>3, <1>8, NoFileAssumption DEF Loaded
<1>10. Types'
  BY <1>7, <1>8 DEF ActivationOrder, Types
<1>11. Leads(o)
  BY <1>2, <1>6 DEF Working, Leads
<1>12. Working(o)'
  BY <1>1, <1>2, <1>3, <1>4, <1>6, <1>8, <1>9, <1>11 DEF Working
<1>13. Needed(Loaded') \subseteq packages'
  BY <1>2, <1>8, <1>9
<1> QED
  BY <1>4, <1>6, <1>7, <1>10, <1>12, <1>13, Going

\* The registry that is moved out of the way is what is loaded from then on.
LEMMA RotateKeeps ==
    ASSUME Alone, ActivationOrder, NEW h \in Handlers, Rotate(h)
    PROVE  ActivationOrder'
<1>1. ~Free(h) /\ op[h].step = "rotate" /\ stateFile # NoFile
  BY DEF Rotate, At
<1>2. /\ Working(op[h]) /\ op[h] \in Op /\ Needed(Loaded) \subseteq packages
  BY <1>1, UnderWay
<1>3. PICK o : o = [op[h] EXCEPT !.step = "replace"]
  OBVIOUS
<1>4. /\ o \in Op /\ o.step = "replace" /\ o.displaced = op[h].displaced /\ o.kind = op[h].kind
      /\ o.base = op[h].base /\ o.next = op[h].next /\ o.version = op[h].version /\ o.hadCurrent = op[h].hadCurrent
  BY <1>2, <1>3 DEF Op, Steps
<1>5. op' = [op EXCEPT ![h] = o]
  BY <1>3 DEF Rotate, Continues
<1>6. /\ stateFile' = NoFile /\ recoveryFile' = stateFile
      /\ packages' = packages /\ staged' = staged /\ renderer' = renderer
  BY DEF Rotate
<1>7. Loaded' = Loaded
  BY <1>1, <1>6, NoFileAssumption DEF Loaded
<1>8. Types'
  BY <1>5, <1>6 DEF ActivationOrder, Types
<1>9. Leads(o)
  BY <1>2, <1>4 DEF Working, Leads
<1>10. Working(o)'
  BY <1>1, <1>2, <1>4, <1>6, <1>7, <1>9 DEF Working
<1>11. Needed(Loaded') \subseteq packages'
  BY <1>2, <1>6, <1>7
<1> QED
  BY <1>4, <1>5, <1>8, <1>10, <1>11, Going

\* The new entry becomes the registry; its packages are there.
LEMMA ReplaceKeeps ==
    ASSUME Alone, ActivationOrder, NEW h \in Handlers, Replace(h)
    PROVE  /\ ActivationOrder'
           /\ Working(op[h]) /\ op[h].base = Loaded /\ op[h].next = Loaded' /\ ~Free(h)
<1>1. ~Free(h) /\ op[h].step = "replace"
  BY DEF Replace, At
<1>2. /\ Working(op[h]) /\ op[h] \in Op /\ op[h].base = Loaded /\ Needed(op[h].next) \subseteq packages
      /\ (op[h].next = None \/ Sensible(op[h].next))
  BY <1>1, UnderWay DEF Working
<1>3. PICK o : o = [op[h] EXCEPT !.step = "forget"]
  OBVIOUS
<1>4. /\ o \in Op /\ o.step = "forget" /\ o.displaced = op[h].displaced /\ o.kind = op[h].kind
      /\ o.base = op[h].base /\ o.next = op[h].next /\ o.version = op[h].version /\ o.hadCurrent = op[h].hadCurrent
  BY <1>2, <1>3 DEF Op, Steps
<1>5. op' = [op EXCEPT ![h] = o]
  BY <1>3 DEF Replace, Continues
<1>6. /\ stateFile' = op[h].next /\ recoveryFile' = recoveryFile
      /\ packages' = packages /\ staged' = staged /\ renderer' = renderer
  BY DEF Replace
<1>7. op[h].next # NoFile
  BY <1>2, NoFileAssumption, EntryTypes
<1>8. Loaded' = op[h].next
  BY <1>6, <1>7 DEF Loaded
<1>9. Types'
  BY <1>2, <1>5, <1>6 DEF ActivationOrder, Types, Sensible
<1>10. Leads(o)
  BY <1>2, <1>4 DEF Working, Leads
<1>11. Working(o)'
  BY <1>2, <1>4, <1>6, <1>10 DEF Working
<1>12. Needed(Loaded') \subseteq packages'
  BY <1>2, <1>6, <1>8
<1> QED
  BY <1>1, <1>2, <1>4, <1>5, <1>8, <1>9, <1>11, <1>12, Going

\* The recovery file goes while the registry is in its place.
LEMMA ForgetKeeps ==
    ASSUME Alone, ActivationOrder, NEW h \in Handlers, Forget(h)
    PROVE  ActivationOrder' /\ Loaded' = Loaded
<1>1. ~Free(h) /\ op[h].step = "forget"
  BY DEF Forget, At
<1>2. /\ Working(op[h]) /\ op[h] \in Op /\ stateFile = op[h].next /\ Needed(Loaded) \subseteq packages
      /\ (op[h].next = None \/ Sensible(op[h].next))
  BY <1>1, UnderWay DEF Working
<1>3. PICK o : o = [op[h] EXCEPT !.step = "clean"]
  OBVIOUS
<1>4. /\ o \in Op /\ o.step = "clean" /\ o.displaced = op[h].displaced /\ o.kind = op[h].kind
      /\ o.base = op[h].base /\ o.next = op[h].next /\ o.version = op[h].version /\ o.hadCurrent = op[h].hadCurrent
  BY <1>2, <1>3 DEF Op, Steps
<1>5. op' = [op EXCEPT ![h] = o]
  BY <1>3 DEF Forget, Continues
<1>6. /\ stateFile' = stateFile /\ recoveryFile' = NoFile
      /\ packages' = packages /\ staged' = staged /\ renderer' = renderer
  BY DEF Forget
<1>7. stateFile # NoFile
  BY <1>2, NoFileAssumption, EntryTypes
<1>8. Loaded' = Loaded
  BY <1>6, <1>7 DEF Loaded
<1>9. Types'
  BY <1>5, <1>6 DEF ActivationOrder, Types
<1>10. Leads(o)
  BY <1>2, <1>4 DEF Working, Leads
<1>11. Working(o)'
  BY <1>2, <1>4, <1>6, <1>10 DEF Working
<1>12. Needed(Loaded') \subseteq packages'
  BY <1>2, <1>6, <1>8
<1> QED
  BY <1>4, <1>5, <1>8, <1>9, <1>11, <1>12, Going

\* No directory is removed that the stored entry names.
LEMMA UnneededIsNotNeeded ==
    ASSUME NEW o, Leads(o), o.base = None \/ Sensible(o.base)
    PROVE  Needed(o.next) \cap Unneeded(o) = {}
<1>1. CASE o.kind = "confirm"
  <2>1. o.next = Confirmed(o.base) /\ Sensible(o.base)
    BY <1>1 DEF Leads
  <2> QED
    BY <1>1, <2>1, SensibleEntries DEF Unneeded
<1>2. CASE o.kind = "rollback"
  <2>1. o.next = RolledBack(o.base) /\ Sensible(o.base)
    BY <1>2 DEF Leads
  <2> QED
    BY <1>2, <2>1, SensibleEntries DEF Unneeded
<1>3. CASE o.kind = "uninstall"
  BY <1>3 DEF Leads, Needed
<1>4. CASE o.kind \in {"install", "setEnabled"}
  BY <1>4 DEF Unneeded
<1> QED
  BY <1>1, <1>2, <1>3, <1>4 DEF Leads

\* What the end of an operation removes is needed by nobody.
LEMMA CleanKeeps ==
    ASSUME Alone, ActivationOrder, NEW h \in Handlers, Clean(h)
    PROVE  ActivationOrder' /\ Loaded' = Loaded
<1>1. ~Free(h) /\ op[h].step = "clean"
  BY DEF Clean, At
<1>2. /\ Working(op[h]) /\ Leads(op[h]) /\ stateFile = op[h].next /\ Needed(Loaded) \subseteq packages
      /\ (op[h].base = None \/ Sensible(op[h].base)) /\ (op[h].next = None \/ Sensible(op[h].next))
  BY <1>1, UnderWay DEF Working
<1>3. stateFile # NoFile
  BY <1>2, NoFileAssumption, EntryTypes
<1>4. Loaded = op[h].next
  BY <1>2, <1>3 DEF Loaded
<1>5. /\ stateFile' = stateFile /\ recoveryFile' = recoveryFile /\ packages' = packages \ Unneeded(op[h])
      /\ staged' = staged /\ Loaded' = Loaded
  BY DEF Clean, Loaded
<1>6. renderer' \in Renderers
  BY AnsweredTypes DEF Clean, Ends, ActivationOrder, Types, Renderers
<1>7. op' = [op EXCEPT ![h] = Idle]
  BY DEF Clean, Ends
<1>8. Types'
  BY <1>5, <1>6, <1>7 DEF ActivationOrder, Types, Renderers
<1>9. Needed(Loaded') \subseteq packages'
  BY <1>2, <1>4, <1>5, UnneededIsNotNeeded
<1> QED
  BY <1>5, <1>7, <1>8, <1>9, Ending

\* What a failing operation has moved out of the way is put back.
LEMMA FailsKeeps ==
    ASSUME Alone, ActivationOrder, NEW h \in Handlers, Fails(h)
    PROVE  ActivationOrder' /\ Loaded' = Loaded
<1>1. ~Free(h)
  BY DEF Fails
<1>2. /\ Working(op[h]) /\ op[h].version \in Versions
      /\ Needed(Loaded) \subseteq packages \cup (IF op[h].step = "place" /\ op[h].displaced THEN {op[h].version} ELSE {})
  BY <1>1, UnderWay
<1>3. PICK back \in BOOLEAN : back = (At(h, "replace") /\ op[h].hadCurrent /\ recoveryFile # NoFile /\ stateFile = NoFile)
  OBVIOUS
<1>4. /\ stateFile' = (IF back THEN recoveryFile ELSE stateFile)
      /\ recoveryFile' = (IF back THEN NoFile ELSE recoveryFile)
      /\ packages' = (IF op[h].displaced THEN packages \cup {op[h].version} ELSE packages)
      /\ staged' = staged
  BY <1>3 DEF Fails
<1>5. Loaded' = Loaded
  BY <1>3, <1>4, NoFileAssumption DEF Loaded
<1>6. renderer' \in Renderers
  BY AnsweredTypes DEF Fails, Ends, ActivationOrder, Types, Renderers
<1>7. op' = [op EXCEPT ![h] = Idle]
  BY DEF Fails, Ends
<1>8. Types'
  BY <1>2, <1>4, <1>6, <1>7 DEF ActivationOrder, Types, Renderers
<1>9. Needed(Loaded') \subseteq packages'
  BY <1>2, <1>4, <1>5
<1> QED
  BY <1>5, <1>7, <1>8, <1>9, Ending

\* What the window does with the list, a reload or a new window moves no file.
LEMMA WindowKeeps ==
    ASSUME ActivationOrder, ListExtensions \/ Reload \/ ReloadFails \/ OpenWindow
    PROVE  ActivationOrder' /\ Loaded' = Loaded
<1>1. UNCHANGED <<disk, op, staged>>
  BY DEF ListExtensions, Reload, ReloadFails, OpenWindow
<1>2. Types /\ (Loaded = None \/ Sensible(Loaded)) /\ renderer \in Renderers
  BY LoadedTypes DEF ActivationOrder, Types, Renderers
<1>3. renderer' \in Renderers
  <2>1. CASE ListExtensions
    BY <1>2, <2>1, EntryTypes DEF ListExtensions, Renderers, Phases
  <2>2. CASE Reload \/ OpenWindow
    BY <2>2 DEF Reload, OpenWindow, Renderers, Phases
  <2>3. CASE ReloadFails
    BY <1>2, <2>3 DEF ReloadFails, Renderers, Phases
  <2> QED
    BY <2>1, <2>2, <2>3
<1>4. Loaded' = Loaded
  BY <1>1 DEF disk, Loaded
<1>5. staged' \subseteq Versions
  BY <1>1, <1>2 DEF Types
<1> QED
  BY <1>1, <1>3, <1>4, <1>5, NothingMoves

\* An operation goes on when the window is gone that asked for it.
LEMMA AbandonedKeeps ==
    ASSUME Alone, ActivationOrder, Abandoned, UNCHANGED <<disk, staged>>, renderer' \in Renderers
    PROVE  ActivationOrder'
<1>1. PICK h \in Handlers : TRUE
  BY HandlersAssumption
<1>2. Handlers = {h}
  BY <1>1, OneHandler
<1>3. /\ stateFile' = stateFile /\ recoveryFile' = recoveryFile /\ packages' = packages /\ staged' = staged
      /\ Loaded' = Loaded
  BY DEF disk, Loaded
<1>4. Types /\ DOMAIN op = Handlers
  BY DEF ActivationOrder, Types
<1>5. CASE Free(h)
  <2>1. op' = [op EXCEPT ![h] = Idle]
    BY <1>2, <1>4, <1>5 DEF Abandoned
  <2>2. Types'
    BY <1>3, <1>4, <2>1 DEF Types, Renderers
  <2>3. Needed(Loaded') \subseteq packages'
    BY <1>3, <1>5, Resting
  <2> QED
    BY <2>1, <2>2, <2>3, Ending
<1>6. CASE ~Free(h)
  <2>1. /\ Working(op[h]) /\ op[h] \in Op
        /\ Needed(Loaded) \subseteq packages \cup (IF op[h].step = "place" /\ op[h].displaced THEN {op[h].version} ELSE {})
    BY <1>6, UnderWay
  <2>2. PICK o : o = [op[h] EXCEPT !.by = "nobody"]
    OBVIOUS
  <2>3. /\ o \in Op /\ o.step = op[h].step /\ o.displaced = op[h].displaced /\ o.kind = op[h].kind
        /\ o.base = op[h].base /\ o.next = op[h].next /\ o.version = op[h].version /\ o.hadCurrent = op[h].hadCurrent
    BY <2>1, <2>2 DEF Op
  <2>4. op' = [op EXCEPT ![h] = o]
    <3>1. op' = [g \in Handlers |-> o]
      BY <1>2, <1>6, <2>2 DEF Abandoned
    <3> QED
      BY <1>2, <1>4, <3>1
  <2>5. Types'
    BY <1>3, <1>4, <2>4 DEF Types, Renderers
  <2>6. Leads(o)
    BY <2>1, <2>3 DEF Working, Leads
  <2>7. Working(o)'
    BY <1>3, <2>1, <2>3, <2>6 DEF Working
  <2>8. Needed(Loaded') \subseteq packages' \cup (IF o.step = "place" /\ o.displaced THEN {o.version} ELSE {})
    BY <1>3, <2>1, <2>3
  <2> QED
    BY <2>4, <2>5, <2>7, <2>8, Going
<1> QED
  BY <1>5, <1>6

\* The window is replaced by one without extensions, or closed.
LEMMA WindowGoneKeeps ==
    ASSUME Alone, ActivationOrder, SafeMode \/ CloseWindow
    PROVE  ActivationOrder' /\ Loaded' = Loaded
<1>1. Abandoned /\ UNCHANGED <<disk, staged>> /\ renderer' \in Renderers
  BY DEF SafeMode, CloseWindow, Renderers, Phases
<1>2. Loaded' = Loaded
  BY <1>1 DEF disk, Loaded
<1> QED
  BY <1>1, <1>2, AbandonedKeeps

\* What a crash leaves is what is loaded, and its packages are there.
LEMMA CrashKeeps ==
    ASSUME Alone, ActivationOrder, Crash
    PROVE  ActivationOrder' /\ Loaded' = Loaded
<1>1. PICK h \in Handlers : TRUE
  BY HandlersAssumption
<1>2. Handlers = {h}
  BY <1>1, OneHandler
<1>3. /\ stateFile' = stateFile /\ recoveryFile' = recoveryFile /\ packages' = packages /\ staged' = {}
      /\ Loaded' = Loaded /\ renderer' \in Renderers /\ Displaced = {}
  BY DEF Crash, disk, Loaded, Renderers, Phases
<1>4. op' = [op EXCEPT ![h] = Idle]
  BY <1>2 DEF Crash, ActivationOrder, Types
<1>5. Types'
  BY <1>3, <1>4 DEF ActivationOrder, Types, Renderers
<1>6. Needed(Loaded') \subseteq packages'
  BY <1>3 DEF ActivationOrder
<1> QED
  BY <1>3, <1>4, <1>5, <1>6, Ending

\* The window starts, confirms and rolls back.
LEMMA SettlesKeeps ==
    ASSUME Alone, ActivationOrder, NEW h \in Handlers,
           WorkerReady(h) \/ WorkerFails(h) \/ FramesReady(h) \/ FrameFails(h)
    PROVE  ActivationOrder' /\ Loaded' = Loaded
<1>1. renderer \in Renderers
  BY DEF ActivationOrder, Types, Renderers
<1>2. PICK asked \in Renderers : asked = [renderer EXCEPT !.phase = "activation"]
  BY <1>1 DEF Renderers, Phases
<1>3. CASE WorkerReady(h) /\ renderer.runs \in WithUi
  <2>1. UNCHANGED <<disk, op, staged>> /\ renderer' = [renderer EXCEPT !.phase = "running"]
    BY <1>3 DEF WorkerReady
  <2>2. renderer' \in Renderers /\ staged' \subseteq Versions /\ Loaded' = Loaded
    BY <1>1, <2>1 DEF Renderers, Phases, ActivationOrder, Types, disk, Loaded
  <2> QED
    BY <2>1, <2>2, NothingMoves
<1>4. CASE ~(WorkerReady(h) /\ renderer.runs \in WithUi)
  <2>1. \E kind \in {"confirm", "rollback"}, by \in {"startup", "frame"}, as \in Renderers : BeginSettling(h, kind, by, as)
    <3>1. CASE WorkerReady(h)
      BY <1>2, <1>4, <3>1 DEF WorkerReady
    <3>2. CASE WorkerFails(h)
      BY <1>2, <3>2 DEF WorkerFails
    <3>3. CASE FramesReady(h)
      BY <1>1, <3>3 DEF FramesReady
    <3>4. CASE FrameFails(h)
      BY <1>1, <3>4 DEF FrameFails
    <3> QED
      BY <3>1, <3>2, <3>3, <3>4
  <2>2. Loaded' = Loaded
    BY <2>1 DEF BeginSettling, disk, Loaded
  <2> QED
    BY <2>1, <2>2, SettlingKeeps
<1> QED
  BY <1>3, <1>4

\* What an operation stores forgets the version known to work only when it
\* confirms another one or removes the extension.
LEMMA StoringKeepsProven ==
    ASSUME Alone, ActivationOrder, NEW h \in Handlers, Replace(h)
    PROVE  \/ Proven(Loaded) = None \/ Proven(Loaded') = Proven(Loaded)
           \/ Loaded.pending /\ Loaded' = Confirmed(Loaded)
           \/ Loaded' = None /\ ~Free(h) /\ op[h].kind = "uninstall"
<1>1. /\ Leads(op[h]) /\ op[h].base = Loaded /\ op[h].next = Loaded' /\ ~Free(h)
      /\ op[h].base = None \/ Sensible(op[h].base)
  BY ReplaceKeeps DEF Working
<1>2. CASE op[h].kind = "install"
  BY <1>1, <1>2 DEF Leads, Proven
<1>3. CASE op[h].kind = "setEnabled"
  BY <1>1, <1>3 DEF Leads, Proven
<1>4. CASE op[h].kind = "rollback"
  <2>1. Sensible(Loaded) /\ Loaded.pending /\ Loaded' = RolledBack(Loaded)
    BY <1>1, <1>4 DEF Leads
  <2> QED
    BY <2>1, SensibleEntries
<1> QED
  BY <1>1, <1>2, <1>3, <1>4 DEF Leads

\* What the user begins moves no file.
LEMMA BeginsKeep ==
    ASSUME Alone, ~Reinstalls, ActivationOrder, NEW h \in Handlers,
           \/ \E v \in Versions : BeginInstall(h, v)
           \/ \E enabled \in BOOLEAN : BeginSetEnabled(h, enabled)
           \/ BeginUninstall(h)
    PROVE  ActivationOrder' /\ Loaded' = Loaded
<1>1. Loaded' = Loaded
  BY DEF BeginInstall, BeginSetEnabled, BeginUninstall, disk, Loaded
<1> QED
  BY <1>1, InstallKeeps, SetEnabledKeeps, UninstallKeeps

\* Every step keeps the invariant, and what is loaded unless it stores an entry.
LEMMA EveryStep ==
    ASSUME Alone, ~Reinstalls, ActivationOrder, [Next]_vars
    PROVE  ActivationOrder' /\ (Loaded' = Loaded \/ \E h \in Handlers : Replace(h))
<1>1. CASE Startup
  BY <1>1, WindowKeeps, SettlesKeeps DEF Startup
<1>2. CASE ReloadFails \/ OpenWindow
  BY <1>2, WindowKeeps
<1>3. CASE SafeMode \/ CloseWindow
  BY <1>3, WindowGoneKeeps
<1>4. CASE Crash
  BY <1>4, CrashKeeps
<1>5. CASE \E v \in Versions : Stage(v) \/ Discard(v)
  <2>1. Loaded' = Loaded
    BY <1>5 DEF Stage, Discard, disk, Loaded
  <2> QED
    BY <1>5, <2>1, StagingKeeps
<1>6. ASSUME NEW h \in Handlers, Step(h)
      PROVE  ActivationOrder' /\ (Loaded' = Loaded \/ \E g \in Handlers : Replace(g))
  <2>1. CASE Displace(h)
    <3>1. Loaded' = Loaded
      BY <2>1 DEF Displace, Loaded
    <3> QED
      BY <2>1, <3>1, DisplaceKeeps
  <2>2. CASE Place(h)
    <3>1. Loaded' = Loaded
      BY <2>2 DEF Place, Loaded
    <3> QED
      BY <2>2, <3>1, PlaceKeeps
  <2>3. CASE WriteTemporary(h)
    <3>1. Loaded' = Loaded
      BY <2>3, NoFileAssumption DEF WriteTemporary, Loaded
    <3> QED
      BY <2>3, <3>1, WriteTemporaryKeeps
  <2>4. CASE Rotate(h)
    <3>1. Loaded' = Loaded
      BY <2>4, NoFileAssumption DEF Rotate, Loaded
    <3> QED
      BY <2>4, <3>1, RotateKeeps
  <2>5. CASE Replace(h)
    BY <2>5, ReplaceKeeps
  <2>6. CASE Forget(h)
    BY <2>6, ForgetKeeps
  <2>7. CASE Clean(h)
    BY <2>7, CleanKeeps
  <2> QED
    BY <1>6, <2>1, <2>2, <2>3, <2>4, <2>5, <2>6, <2>7 DEF Step
<1>7. ASSUME NEW h \in Handlers, Fails(h) \/ FramesReady(h) \/ FrameFails(h)
      PROVE  ActivationOrder' /\ Loaded' = Loaded
  BY <1>7, FailsKeeps, SettlesKeeps
<1>8. CASE UNCHANGED vars
  <2>1. UNCHANGED <<disk, op>> /\ staged' = staged /\ renderer' = renderer /\ Loaded' = Loaded
    BY <1>8 DEF vars, disk, Loaded
  <2>2. staged' \subseteq Versions /\ renderer' \in Renderers
    BY <2>1 DEF ActivationOrder, Types, Renderers
  <2> QED
    BY <2>1, <2>2, NothingMoves
<1> QED
  BY <1>1, <1>2, <1>3, <1>4, <1>5, <1>6, <1>7, <1>8, BeginsKeep DEF Next

\* Nothing is installed at first.
LEMMA InitialActivation ==
    ASSUME Init
    PROVE  ActivationOrder
<1>1. Loaded = None /\ (\A h \in Handlers : Free(h)) /\ Needed(Loaded) = {}
  BY DEF Init, Loaded, Free, Needed
<1>2. Types
  BY DEF Init, Types, Phases
<1> QED
  BY <1>1, <1>2 DEF ActivationOrder

\* The invariant is about every state; it says what the runs check.
LEMMA ActivationOrderImplies ==
    ASSUME ActivationOrder
    PROVE  ActivationInv
<1>1. ActivationTypeOK
  <2>1. \A file \in {stateFile, recoveryFile} \ {NoFile, None} :
           file \in Entry /\ (file.previous # None => file.pending)
    BY DEF ActivationOrder, Types, Sensible
  <2>2. packages \subseteq Versions /\ staged \subseteq Versions
    BY DEF ActivationOrder, Types
  <2>3. \A h \in Handlers : ~Free(h) => op[h].base \in Entry \cup {None} /\ op[h].next \in Entry \cup {None}
    BY OpTypes DEF ActivationOrder, Working
  <2>4. renderer.phase \in Phases /\ renderer.runs \in Versions \cup {None}
    BY DEF ActivationOrder, Types
  <2> QED
    BY <2>1, <2>2, <2>3, <2>4 DEF ActivationTypeOK
<1>2. ProvenIsKept
  <2>1. Loaded = None \/ Sensible(Loaded)
    BY LoadedTypes DEF ActivationOrder
  <2>2. Proven(Loaded) # None => Proven(Loaded) \in Needed(Loaded)
    BY <2>1, EntryTypes DEF Proven
  <2> QED
    BY <2>2 DEF ProvenIsKept, ActivationOrder
<1> QED
  BY <1>1, <1>2 DEF ActivationInv

\* The registry, the packages and the handlers are in order in every state: an
\* operation never stores an entry that names a package which is not in place,
\* and finds the registry as it loaded it (extension-manager.ts saveState).
THEOREM ActivationIsOrdered ==
    ASSUME Alone, ~Reinstalls
    PROVE  Spec => []ActivationOrder
<1>1. Init => ActivationOrder
  BY InitialActivation
<1>2. ActivationOrder /\ [Next]_vars => ActivationOrder'
  BY EveryStep
<1> QED
  BY <1>1, <1>2, PTL DEF Spec

\* The package of the version known to work stays on the disk whatever is
\* installed, confirmed, rolled back, removed, fails or is interrupted: there is
\* always something to fall back to (extension-manager.ts rollbackActivation).
THEOREM ProvenStays ==
    ASSUME Alone, ~Reinstalls
    PROVE  Spec => []ActivationInv
<1>1. ActivationOrder => ActivationInv
  BY ActivationOrderImplies
<1> QED
  BY <1>1, ActivationIsOrdered, PTL

\* Only a confirmation of another version, or removing the extension, makes the
\* program forget the version known to work (extension-manager.ts
\* confirmActivation).
THEOREM OnlyConfirmationReplaces ==
    ASSUME Alone, ~Reinstalls
    PROVE  Spec => ProvenIsReplacedByConfirmation
<1> DEFINE Forgets ==
       Proven(Loaded) # None /\ Proven(Loaded)' # Proven(Loaded) =>
          \/ Loaded.pending /\ Loaded' = Confirmed(Loaded)
          \/ Loaded' = None /\ \E h \in Handlers : ~Free(h) /\ op[h].kind = "uninstall"
<1>1. ActivationOrder /\ [Next]_vars => Forgets
  <2> SUFFICES ASSUME ActivationOrder, [Next]_vars, Proven(Loaded) # None, Proven(Loaded') # Proven(Loaded)
               PROVE  \/ Loaded.pending /\ Loaded' = Confirmed(Loaded)
                      \/ Loaded' = None /\ \E h \in Handlers : ~Free(h) /\ op[h].kind = "uninstall"
    OBVIOUS
  <2>1. PICK h \in Handlers : Replace(h)
    BY EveryStep
  <2> QED
    BY <2>1, StoringKeepsProven
<1>2. Spec => [][Forgets]_vars
  <2> HIDE DEF Forgets
  <2> QED
    BY <1>1, ActivationIsOrdered, PTL DEF Spec
<1> QED
  BY <1>2, PTL DEF ProvenIsReplacedByConfirmation

=============================================================================
