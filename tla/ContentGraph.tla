---------------------------- MODULE ContentGraph ----------------------------
(***************************************************************************)
(* Content types and what is shown of them.  The durable document is a     *)
(* graph of content types, fields, card templates, notes and cards         *)
(* (packages/compatibility-domain).  The page of the application works on  *)
(* a projection of it (src/lib/workspace-v4.ts), which it edits and from   *)
(* which the document is refreshed; the editor of content types            *)
(* (src/components/TemplateManager.tsx) changes the document itself, from  *)
(* a copy it loaded earlier, and the page is then brought up to date.      *)
(*                                                                         *)
(* On a desktop the page is rebuilt from a description of what changed,    *)
(* and a restart replays a journal (electron/workspace-store.ts); in a     *)
(* browser the page is projected anew.  Everything has a number, a value   *)
(* of a field is a number and 0 is the empty value; names, decks, media    *)
(* and schedules are left out.                                             *)
(***************************************************************************)
EXTENDS Naturals, FiniteSets, FiniteSetsExt, SequencesExt, TLC

CONSTANTS
    None,
    Pages,      \* workspaces of version 3, and the examples
    Imported,   \* documents whose templates are still formats of text
    Kinds, Received,    \* the changes made to content types here and on another device
    Exposed,    \* the situations known to break what is stated here
    MaxItems,   \* bound: items of a page
    MaxChanges  \* bound: changes by the user and by other devices

ASSUME GraphAssumption ==
    /\ Kinds \cup Received \subseteq {"field", "template", "layout", "type"}
    /\ Exposed \subseteq {"deletion", "sync", "examples", "journal"}
    /\ {MaxItems, MaxChanges} \subseteq Nat

VARIABLES
    desktop,    \* is this the desktop application, or a browser?
    doc,        \* the document, in a browser the one the page carries; None at first
    page,       \* the projection the page shows and edits
    stored,     \* the projection stored last
    storedDoc,  \* browser: the document stored with it; None before the first save
    replayed,   \* desktop: the projection a restart makes of snapshot and journal
    opened,     \* the content types an editor has loaded, and its patch on the way, or None
    changes     \* changes made so far

vars == <<desktop, doc, page, stored, storedDoc, replayed, opened, changes>>

Collections == {"types", "fields", "templates"}

Merged(functions) == [x \in UNION {DOMAIN f : f \in functions} |-> (CHOOSE f \in functions : x \in DOMAIN f)[x]]

-----------------------------------------------------------------------------
(* The invariants of a document. *)

Owned(d, collection, t) == {x \in DOMAIN d[collection] : d[collection][x].type = t}

TypesOwn(d) ==
    \A t \in DOMAIN d.types : \A collection \in {"fields", "templates"} :
        LET listed == d.types[t][collection]  owned == Owned(d, collection, t)
        IN  /\ IsInjective(listed) /\ Range(listed) = owned
            /\ Cardinality({d[collection][x].ordinal : x \in owned}) = Cardinality(owned)

TemplatesAsk(d) ==
    \A t \in DOMAIN d.templates : LET template == d.templates[t] IN
        /\ template.type \in DOMAIN d.types
        /\ {template.prompt, template.answer} \cup template.supporting \subseteq Owned(d, "fields", template.type)
        /\ template.prompt # template.answer
        /\ template.supporting \cap {template.prompt, template.answer} = {}

NotesFit(d) ==
    \A n \in DOMAIN d.notes : d.notes[n].type \in DOMAIN d.types /\ DOMAIN d.notes[n].values \subseteq DOMAIN d.fields

CardsFit(d) ==
    \A c \in DOMAIN d.cards : LET card == d.cards[c] IN
        /\ card.note \in DOMAIN d.notes /\ card.template \in DOMAIN d.templates
        /\ d.templates[card.template].type = d.notes[card.note].type
        /\ card.deletion = None => card.ordinal = d.templates[card.template].ordinal

ReviewsFit(d) == d.reviews \subseteq DOMAIN d.cards

ValidDocument(d) ==
    /\ \A f \in DOMAIN d.fields : d.fields[f].type \in DOMAIN d.types
    /\ TypesOwn(d) /\ TemplatesAsk(d) /\ NotesFit(d) /\ CardsFit(d) /\ ReviewsFit(d)

(* What the schema of the projection asks for. *)
ValidPage(p) ==
    /\ \A c \in DOMAIN p.cards : p.cards[c].item \in DOMAIN p.items
    /\ \A i \in DOMAIN p.trash : \A c \in DOMAIN p.trash[i].cards :
           p.trash[i].cards[c].item = i /\ c \notin DOMAIN p.cards
    /\ DOMAIN p.items \cap DOMAIN p.trash = {}

-----------------------------------------------------------------------------
(* From the document to the page. *)

Value(values, f) == IF f \in DOMAIN values THEN values[f] ELSE 0

(* A card as its template presents it; empty supporting fields are not shown. *)
RenderFields(t, template, values, known) ==
    [template |-> t,
     prompt |-> <<template.prompt, Value(values, template.prompt)>>,
     answer |-> <<template.answer, Value(values, template.answer)>>,
     supporting |-> {<<f, Value(values, f)>> : f \in {g \in template.supporting \cap known : Value(values, g) # 0}}]

Renders(template, known) == {template.prompt, template.answer} \subseteq known

ProjectItem(d, n) ==
    [type |-> d.notes[n].type,
     values |-> [f \in Range(d.types[d.notes[n].type].fields) |-> Value(d.notes[n].values, f)]]

ProjectCard(d, c) ==
    LET card == d.cards[c]  item == ProjectItem(d, card.note) IN
    [item |-> card.note, kind |-> card.kind, reps |-> card.reps,
     rendering |-> RenderFields(card.template, d.templates[card.template], item.values, DOMAIN item.values)]

Project(d) ==
    [items |-> [n \in DOMAIN d.notes \ d.deadNotes |-> ProjectItem(d, n)],
     cards |-> [c \in {c \in DOMAIN d.cards \ d.deadCards : d.cards[c].note \notin d.deadNotes} |-> ProjectCard(d, c)],
     reviews |-> d.reviews, trash |-> d.trash]

-----------------------------------------------------------------------------
(* From the page to the document. *)

BasicType == 1
BasicFields == <<1, 2, 3>>
BasicTemplate(kind, ordinal) ==
    [type |-> BasicType, ordinal |-> ordinal, rev |-> 1, supporting |-> {3},
     prompt |-> IF kind = "reverse" THEN 2 ELSE 1, answer |-> IF kind = "reverse" THEN 1 ELSE 2]

(* Prompt, answer and context of an item: all it has, if it has no content type. *)
Texts(item) == LET sorted == SetToSortSeq(DOMAIN item.values, <) IN
    [position \in 1 .. 3 |-> IF position <= Len(sorted) THEN item.values[sorted[position]] ELSE 0]

(* A document made of a workspace of version 3: one content type, a template for each kind of card. *)
Migrate(p) ==
    LET kinds == <<"forward">> \o (IF \E c \in DOMAIN p.cards : p.cards[c].kind = "reverse" THEN <<"reverse">> ELSE <<>>)
        templateOf(kind) == CHOOSE t \in DOMAIN kinds : kinds[t] = kind
    IN  [rev |-> 1,
         types |-> BasicType :> [fields |-> BasicFields, templates |-> [t \in DOMAIN kinds |-> t], rev |-> 1],
         fields |-> [f \in Range(BasicFields) |-> [type |-> BasicType, ordinal |-> f - 1, rev |-> 1]],
         templates |-> [t \in DOMAIN kinds |-> BasicTemplate(kinds[t], t - 1)],
         notes |-> [n \in DOMAIN p.items |-> [type |-> BasicType, values |-> Texts(p.items[n])]],
         cards |-> [c \in DOMAIN p.cards |-> LET t == templateOf(p.cards[c].kind) IN
                       [note |-> p.cards[c].item, template |-> t, ordinal |-> t - 1,
                        kind |-> p.cards[c].kind, reps |-> p.cards[c].reps, deletion |-> None]],
         reviews |-> p.reviews, deadNotes |-> {}, deadCards |-> {}, trash |-> p.trash]

(* The type a new note gets, and what a note keeps of an item. *)
TypeOf(d, n, item) ==
    IF n \in DOMAIN d.notes THEN d.notes[n].type
    ELSE IF item.type \in DOMAIN d.types THEN item.type ELSE BasicType

RefreshNote(d, n, item) ==
    LET type == TypeOf(d, n, item)
        fields == d.types[type].fields
        old == IF n \in DOMAIN d.notes THEN d.notes[n].values ELSE <<>>
    IN  [type |-> type,
         values |-> IF item.type = type
                    THEN [f \in DOMAIN item.values \cap Range(fields) |-> item.values[f]]
                    ELSE [f \in Range(fields) |-> LET position == CHOOSE k \in DOMAIN fields : fields[k] = f IN
                             IF position <= 3 THEN Texts(item)[position] ELSE Value(old, f)]]

(* The template of a new card: the one it was rendered with, or one of the note's type. *)
TemplateFor(d, type, rendering) ==
    LET owned == Owned(d, "templates", type) IN
    IF rendering # None /\ rendering.template \in owned THEN rendering.template ELSE Min(owned)

RefreshCard(d, notes, c, card) ==
    IF c \in DOMAIN d.cards THEN [d.cards[c] EXCEPT !.note = card.item, !.kind = card.kind, !.reps = card.reps]
    ELSE LET t == TemplateFor(d, notes[card.item].type, card.rendering) IN
         [note |-> card.item, template |-> t, ordinal |-> d.templates[t].ordinal,
          kind |-> card.kind, reps |-> card.reps, deletion |-> None]

RefreshedNotes(d, p) == [n \in DOMAIN p.items |-> RefreshNote(d, n, p.items[n])] @@ d.notes

(* Defect: cards that left the page leave the document, whatever refers to them. *)
RefreshesShownCards(d, notes, p) == [c \in DOMAIN p.cards |-> RefreshCard(d, notes, c, p.cards[c])]

RefreshedCards(d, notes, p) == [c \in DOMAIN p.cards |-> RefreshCard(d, notes, c, p.cards[c])] @@ d.cards

Refresh(p, d) ==
    IF d = None THEN Migrate(p)
    ELSE LET notes == RefreshedNotes(d, p)
             next == [d EXCEPT !.notes = notes, !.cards = RefreshedCards(d, notes, p),
                               !.reviews = @ \cup p.reviews, !.trash = p.trash,
                               !.deadNotes = DOMAIN d.notes \ DOMAIN p.items,
                               !.deadCards = DOMAIN d.cards \ DOMAIN p.cards]
         IN  IF next = d THEN d ELSE [next EXCEPT !.rev = @ + 1]

-----------------------------------------------------------------------------
(* Documents whose templates are formats of text.  A side of a card becomes  *)
(* a field of its own, and a type of deletions gets a template per deletion. *)

Deletions(d, t) ==
    IF d.types[d.templates[t].type].kind # "deletion" THEN {0}
    ELSE LET numbers == {d.cards[c].deletion : c \in {c \in DOMAIN d.cards : d.cards[c].template = t}}
         IN  IF numbers = {} THEN {1} ELSE numbers

Targets(d, type) ==
    SetToSortSeq(UNION {{<<t, n>> : n \in Deletions(d, t)} : t \in Owned(d, "templates", type)},
                 LAMBDA x, y : x[1] < y[1] \/ (x[1] = y[1] /\ x[2] < y[2]))

TargetId(d, t, n) == IF n = Min(Deletions(d, t)) THEN t ELSE 100 * t + n
SideField(t, n, side) == 100 * t + 10 * n + side
PromptSide == 1
AnswerSide == 2

(* What a format shows of a note on one side of a deletion. *)
RenderLegacySide(d, note, n, side) ==
    LET fields == SetToSortSeq(Owned(d, "fields", note.type), <)
    IN  IF n = 0 THEN note.values[fields[side]] ELSE 10 * n + side

NormalizedType(d, type) ==
    LET targets == Targets(d, type)
        sides(k) == <<SideField(targets[k][1], targets[k][2], PromptSide), SideField(targets[k][1], targets[k][2], AnswerSide)>>
    IN  [fields |-> SetToSortSeq(Owned(d, "fields", type), <) \o FlattenSeq([k \in DOMAIN targets |-> sides(k)]),
         templates |-> [k \in DOMAIN targets |-> TargetId(d, targets[k][1], targets[k][2])], rev |-> d.types[type].rev]

NormalizedTemplate(d, t, n) ==
    [type |-> d.templates[t].type,
     ordinal |-> d.templates[t].ordinal + Cardinality({m \in Deletions(d, t) : m < n}),
     prompt |-> SideField(t, n, PromptSide), answer |-> SideField(t, n, AnswerSide),
     supporting |-> {}, rev |-> d.templates[t].rev]

NormalizedNote(d, note) ==
    [note EXCEPT !.values = @ @@
        Merged({SideField(x[1], x[2], side) :> RenderLegacySide(d, note, x[2], side) :
                    x \in Range(Targets(d, note.type)), side \in {PromptSide, AnswerSide}})]

NormalizedCard(d, card) ==
    IF d.types[d.notes[card.note].type].kind = "deletion"
    THEN [card EXCEPT !.template = TargetId(d, @, card.deletion)]
    ELSE [card EXCEPT !.deletion = None]

Normalize(d) ==
    LET pairs == UNION {Range(Targets(d, type)) : type \in DOMAIN d.types}
        types == [type \in DOMAIN d.types |-> NormalizedType(d, type)]
        added == Merged({[f \in Range(types[type].fields) \ DOMAIN d.fields |->
                    [type |-> type, ordinal |-> (CHOOSE k \in DOMAIN types[type].fields : types[type].fields[k] = f) - 1, rev |-> 1]]
                    : type \in DOMAIN types})
    IN  [d EXCEPT !.types = types, !.fields = @ @@ added,
                  !.templates = Merged({TargetId(d, x[1], x[2]) :> NormalizedTemplate(d, x[1], x[2]) : x \in pairs}),
                  !.notes = [n \in DOMAIN @ |-> NormalizedNote(d, @[n])],
                  !.cards = [c \in DOMAIN @ |-> NormalizedCard(d, @[c])]]

-----------------------------------------------------------------------------
(* The editor of content types.  Its patch holds the entities it changes and *)
(* creates, as they will be; what is drafted before is the argument of it.   *)

Base(d) == [rev |-> d.rev, types |-> d.types, fields |-> d.fields, templates |-> d.templates]

Fresh(d) == 1 + Max(DOMAIN d.types \cup DOMAIN d.fields \cup DOMAIN d.templates)

Patch(types, fields, templates) == [types |-> types, fields |-> fields, templates |-> templates]

(* A field is added to a type and shown by one of its templates. *)
AddField(base, t, x) ==
    LET type == base.templates[t].type IN
    Patch(type :> [base.types[type] EXCEPT !.fields = Append(@, x), !.rev = @ + 1],
          x :> [type |-> type, ordinal |-> Len(base.types[type].fields), rev |-> 1],
          t :> [base.templates[t] EXCEPT !.supporting = @ \cup {x}, !.rev = @ + 1])

AddTemplate(base, type, x) ==
    LET fields == base.types[type].fields IN
    Patch(type :> [base.types[type] EXCEPT !.templates = Append(@, x), !.rev = @ + 1], <<>>,
          x :> [type |-> type, ordinal |-> Len(base.types[type].templates), rev |-> 1, prompt |-> fields[1],
                answer |-> fields[2], supporting |-> Range(fields) \ {fields[1], fields[2]}])

(* Another field becomes the answer of a template. *)
Arrange(base, t, f) ==
    Patch(<<>>, <<>>, t :> [base.templates[t] EXCEPT !.answer = f, !.supporting = @ \ {f}, !.rev = @ + 1])

CreateContentType(base, x) ==
    Patch(x :> [fields |-> <<x, x + 1, x + 2>>, templates |-> <<x>>, rev |-> 1],
          [f \in x .. x + 2 |-> [type |-> x, ordinal |-> f - x, rev |-> 1]],
          x :> [type |-> x, ordinal |-> 0, rev |-> 1, prompt |-> x, answer |-> x + 1, supporting |-> {x + 2}])

Edits(kinds, base, x) ==
    LET of(kind, patches) == IF kind \in kinds THEN patches ELSE {} IN
    UNION {
        of("field", {AddField(base, t, x) : t \in DOMAIN base.templates}),
        of("template", {AddTemplate(base, type, x) : type \in {y \in DOMAIN base.types : Len(base.types[y].fields) >= 2}}),
        of("layout", UNION {LET template == base.templates[t] IN
                           {Arrange(base, t, f) : f \in Owned(base, "fields", template.type) \ {template.prompt, template.answer}}
                           : t \in DOMAIN base.templates}),
        of("type", {CreateContentType(base, x)})}

Patched(d, patch) ==
    [d EXCEPT !.types = patch.types @@ @, !.fields = patch.fields @@ @, !.templates = patch.templates @@ @, !.rev = @ + 1]

(* Defect: revisions are not compared, only the outcome is validated. *)
AcceptsStale(d, base, patch) == ValidDocument(Patched(d, patch))

(* Is the patch of an editor that loaded base accepted? *)
Accepts(d, base, patch) ==
    /\ base.rev = d.rev
    /\ \A collection \in Collections : \A x \in DOMAIN patch[collection] :
           IF x \in DOMAIN base[collection]
           THEN x \in DOMAIN d[collection] /\ patch[collection][x].rev = d[collection][x].rev + 1
           ELSE x \notin DOMAIN d[collection]
    /\ ValidDocument(Patched(d, patch))

(* The cards a patch may show differently. *)
RenderingCards(d, patch) ==
    LET types == DOMAIN patch.types \cup {patch.fields[f].type : f \in DOMAIN patch.fields}
                 \cup {patch.templates[t].type : t \in DOMAIN patch.templates}
    IN  {c \in DOMAIN d.cards : d.templates[d.cards[c].template].type \in types}

(* What a journal keeps of the projection after a patch: renderings are not made again. *)
ProjectionAfterPatch(p, d, patch) ==
    [p EXCEPT !.cards = [c \in DOMAIN @ |-> IF c \in RenderingCards(d, patch)
                                             THEN [@[c] EXCEPT !.rendering = None] ELSE @[c]]]

(* The page rebuilt from the description of an accepted patch. *)
RelevantTypes(d, patch) == {d.templates[d.cards[c].template].type : c \in RenderingCards(d, patch)}

(* Defect: only cards are rendered again; items keep the fields they had. *)
KeepsFields(d, types, item) == item

RebuiltItem(d, types, item) ==
    IF item.type \notin types THEN item
    ELSE [item EXCEPT !.values = [f \in Range(d.types[item.type].fields) |-> Value(item.values, f)]]

ShownFields(rendering) == {rendering.prompt, rendering.answer} \cup rendering.supporting

(* The values a card is rendered with again: those of its item's content type, those it showed, *)
(* or the texts of its item.                                                                    *)
RebuiltValues(d, template, item, card) ==
    IF item.type # None THEN item.values
    ELSE IF card.rendering # None THEN Merged({x[1] :> x[2] : x \in ShownFields(card.rendering)})
    ELSE [f \in Owned(d, "fields", template.type) |->
             Texts(item)[IF f = template.prompt THEN 1 ELSE IF f = template.answer THEN 2 ELSE 3]]

RebuiltCard(d, items, c, card) ==
    LET t == d.cards[c].template
        values == RebuiltValues(d, d.templates[t], items[card.item], card)
    IN  [card EXCEPT !.rendering = RenderFields(t, d.templates[t], values, DOMAIN values)]

RebuiltItems(p, d, patch) == [i \in DOMAIN p.items |-> RebuiltItem(d, RelevantTypes(d, patch), p.items[i])]

CanRebuild(p, d, patch) ==
    \A c \in RenderingCards(d, patch) \cap DOMAIN p.cards :
        LET template == d.templates[d.cards[c].template] IN
        Renders(template, DOMAIN RebuiltValues(d, template, RebuiltItems(p, d, patch)[p.cards[c].item], p.cards[c]))

Rebuilt(p, d, patch) ==
    LET items == RebuiltItems(p, d, patch) IN
    [p EXCEPT !.items = items,
              !.cards = [c \in DOMAIN @ |-> IF c \in RenderingCards(d, patch)
                                             THEN RebuiltCard(d, items, c, @[c]) ELSE @[c]]]

-----------------------------------------------------------------------------
(* Saving, loading and restarting. *)

EmptyPage == [items |-> <<>>, cards |-> <<>>, reviews |-> {}, trash |-> <<>>]

Init ==
    /\ desktop \in BOOLEAN /\ opened = None /\ changes = 0
    /\ \/ /\ page \in Pages \cup {EmptyPage}
          /\ doc = IF desktop THEN Migrate(page) ELSE None
       \/ /\ doc \in {Normalize(d) : d \in Imported}
          /\ page = Project(doc)
    /\ stored = page /\ storedDoc = IF desktop THEN None ELSE doc
    /\ replayed = IF desktop THEN Project(doc) ELSE None

(* Only what changed since the last save is sent to the store. *)
Sent(old, new, known) ==
    [x \in DOMAIN new |-> IF x \in DOMAIN old /\ x \in DOMAIN known /\ old[x] = new[x] THEN known[x] ELSE new[x]]

ReplayedAfter(p) ==
    [items |-> Sent(stored.items, p.items, replayed.items), cards |-> Sent(stored.cards, p.cards, replayed.cards),
     reviews |-> p.reviews, trash |-> p.trash]

(* A browser stores the document with the page, which goes on with the one it carries. *)
Stores(p) ==
    /\ stored' = p
    /\ IF desktop
       THEN /\ doc' = IF p = stored THEN doc ELSE Refresh(p, doc)
            /\ replayed' = ReplayedAfter(p)
            /\ UNCHANGED storedDoc
       ELSE /\ storedDoc' = Refresh(p, doc)
            /\ UNCHANGED <<doc, replayed>>

Save ==
    /\ page # stored \/ (~desktop /\ storedDoc # Refresh(page, doc))
    /\ Stores(page)
    /\ UNCHANGED <<desktop, page, opened, changes>>

(* Can every item still be edited, its cards being rendered again with its values? *)
Editable(p) ==
    \A c \in DOMAIN p.cards : LET card == p.cards[c]  item == p.items[card.item] IN
        card.rendering # None /\ item.type # None =>
            {card.rendering.prompt[1], card.rendering.answer[1]} \subseteq DOMAIN item.values

\* The whole page was stored as text, with its document: what was not saved is lost.
LoadStored == page' = stored /\ doc' = storedDoc

Restart ==
    /\ \/ desktop /\ page' = replayed /\ UNCHANGED doc
       \/ ~desktop /\ LoadStored
    /\ "journal" \in Exposed \/ Editable(page')
    /\ stored' = page'
    /\ opened' = None
    /\ UNCHANGED <<desktop, storedDoc, replayed, changes>>

-----------------------------------------------------------------------------
(* What the user does to the items of the page. *)

Changes ==
    /\ changes < MaxChanges
    /\ changes' = changes + 1
    /\ UNCHANGED <<desktop, opened>>

NewItem == LET known == DOMAIN page.items \cup DOMAIN page.trash \cup (IF doc = None THEN {} ELSE DOMAIN doc.notes) IN
    1 + Max({0} \cup known)

NewCard(i, k) == 10 * i + k

(* An item of a loaded content type gets a card for each of its templates. *)
AddItem(type) ==
    /\ opened # None /\ opened.pending = None
    /\ NewItem <= MaxItems
    /\ LET fields == opened.base.types[type].fields
           values == [f \in Range(fields) |-> CHOOSE k \in DOMAIN fields : fields[k] = f]
           templates == opened.base.types[type].templates
           cards == Merged({NewCard(NewItem, k) :>
                               [item |-> NewItem, kind |-> "forward", reps |-> 0,
                                rendering |-> RenderFields(templates[k], opened.base.templates[templates[k]], values, DOMAIN values)]
                            : k \in DOMAIN templates})
       IN  page' = [page EXCEPT !.items = NewItem :> [type |-> type, values |-> values] @@ @, !.cards = cards @@ @]
    /\ Stores(page')
    /\ Changes

(* The template a card was last rendered with, as far as the card shows it. *)
ShownTemplate(rendering) ==
    [prompt |-> rendering.prompt[1], answer |-> rendering.answer[1], supporting |-> {x[1] : x \in rendering.supporting}]

Rerendered(i, item, card) ==
    IF card.item # i \/ card.rendering = None \/ item.type = None THEN card
    ELSE [card EXCEPT !.rendering =
              RenderFields(@.template, ShownTemplate(@), item.values, DOMAIN item.values)]

CardsOf(i) == {c \in DOMAIN page.cards : page.cards[c].item = i}

Renderings(i) == {page.cards[c].rendering : c \in CardsOf(i)} \ {None}

(* The first field of an item and those its cards ask must not be left empty. *)
Required(i) == {Min(DOMAIN page.items[i].values)} \cup UNION {{r.prompt[1], r.answer[1]} : r \in Renderings(i)}

(* A value of an item changes, and with it the cards that show it. *)
UpdateItem(i, f, v) ==
    LET item == [page.items[i] EXCEPT !.values[f] = v] IN
    /\ item # page.items[i]
    /\ item.type # None => \A r \in Renderings(i) : Renders(ShownTemplate(r), DOMAIN item.values)
    /\ page' = [page EXCEPT !.items[i] = item,
                            !.cards = [c \in DOMAIN @ |-> Rerendered(i, item, @[c])]]
    /\ Stores(page')
    /\ Changes

DeleteItem(i) ==
    /\ "deletion" \in Exposed \/ CardsOf(i) \cap page.reviews \subseteq (IF doc = None THEN {} ELSE DOMAIN doc.cards)
    /\ page' = [page EXCEPT !.items = Restrict(@, DOMAIN @ \ {i}), !.cards = Restrict(@, DOMAIN @ \ CardsOf(i)),
                 !.trash = i :> [item |-> page.items[i], cards |-> Restrict(page.cards, CardsOf(i))] @@ @]
    /\ Changes /\ UNCHANGED <<doc, stored, storedDoc, replayed>>

RestoreItem(i) ==
    /\ page' = [page EXCEPT !.items = i :> page.trash[i].item @@ @, !.cards = page.trash[i].cards @@ @,
                            !.trash = Restrict(@, DOMAIN @ \ {i})]
    /\ Changes /\ UNCHANGED <<doc, stored, storedDoc, replayed>>

PurgeItem(i) ==
    /\ page' = [page EXCEPT !.trash = Restrict(@, DOMAIN @ \ {i})]
    /\ Changes /\ UNCHANGED <<doc, stored, storedDoc, replayed>>

ReviewCard(c) ==
    /\ page' = [page EXCEPT !.cards[c].reps = @ + 1, !.reviews = @ \cup {c}]
    /\ Changes /\ UNCHANGED <<doc, stored, storedDoc, replayed>>

(* The examples replace a workspace without items, its trash included; they   *)
(* carry no document, so that a browser forgets the content types it had.     *)
LoadDemo ==
    /\ DOMAIN page.items = {} /\ page.reviews = {}
    /\ NewItem <= MaxItems
    /\ page' = [items |-> NewItem :> [type |-> None, values |-> <<1, 2, 0>>],
                cards |-> NewCard(NewItem, 1) :> [item |-> NewItem, kind |-> "forward", reps |-> 0, rendering |-> None],
                reviews |-> {}, trash |-> <<>>]
    /\ doc' = IF desktop THEN doc ELSE None
    /\ Changes /\ UNCHANGED <<stored, storedDoc, replayed>>

-----------------------------------------------------------------------------
(* Editing content types, here and on another device. *)

Pending == IF opened = None THEN None ELSE opened.pending

Current == IF desktop THEN doc ELSE Refresh(page, doc)

Open ==
    /\ opened = None /\ changes < MaxChanges
    /\ opened' = [base |-> Base(Current), pending |-> None]
    /\ UNCHANGED <<desktop, doc, page, stored, storedDoc, replayed, changes>>

Close ==
    /\ opened # None /\ opened.pending = None
    /\ opened' = None
    /\ UNCHANGED <<desktop, doc, page, stored, storedDoc, replayed, changes>>

(* What the editor makes of the copy it loaded once its patch is accepted. *)
Advanced(base, patch, rev) ==
    [rev |-> rev, types |-> patch.types @@ base.types, fields |-> patch.fields @@ base.fields,
     templates |-> patch.templates @@ base.templates]

Untyped == \E i \in DOMAIN page.items : page.items[i].type = None

(* Layouts wait for items without a content type, unless this situation is explored. *)
Drafts(kinds, base) ==
    Edits(IF "examples" \in Exposed \/ ~Untyped THEN kinds ELSE kinds \ {"layout"}, base, Fresh(Current))

(* On a desktop what is unsaved is saved first, and the store takes the patch. *)
SendPatch(patch) ==
    /\ desktop /\ opened.pending = None
    /\ LET d == IF page = stored THEN doc ELSE Refresh(page, doc) IN
       /\ Accepts(d, opened.base, patch)
       /\ doc' = Patched(d, patch)
       /\ replayed' = ProjectionAfterPatch(ReplayedAfter(page), doc', patch)
    /\ stored' = page
    /\ opened' = [opened EXCEPT !.pending = [patch |-> patch, rev |-> doc'.rev]]
    /\ changes < MaxChanges /\ changes' = changes + 1
    /\ UNCHANGED <<desktop, page, storedDoc>>

(* Its answer arrives: the page is rebuilt and taken for stored, or an error leaves page and editor behind. *)
Adopt ==
    /\ Pending # None
    /\ LET sent == Pending IN
       IF CanRebuild(page, doc, sent.patch)
       THEN /\ page' = Rebuilt(page, doc, sent.patch)
            /\ stored' = page'
            /\ opened' = [base |-> Advanced(opened.base, sent.patch, sent.rev), pending |-> None]
       ELSE /\ opened' = [opened EXCEPT !.pending = None]
            /\ UNCHANGED <<page, stored>>
    /\ UNCHANGED <<desktop, doc, storedDoc, replayed, changes>>

(* In a browser the document made of the page takes the patch, and the page is projected from it. *)
CommitInBrowser(patch) ==
    /\ ~desktop
    /\ Accepts(Current, opened.base, patch)
    /\ doc' = Patched(Current, patch)
    /\ page' = Project(doc')
    /\ opened' = [base |-> Advanced(opened.base, patch, doc'.rev), pending |-> None]
    /\ changes < MaxChanges /\ changes' = changes + 1
    /\ UNCHANGED <<desktop, stored, storedDoc, replayed>>

(* A synchronization brings the change another device made to a content type. *)
Receive(patch) ==
    /\ desktop \/ "sync" \in Exposed
    /\ page = stored /\ Pending = None
    /\ page' = Project(Patched(Current, patch))
    /\ stored' = page'
    /\ IF desktop THEN doc' = Patched(doc, patch) /\ replayed' = page' /\ UNCHANGED storedDoc
       ELSE doc' = None /\ storedDoc' = Refresh(page', None) /\ UNCHANGED replayed
    /\ Changes

Next ==
    \/ Save \/ Restart \/ Open \/ Close \/ Adopt \/ LoadDemo
    \/ \E i \in DOMAIN page.items :
          \/ DeleteItem(i)
          \/ \E f \in DOMAIN page.items[i].values : UpdateItem(i, f, IF f \in Required(i) THEN 7 ELSE 0)
    \/ \E i \in DOMAIN page.trash : RestoreItem(i) \/ PurgeItem(i)
    \/ \E c \in DOMAIN page.cards : ReviewCard(c)
    \/ opened # None /\ \E type \in DOMAIN opened.base.types : AddItem(type)
    \/ opened # None /\ \E patch \in Drafts(Kinds, opened.base) : SendPatch(patch) \/ CommitInBrowser(patch)
    \/ \E patch \in Drafts(Received, Base(Current)) : Receive(patch)

Spec == Init /\ [][Next]_vars

-----------------------------------------------------------------------------
(* The page can be stored and every item of it edited: its document satisfies the    *)
(* invariants every save, patch and synchronization checks (validateWorkspaceV4-     *)
(* Invariants), and no card shows a field its item has lost (renderCardFields).      *)
GraphInv ==
    /\ ValidPage(page) /\ ValidPage(stored)
    /\ ValidDocument(Refresh(page, doc))
    /\ Editable(page)

(* When the change of a content type has been stored and its answer dealt with,      *)
(* every card of that type shows what the document holds, however the page was       *)
(* brought up to date: by the description the store answers (AppContext.tsx:739-803) *)
(* or by a projection.                                                               *)
Changed(base, d) == {t \in DOMAIN d.types :
    t \notin DOMAIN base.types \/ base.types[t] # d.types[t]
    \/ \E x \in Owned(d, "templates", t) : x \notin DOMAIN base.templates \/ base.templates[x] # d.templates[x]}

Dealt == opened' # None /\ opened' # opened /\ opened'.pending = None

PatchIsShown ==
    [][opened # None /\ Dealt =>
          \A c \in DOMAIN page'.cards \cap DOMAIN doc'.cards : LET i == page'.cards[c].item IN
              doc'.notes[i].type \in Changed(opened.base, doc') /\ page'.items[i].type # None =>
                  /\ page'.items[i] = ProjectItem(doc', i)
                  /\ page'.cards[c].rendering = ProjectCard(doc', c).rendering]_vars

(* The editor of content types works on a copy that synchronizations, imports and    *)
(* saves leave behind: what it stores replaces only what it had loaded.              *)
EditorOverwritesNothing ==
    [][opened # None /\ opened' # None /\ opened' # opened /\ doc # None =>
          \A collection \in Collections : \A x \in DOMAIN doc[collection] :
              doc'[collection][x] # doc[collection][x] =>
                  x \in DOMAIN opened.base[collection] /\ opened.base[collection][x] = doc[collection][x]]_vars

=============================================================================
