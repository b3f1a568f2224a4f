---------------------------- MODULE StudySession ----------------------------
(***************************************************************************)
(* One device studies: the daily plan and the sessions cut from it         *)
(* (src/lib/planner.ts), the review page (src/pages/ReviewPage.tsx), and   *)
(* the reviews, undos and library actions of AppContext (src/state), while *)
(* reviews made elsewhere arrive through synchronization.                  *)
(*                                                                         *)
(* Time is counted in moments, DayLength to a day.  What FSRS knows of a   *)
(* card is abstracted to the ratings it has seen: a card that was forgotten*)
(* is due at the next moment, one that was recalled on a later day.  Every *)
(* answer takes ReviewSeconds, the estimate a card starts with, so that    *)
(* estimates stay what they are.  The page, its queue and its stack of     *)
(* answers live as long as it is mounted; the session outlives it.         *)
(***************************************************************************)
EXTENDS Integers, Sequences, FiniteSets, SequencesExt, FiniteSetsExt

CONSTANTS
    Cards,          \* ranks of the cards in the order of the curriculum
    NoteOf,         \* the note of a card
    SubjectOf,      \* the subject of a note, ranked by name
    DayLength,
    Interval,       \* days until a recalled card is due again
    DailySeconds,   \* the time the user wants to spend in a day
    NewLimit, ReviewLimit,      \* daily limits of the preset all cards have
    BurySiblings, LeechThreshold, LeechSuspends,    \* more options of it
    Requests,       \* the minutes asked for in a session, in seconds
    Selections,     \* the sets of cards selected in the library
    Recognized,     \* does a review made elsewhere carry the id of another device?
                    \* (two browsers of an account take over one synchronized id)
    Entangled,      \* may others review a card whose last review can be undone here?
    Overnight,      \* may a session be returned to on a later day?
    MaxTime,        \* bound: the last moment
    MaxReceived,    \* bound: reviews made elsewhere
    MaxSteps        \* bound: entries of the review log and changes in the library

ASSUME CardAssumption ==
    /\ Cards \subseteq Nat \ {0} /\ IsFiniteSet(Cards)
    /\ Selections \subseteq SUBSET Cards
    /\ \A c \in Cards : SubjectOf[NoteOf[c]] \in Nat
ASSUME TimeAssumption == DayLength \in Nat \ {0} /\ Interval \in Nat \ {0}
ASSUME LimitAssumption == {DailySeconds, NewLimit, ReviewLimit} \cup Requests \subseteq Nat
ASSUME SwitchAssumption ==
    {BurySiblings, LeechSuspends, Recognized, Entangled, Overnight} \subseteq BOOLEAN
ASSUME BoundAssumption == {MaxTime, MaxReceived, MaxSteps} \subseteq Nat

VARIABLES
    now,
    cards,      \* per card: its history, when it is unburied, whether it is suspended
    place,      \* per note: where it is; "restored" is the library after the trash
    reviews,    \* the review log
    changes,    \* actions in the library, for the bound
    plannedAt,  \* the moment of the change the plan was made after
    session,    \* the session in progress, and when it began (history)
    page        \* the review page

vars == <<now, cards, place, reviews, changes, plannedAt, session, page>>

ReviewSeconds == 14
NewSeconds == 72
FutureNewCost == <<34, 22, 15, 11, 8, 7>>

Notes == {NoteOf[c] : c \in Cards}
Day(t) == t \div DayLength
NextDay(t) == (Day(t) + 1) * DayLength

-----------------------------------------------------------------------------
(* Cards *)

Queue(history) ==
    LET n == Len(history)
    IN  IF n = 0 THEN "new"
        ELSE IF history[n].rating = "easy" THEN "review"
        ELSE IF \E i \in 1 .. n : history[i].rating = "easy" THEN "relearn" ELSE "learn"

DueAt(history) ==
    LET n == Len(history)
    IN  IF n = 0 THEN 0
        ELSE IF history[n].rating = "easy"
             THEN (Day(history[n].at) + Interval) * DayLength
             ELSE history[n].at + 1

\* A lapse is a card forgotten that had been recalled.
Lapses(history) ==
    Cardinality({i \in 2 .. Len(history) :
        history[i].rating = "again" /\ history[i - 1].rating = "easy"})

Present(c) == place[NoteOf[c]] \in {"library", "restored"}
Siblings(c) == {s \in Cards \ {c} : NoteOf[s] = NoteOf[c] /\ Present(s)}
Buried(c, t) == cards[c].buriedUntil > t
Active(c, t) == Present(c) /\ ~cards[c].suspended /\ ~Buried(c, t)

NewCard == [history |-> <<>>, buriedUntil |-> 0, suspended |-> FALSE]

-----------------------------------------------------------------------------
(* The daily plan, as of the moment t *)

Sorted(S, Before(_, _)) ==
    [i \in 1 .. Cardinality(S) |->
        CHOOSE x \in S : Cardinality({y \in S : Before(y, x)}) = i - 1]
ByRank(S) == Sorted(S, <)
FirstOf(s, n) == SubSeq(s, 1, IF n < Len(s) THEN n ELSE Len(s))
AtLeastZero(n) == IF n < 0 THEN 0 ELSE n

\* Reviews count although they were undone; previews do not.
Today(t) == {i \in DOMAIN reviews : reviews[i].kind = "review" /\ Day(reviews[i].at) = Day(t)}

Remaining(t) == AtLeastZero(DailySeconds - ReviewSeconds * Cardinality(Today(t)))

\* A review of a card that is gone does not count.
Studied(t, queue) ==
    Cardinality({i \in Today(t) : Present(reviews[i].card) /\ Queue(reviews[i].prev.history) = queue})

DueCandidates(t) ==
    {c \in Cards : Active(c, t) /\ cards[c].history # <<>> /\ DueAt(cards[c].history) <= t}

\* The most overdue first.
DueOrder(t) ==
    Sorted(DueCandidates(t), LAMBDA c, d :
        \/ DueAt(cards[c].history) < DueAt(cards[d].history)
        \/ DueAt(cards[c].history) = DueAt(cards[d].history) /\ c < d)

\* withinDailyLimit: of the cards in the given queue only as many as the preset
\* allows and today has not seen.
WithinDailyLimit(s, t, queue, limit) ==
    LET counted(i) == Cardinality({j \in 1 .. i : Queue(cards[s[j]].history) = queue})
        kept == {i \in DOMAIN s :
                    \/ Queue(cards[s[i]].history) # queue
                    \/ Studied(t, queue) + counted(i) <= limit}
    IN  [n \in 1 .. Cardinality(kept) |-> s[ByRank(kept)[n]]]

PlannedDue(t) ==
    FirstOf(WithinDailyLimit(DueOrder(t), t, "review", ReviewLimit), Remaining(t) \div ReviewSeconds)

Fresh(t) == {c \in Cards : Active(c, t) /\ cards[c].history = <<>>}

\* The cards that will be due a number of days later.
Forecast(t, days) ==
    Cardinality({c \in Cards : Active(c, t) /\ cards[c].history # <<>>
                               /\ Day(DueAt(cards[c].history)) = Day(t) + days})

\* How many new cards fit into 88 % of each of the next days, with what learning
\* them costs there, and into what is left of today beside the due cards.
SafeNew(t, due) ==
    LET left == Remaining(t) - ReviewSeconds * Len(due)
        headroom(d) == AtLeastZero(88 * DailySeconds - 100 * ReviewSeconds * Forecast(t, d))
                           \div (100 * FutureNewCost[d])
    IN  IF Len(due) < Cardinality(DueCandidates(t))
        THEN 0
        ELSE Min({left \div NewSeconds, Cardinality(Fresh(t))}
                    \cup {headroom(d) : d \in DOMAIN FutureNewCost})

\* buildDailyPlan: what is due, and new cards.
PlanQueue(t) ==
    LET due == PlannedDue(t)
        fresh == WithinDailyLimit(ByRank(Fresh(t)), t, "new", NewLimit)
    IN  due \o FirstOf(fresh, SafeNew(t, due))

-----------------------------------------------------------------------------
(* Sessions *)

Estimate(c) == IF cards[c].history = <<>> THEN NewSeconds ELSE ReviewSeconds

Subject(c) == SubjectOf[NoteOf[c]]

\* The first card of another note than the last one, if any, comes next.
TakeNext(acc) ==
    LET last == IF acc.ordered = <<>> THEN 0 ELSE NoteOf[Last(acc.ordered)]
        other == {k \in DOMAIN acc.rest : NoteOf[acc.rest[k]] # last}
        k == IF other = {} THEN 1 ELSE Min(other)
    IN  [ordered |-> Append(acc.ordered, acc.rest[k]), rest |-> RemoveAt(acc.rest, k)]

\* avoidAdjacentSiblings
AvoidAdjacentSiblings(s) ==
    LET taken[i \in 0 .. Len(s)] ==
            IF i = 0 THEN [ordered |-> <<>>, rest |-> s] ELSE TakeNext(taken[i - 1])
    IN  taken[Len(s)].ordered

\* Defect: the card stays where it was taken from.
WithoutNothing(source, s, k) == source

\* The cards of the subjects without the one taken.
Without(source, s, k) == [source EXCEPT ![s] = RemoveAt(@, k)]

\* The turn of the subject s: its next card that still fits, or none from now on.
Turn(acc, s, seconds) ==
    LET source == acc.source[s]
        fits == {k \in DOMAIN source : acc.planned + Estimate(source[k]) <= seconds}
        card == source[Min(fits)]
    IN  IF acc.planned >= seconds \/ source = <<>> THEN acc
        ELSE IF fits = {} THEN [acc EXCEPT !.source[s] = <<>>]
        ELSE [planned |-> acc.planned + Estimate(card),
              source |-> Without(acc.source, s, Min(fits)),
              block |-> [acc.block EXCEPT ![s] = Append(@, card)]]

\* buildStudySession: the subjects take turns, and the session is made of one
\* block for each.  Turns after the last card change nothing.
BuildQueue(eligible, seconds) ==
    LET subjects == ByRank({Subject(c) : c \in eligible})
        n == Len(subjects)
        group(s) == AvoidAdjacentSiblings(ByRank({c \in eligible : Subject(c) = s}))
        dealt[i \in 0 .. n * (Cardinality(eligible) + 1)] ==
            IF i = 0
            THEN [planned |-> 0, source |-> [s \in ToSet(subjects) |-> group(s)],
                  block |-> [s \in ToSet(subjects) |-> <<>>]]
            ELSE Turn(dealt[i - 1], subjects[((i - 1) % n) + 1], seconds)
        ended == dealt[n * (Cardinality(eligible) + 1)]
    IN  FlattenSeq([i \in 1 .. n |-> ended.block[subjects[i]]])

NoSession == [kind |-> "none", reschedule |-> TRUE, queue |-> <<>>, since |-> 0]
Closed == [open |-> FALSE, index |-> 1, answered |-> <<>>]
Mounted == [open |-> TRUE, index |-> 1, answered |-> <<>>]

Init ==
    /\ now = 0
    /\ cards = [c \in Cards |-> NewCard]
    /\ place = [n \in Notes |-> "library"]
    /\ reviews = <<>>
    /\ changes = 0
    /\ plannedAt = 0
    /\ session = NoSession
    /\ page = Closed

\* The plan is made again when the data change, not when time passes.
Replans == plannedAt' = now

TimePasses ==
    /\ now < MaxTime
    /\ now' = now + 1
    /\ UNCHANGED <<changes, cards, place, reviews, plannedAt, session, page>>

\* The application is opened again: sessions are not stored.
Reopen ==
    /\ plannedAt' = now
    /\ session' = NoSession
    /\ page' = Closed
    /\ UNCHANGED <<now, changes, cards, place, reviews>>

\* What a session may be about: everything, what is due, or one subject.
Intents ==
    {Cards, {c \in Cards : cards[c].history # <<>>}}
        \cup {{c \in Cards : Subject(c) = s} : s \in Range(SubjectOf)}

\* The page is not mounted where sessions are started.
Begin(kind, reschedule, queue) ==
    /\ ~page.open
    /\ queue # <<>>
    /\ session' = [kind |-> kind, reschedule |-> reschedule, queue |-> queue, since |-> now]
    /\ page' = Mounted
    /\ UNCHANGED <<now, changes, cards, place, reviews, plannedAt>>

\* startSession
StartSession ==
    \E seconds \in Requests, wanted \in Intents :
        Begin("planned", TRUE,
              BuildQueue(ToSet(PlanQueue(plannedAt)) \cap wanted,
                         Min({seconds, Remaining(plannedAt)})))

\* startCustomSession: any cards the user selects, buried or not, with time for
\* all of them; without rescheduling it is a preview.
StartCustomSession ==
    \E selected \in Selections, reschedule \in BOOLEAN :
        LET chosen == {c \in selected : Present(c) /\ ~cards[c].suspended}
        IN  Begin("custom", reschedule, BuildQueue(chosen, NewSeconds * Cardinality(chosen)))

EndSession ==
    /\ page.open
    /\ session' = NoSession
    /\ page' = Closed
    /\ UNCHANGED <<now, changes, cards, place, reviews, plannedAt>>

\* The user goes to another page, and back: the session is where it was, the
\* page starts over.
Leave ==
    /\ page.open
    /\ page' = Closed
    /\ UNCHANGED <<now, changes, cards, place, reviews, plannedAt, session>>

Return ==
    /\ ~page.open /\ session # NoSession
    /\ Overnight \/ Day(session.since) = Day(now)
    /\ page' = Mounted
    /\ UNCHANGED <<now, changes, cards, place, reviews, plannedAt, session>>

-----------------------------------------------------------------------------
(* Reviews *)

\* What a review does to the cards.  Siblings already buried until the next day
\* are not changed, and not recorded.
SiblingChanges(c, reschedule) ==
    {s \in Siblings(c) : reschedule /\ BurySiblings /\ cards[s].buriedUntil # NextDay(now)}

CardsAfter(c, history, reschedule) ==
    LET leech == reschedule /\ Lapses(history) >= LeechThreshold
    IN  [x \in Cards |->
            CASE x = c -> [cards[x] EXCEPT !.history = history,
                                           !.suspended = @ \/ (leech /\ LeechSuspends)]
              [] x \in SiblingChanges(c, reschedule) -> [cards[x] EXCEPT !.buriedUntil = NextDay(now)]
              [] OTHER -> cards[x]]

Event(kind, c, rating, device, planned, reverses, siblings) ==
    [kind |-> kind, card |-> c, rating |-> rating, at |-> now, device |-> device,
     reverses |-> reverses, prev |-> cards[c],
     siblings |-> [s \in siblings |-> cards[s].buriedUntil],
     planned |-> planned]

Bounded == Len(reviews) + changes < MaxSteps

Log(event) == Bounded /\ reviews' = Append(reviews, event)

\* reviewCard
ReviewCard(c, rating) ==
    LET reschedule == session.reschedule
        history == IF reschedule THEN Append(cards[c].history, [rating |-> rating, at |-> now])
                   ELSE cards[c].history
    IN  /\ Log(Event(IF reschedule THEN "review" ELSE "preview", c, rating, "own",
                     session.kind = "planned", 0, SiblingChanges(c, reschedule)))
        /\ cards' = CardsAfter(c, history, reschedule)
        /\ Replans

\* Defect: only cards are skipped that are gone.
UpcomingUnchecked(c) == {i \in page.index + 1 .. Len(session.queue) : Present(session.queue[i])}

\* The entries the page may go on to: their cards exist and are neither suspended
\* nor buried, nor about to be.
Upcoming(c) ==
    {i \in page.index + 1 .. Len(session.queue) :
        /\ Active(session.queue[i], now)
        /\ ~(BurySiblings /\ session.queue[i] \in Siblings(c))}

\* grade
Grade ==
    /\ page.open
    /\ page.index <= Len(session.queue)
    /\ LET c == session.queue[page.index]
       IN  /\ Present(c)
           /\ \E rating \in {"again", "easy"} : ReviewCard(c, rating)
           /\ page' = [page EXCEPT !.index = Min(Upcoming(c) \cup {Len(session.queue) + 1}),
                                   !.answered = Append(@, page.index)]
    /\ UNCHANGED <<now, changes, place, session>>

Reversed == {reviews[i].reverses : i \in DOMAIN reviews}

\* Defect: any device's review can be undone.
UndoableAnywhere ==
    {i \in DOMAIN reviews : reviews[i].kind \in {"review", "preview"} /\ i \notin Reversed}

\* The reviews of this device that have not been undone.
Undoable ==
    {i \in DOMAIN reviews :
        /\ reviews[i].kind \in {"review", "preview"}
        /\ reviews[i].device # "other"
        /\ i \notin Reversed}

\* A review is taken back, with what it did to the siblings, unless its card is
\* gone.
UndoReview(i) ==
    LET event == reviews[i]
    IN  IF Present(event.card)
        THEN /\ Log(Event("reversal", event.card, event.rating, "own", FALSE, i, {}))
             /\ cards' = [x \in Cards |->
                    IF x = event.card THEN event.prev
                    ELSE IF x \in DOMAIN event.siblings /\ Present(x)
                    THEN [cards[x] EXCEPT !.buriedUntil = event.siblings[x]]
                    ELSE cards[x]]
             /\ Replans
        ELSE UNCHANGED <<cards, reviews, plannedAt>>

\* Defect: the oldest of them is undone.
UndoFirstReview ==
    IF Undoable # {} THEN UndoReview(Min(Undoable)) ELSE UNCHANGED <<cards, reviews, plannedAt>>

\* undoLastReview
UndoLastReview ==
    IF Undoable # {} THEN UndoReview(Max(Undoable)) ELSE UNCHANGED <<cards, reviews, plannedAt>>

\* undo: the page goes back to its last answer.
Undo ==
    /\ page.open /\ page.answered # <<>>
    /\ UndoLastReview
    /\ page' = [page EXCEPT !.index = Last(page.answered), !.answered = Front(@)]
    /\ UNCHANGED <<now, changes, place, session>>

\* A synchronization brings a review made elsewhere, with the card it led to;
\* reviews of a card in the trash here are left out.
ReceiveReview ==
    \E c \in Cards, rating \in {"again", "easy"} :
        /\ Present(c)
        /\ Cardinality({i \in DOMAIN reviews : reviews[i].device # "own"}) < MaxReceived
        /\ Entangled \/ \A i \in Undoable : reviews[i].card # c
        /\ Log(Event("review", c, rating, IF Recognized THEN "other" ELSE "shared",
                     FALSE, 0, SiblingChanges(c, TRUE)))
        /\ cards' = CardsAfter(c, Append(cards[c].history, [rating |-> rating, at |-> now]), TRUE)
        /\ Replans
        /\ UNCHANGED <<now, changes, place, session, page>>

-----------------------------------------------------------------------------
(* The library *)

ChangeCard(c, card) ==
    /\ ~page.open /\ Present(c)
    /\ cards' = [cards EXCEPT ![c] = card]
    /\ Replans
    /\ Bounded /\ changes' = changes + 1
    /\ UNCHANGED <<now, place, reviews, session, page>>

ToggleSuspend == \E c \in Cards : ChangeCard(c, [cards[c] EXCEPT !.suspended = ~@])

\* setCardsBuried(TRUE); the user does not unbury.
Bury == \E c \in Cards : ChangeCard(c, [cards[c] EXCEPT !.buriedUntil = NextDay(now)])

Move(n, from, to) ==
    /\ ~page.open /\ place[n] \in from
    /\ place' = [place EXCEPT ![n] = to]
    /\ Replans
    /\ Bounded /\ changes' = changes + 1
    /\ UNCHANGED <<now, cards, reviews, session, page>>

DeleteItem == \E n \in Notes : Move(n, {"library", "restored"}, "trash")
RestoreItem == \E n \in Notes : Move(n, {"trash"}, "restored")
PurgeItem == \E n \in Notes : Move(n, {"trash"}, "purged")

Next ==
    \/ TimePasses \/ Reopen
    \/ StartSession \/ StartCustomSession \/ EndSession \/ Leave \/ Return
    \/ Grade \/ Undo \/ ReceiveReview
    \/ ToggleSuspend \/ Bury \/ DeleteItem \/ RestoreItem \/ PurgeItem

Spec == Init /\ [][Next]_vars

-----------------------------------------------------------------------------
(* Properties *)

\* Times, reviews and the page are within bounds; a page shows a session, and a
\* session offers no card twice.
StudyTypeOK ==
    /\ now \in 0 .. MaxTime
    /\ plannedAt \in 0 .. now
    /\ \A c \in Cards :
          /\ cards[c].buriedUntil \in 0 .. NextDay(MaxTime)
          /\ cards[c].suspended \in BOOLEAN
    /\ \A n \in Notes : place[n] \in {"library", "restored", "trash", "purged"}
    /\ Len(reviews) + changes <= MaxSteps
    /\ IsInjective(session.queue)
    /\ session.kind \in {"none", "planned", "custom"}
    /\ page.open => session # NoSession
    /\ page.index \in 1 .. Len(session.queue) + 1

\* The reviews that count: not reversed, and not previews.
Surviving(i) == reviews[i].kind = "review" /\ i \notin Reversed

\* What the surviving ones of the first n reviews say of a card, in their order.
Told(c, n) ==
    LET told[i \in 0 .. n] ==
            IF i = 0 THEN <<>>
            ELSE IF reviews[i].card = c /\ Surviving(i)
                 THEN Append(told[i - 1], [rating |-> reviews[i].rating, at |-> reviews[i].at])
                 ELSE told[i - 1]
    IN  told[n]

\* What the scheduler knows of a card is what its surviving reviews say, whatever
\* was answered, undone, deleted, restored or received between.
ScheduleIsHistory == \A c \in Cards : cards[c].history = Told(c, Len(reviews))

\* The state has its types, and the schedule of every card is its history.
StudyInv == StudyTypeOK /\ ScheduleIsHistory

\* An undo takes back the answer the page returns to: the newest one given since
\* the page was mounted.
UndoFollowsPage ==
    [][Undo => \E i \in DOMAIN reviews :
            /\ i \in Reversed' \ Reversed
            /\ reviews[i].card = session.queue[page'.index]
            /\ reviews[i].device = "own"]_vars

Own(day) == {i \in DOMAIN reviews :
                reviews[i].planned /\ Surviving(i) /\ Day(reviews[i].at) = day}

\* However sessions are broken off, resumed, undone and carried over midnight, no
\* more new cards are studied from plans in a day than the preset allows.  (The
\* planner does not count cards that have been in the trash.)
NewLimitHonoured ==
    \A day \in 0 .. Day(now) :
        Cardinality({i \in Own(day) : reviews[i].prev.history = <<>>
                                      /\ place[NoteOf[reviews[i].card]] = "library"}) <= NewLimit

\* Two cards of one note are not answered on the same day in planned sessions.
SiblingsApart ==
    BurySiblings =>
    \A day \in 0 .. Day(now) : \A i, j \in Own(day) :
        NoteOf[reviews[i].card] = NoteOf[reviews[j].card] => reviews[i].card = reviews[j].card

StudyAsPlanned == NewLimitHonoured /\ SiblingsApart

=============================================================================
