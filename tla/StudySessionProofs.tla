------------------------- MODULE StudySessionProofs -------------------------
(***************************************************************************)
(* Theorems about StudySession: the schedule of a card is the history of   *)
(* its surviving reviews, an undo takes back the answer the page returns   *)
(* to, and the sessions of a day keep its limit of new cards and the cards *)
(* of a note apart.                                                        *)
(***************************************************************************)
EXTENDS StudySession, FiniteSetTheorems, SequenceTheorems, WellFoundedInduction, TLAPS

Ratings == {"again", "easy"}
Histories == Seq([rating : Ratings, at : Nat])
CardStates == [history : Histories, buriedUntil : Nat, suspended : BOOLEAN]
Burials == UNION {[S -> Nat] : S \in SUBSET Cards}
Events ==
    [kind : {"review", "preview", "reversal"}, card : Cards, rating : Ratings, at : Nat,
     device : {"own", "other", "shared"}, reverses : Nat, prev : CardStates,
     siblings : Burials, planned : BOOLEAN]
Places == {"library", "restored", "trash", "purged"}

-----------------------------------------------------------------------------
(* The inductive invariant *)

SessionType ==
    /\ session \in [kind : {"none", "planned", "custom"}, reschedule : BOOLEAN,
                    queue : Seq(Cards), since : Nat]
    /\ session.kind = "none" => session = NoSession
    /\ session.kind = "planned" => session.reschedule
    /\ session.since <= now
    /\ IsInjective(session.queue)

PageType ==
    /\ page \in [open : BOOLEAN, index : Nat, answered : Seq(Nat)]
    /\ page.index \in 1 .. Len(session.queue) + 1
    /\ page.open => session.kind # "none"
    /\ \A k \in 1 .. Len(page.answered) : page.answered[k] \in 1 .. Len(session.queue)
    /\ page.answered = <<>> => page.index = 1
    /\ page.answered # <<>> => page.answered[1] = 1
    /\ ~page.open => page.answered = <<>>

TypeInv ==
    /\ now \in 0 .. MaxTime /\ plannedAt \in 0 .. now
    /\ cards \in [Cards -> CardStates]
    /\ place \in [Notes -> Places]
    /\ reviews \in Seq(Events)
    /\ changes \in Nat /\ Len(reviews) + changes <= MaxSteps
    /\ SessionType /\ PageType

\* The log is in the order of time and undoes only what it holds.  The plan is not
\* older than the last of it.
LogInv ==
    \A i \in 1 .. Len(reviews) :
        /\ reviews[i].at <= plannedAt
        /\ reviews[i].reverses < i
        /\ \A j \in 1 .. i : reviews[j].at <= reviews[i].at
        /\ reviews[i].planned => reviews[i].kind = "review" /\ reviews[i].device = "own"
        /\ Recognized => reviews[i].device # "shared"

\* Nothing is or was buried for longer than until the next day.
BurialTimes ==
    /\ \A c \in Cards : cards[c].buriedUntil <= NextDay(now)
    /\ \A i \in 1 .. Len(reviews) :
          /\ reviews[i].prev.buriedUntil <= NextDay(reviews[i].at)
          /\ \A s \in DOMAIN reviews[i].siblings : reviews[i].siblings[s] <= NextDay(reviews[i].at)

\* Every review that can be undone knows the history before it, and nothing that
\* cannot be undone has come after it.
HistoryInv ==
    ~Entangled =>
        /\ ScheduleIsHistory
        /\ \A i \in Undoable :
              /\ reviews[i].prev.history = Told(reviews[i].card, i - 1)
              /\ \A j \in 1 .. Len(reviews) :
                    j > i /\ reviews[j].card = reviews[i].card /\ Surviving(j) => j \in Undoable

\* The reviews the page has made since it was mounted, in the order of its answers.
Answers ==
    {e \in [1 .. Len(page.answered) -> 1 .. Len(reviews)] :
        /\ \A k, l \in 1 .. Len(page.answered) : k < l => e[k] < e[l]
        /\ \A k \in 1 .. Len(page.answered) :
              /\ e[k] \in Undoable
              /\ reviews[e[k]].card = session.queue[page.answered[k]]
              /\ Present(reviews[e[k]].card)
              /\ reviews[e[k]].at >= session.since
              /\ reviews[e[k]].planned = (session.kind = "planned")
              /\ \A i \in Undoable : i > e[k] => \E l \in 1 .. Len(page.answered) : i = e[l]}

PageInv == Recognized => Answers # {}

\* Cards of the same note.
Mates(c) == {s \in Cards \ {c} : NoteOf[s] = NoteOf[c]}

\* The siblings of a card studied today are buried, and an undo of what came later
\* does not unbury them.
BurialInv ==
    BurySiblings /\ Recognized =>
        /\ \A i \in Own(Day(now)) : \A s \in Mates(reviews[i].card) :
              cards[s].buriedUntil >= NextDay(now)
        /\ \A m \in Undoable : \A i \in Own(Day(reviews[m].at)) : i < m =>
              \A s \in Mates(reviews[i].card) :
                  /\ s = reviews[m].card => reviews[m].prev.buriedUntil >= NextDay(reviews[m].at)
                  /\ s \in DOMAIN reviews[m].siblings =>
                        reviews[m].siblings[s] >= NextDay(reviews[m].at)

\* The card on the page is not a sibling of one studied today, nor the first card of
\* the session of one studied on the day it began.
SeatInv ==
    BurySiblings /\ Recognized /\ ~Overnight /\ session.kind = "planned" =>
        /\ page.open /\ page.index <= Len(session.queue) =>
              \A i \in Own(Day(now)) : session.queue[page.index] \notin Mates(reviews[i].card)
        /\ session.queue # <<>> =>
              \A i \in Own(Day(session.since)) : session.queue[1] \notin Mates(reviews[i].card)

ApartInv == BurySiblings /\ Recognized /\ ~Overnight => SiblingsApart

\* New cards of the library studied on a day.
Introduced(day) ==
    {i \in Own(day) : reviews[i].prev.history = <<>> /\ place[NoteOf[reviews[i].card]] = "library"}

IntroducedOnce ==
    \A day \in Nat : \A i, j \in Introduced(day) : reviews[i].card = reviews[j].card => i = j

\* The new cards of a session and the others that were introduced today keep the
\* limit together.
Room(new) ==
    \E before \in SUBSET Introduced(Day(now)) :
        /\ Cardinality(before) + Cardinality(new) <= NewLimit
        /\ \A i \in Introduced(Day(now)) \ before : reviews[i].card \in new

\* The cards of the session that are new, or are again after an undo.
NewOnes(new) ==
    /\ \A k \in 1 .. Len(session.queue) :
          session.queue[k] \notin new => cards[session.queue[k]].history # <<>>
    /\ \E e \in Answers : \A k \in 1 .. Len(page.answered) :
          reviews[e[k]].prev.history = <<>> => reviews[e[k]].card \in new
    /\ Room(new)

LimitInv ==
    Recognized /\ ~Entangled =>
        /\ IntroducedOnce
        /\ NewLimitHonoured
        /\ session.kind = "planned" => \E new \in SUBSET Cards : NewOnes(new)

StudyOrder ==
    /\ TypeInv /\ LogInv /\ BurialTimes
    /\ HistoryInv /\ PageInv
    /\ BurialInv /\ SeatInv /\ ApartInv
    /\ LimitInv

-----------------------------------------------------------------------------
(* Induction as a fact about sets, which first-order provers can use: the  *)
(* theorems of NaturalsInduction quantify over predicates, those of        *)
(* WellFoundedInduction about relations do not.                            *)

Less == {p \in Nat \X Nat : p[1] < p[2]}

\* Every set of naturals has a least element.
LEMMA LeastNatural ==
    ASSUME NEW T, T \subseteq Nat, T # {}
    PROVE  \E m \in T : \A n \in T : m <= n
<1>1. IsWellFoundedOn(Less, Nat)
  BY NatLessThanWellFounded DEF OpToRel, Less
<1>2. PICK m \in T : \A n \in T : <<n, m>> \notin Less
  BY <1>1, WFMin
<1>3. ASSUME NEW n \in T PROVE m <= n
  <2>1. m \in Nat /\ n \in Nat
    OBVIOUS
  <2>2. ~(n < m)
    BY <1>2, <2>1 DEF Less
  <2> QED
    BY <2>1, <2>2
<1> QED
  BY <1>3

\* Induction: a set with 0 that is closed under successors up to a bound holds
\* everything up to the bound.
LEMMA BoundedInduction ==
    ASSUME NEW T, NEW bound \in Nat, 0 \in T,
           \A n \in 0 .. bound : n < bound /\ n \in T => n + 1 \in T
    PROVE  0 .. bound \subseteq T
<1> SUFFICES ASSUME (0 .. bound) \ T # {} PROVE FALSE
  OBVIOUS
<1>1. PICK m \in (0 .. bound) \ T : \A n \in (0 .. bound) \ T : m <= n
  <2>1. (0 .. bound) \ T \subseteq Nat
    OBVIOUS
  <2> QED
    BY <2>1, LeastNatural
<1>2. m # 0 /\ m - 1 \in 0 .. bound /\ m - 1 < bound
  OBVIOUS
<1>3. m - 1 \in T
  BY <1>1, <1>2
<1>4. (m - 1) + 1 \in T
  BY <1>2, <1>3
<1> QED
  BY <1>4

\* A set of naturals with an upper bound has a greatest element.
LEMMA GreatestNatural ==
    ASSUME NEW T, T \subseteq Nat, T # {}, NEW bound \in Nat, \A n \in T : n <= bound
    PROVE  \E m \in T : \A n \in T : m >= n
<1> DEFINE distances == {bound - n : n \in T}
<1>1. distances \subseteq Nat /\ distances # {}
  <2>1. ASSUME NEW n \in T PROVE bound - n \in Nat
    <3>1. n \in Nat /\ n <= bound
      OBVIOUS
    <3> QED
      BY <3>1
  <2> QED
    BY <2>1
<1>2. PICK d \in distances : \A e \in distances : d <= e
  BY <1>1, LeastNatural
<1>3. PICK m \in T : d = bound - m
  OBVIOUS
<1>4. ASSUME NEW n \in T PROVE m >= n
  <2>1. bound - m <= bound - n
    BY <1>2, <1>3
  <2> QED
    BY <2>1
<1> QED
  BY <1>4

-----------------------------------------------------------------------------
(* Days *)

\* A day has a first moment, and so has the next one.
LEMMA DayShape ==
    ASSUME NEW t \in Nat
    PROVE  /\ Day(t) \in Nat
           /\ Day(t) * DayLength <= t /\ t < (Day(t) + 1) * DayLength
<1>1. PICK L \in Nat \ {0} : L = DayLength
  BY TimeAssumption
<1>2. t \div L \in Nat /\ (t \div L) * L <= t /\ t < (t \div L + 1) * L
  BY SMT
<1> QED
  BY <1>1, <1>2 DEF Day

\* The next day comes later.
LEMMA NextDayIsLater ==
    ASSUME NEW t \in Nat
    PROVE  NextDay(t) \in Nat /\ t < NextDay(t)
<1>1. PICK L \in Nat \ {0} : L = DayLength
  BY TimeAssumption
<1>2. PICK d \in Nat : d = Day(t) /\ t < (d + 1) * L
  BY <1>1, DayShape
<1>3. (d + 1) * L \in Nat
  BY SMT
<1> QED
  BY <1>1, <1>2, <1>3 DEF NextDay

\* Later moments have no earlier days.
LEMMA DaysAreOrdered ==
    ASSUME NEW t \in Nat, NEW u \in Nat, t <= u
    PROVE  Day(t) <= Day(u) /\ NextDay(t) <= NextDay(u)
<1>1. PICK L \in Nat \ {0} : L = DayLength
  BY TimeAssumption
<1>2. PICK d \in Nat : d = Day(t) /\ d * L <= t
  BY <1>1, DayShape
<1>3. PICK e \in Nat : e = Day(u) /\ u < (e + 1) * L
  BY <1>1, DayShape
<1>4. d <= e
  <2> SUFFICES ASSUME e + 1 <= d PROVE FALSE
    BY <1>2, <1>3
  <2>1. PICK k \in Nat : d = (e + 1) + k
    <3>1. d - (e + 1) \in Nat /\ d = (e + 1) + (d - (e + 1))
      OBVIOUS
    <3> QED
      BY <3>1
  <2>2. d * L = (e + 1) * L + k * L /\ k * L >= 0 /\ (e + 1) * L \in Nat /\ d * L \in Nat /\ k * L \in Nat
    BY <2>1
  <2> QED
    BY <1>2, <1>3, <2>2
<1>5. (d + 1) * L <= (e + 1) * L
  <2>1. PICK k \in Nat : e = d + k
    <3>1. e - d \in Nat /\ e = d + (e - d)
      BY <1>4
    <3> QED
      BY <3>1
  <2>2. (e + 1) * L = (d + 1) * L + k * L /\ k * L >= 0 /\ (d + 1) * L \in Nat /\ k * L \in Nat
    BY <2>1
  <2> QED
    BY <2>2
<1> QED
  BY <1>1, <1>2, <1>3, <1>4, <1>5 DEF NextDay

-----------------------------------------------------------------------------
(* What a log says of a card *)

\* The review i of the log counts for the card c.
Counts(log, gone, c, i) == log[i].card = c /\ log[i].kind = "review" /\ i \notin gone

Entry(log, i) == [rating |-> log[i].rating, at |-> log[i].at]

\* f gives what the log says of c up to each of its first n entries.
Recites(f, log, gone, c, n) ==
    f = [i \in 0 .. n |->
            IF i = 0 THEN <<>>
            ELSE IF Counts(log, gone, c, i) THEN Append(f[i - 1], Entry(log, i)) ELSE f[i - 1]]

Recited(log, gone, c, n) == (CHOOSE f : Recites(f, log, gone, c, n))[n]

\* There is such a table.
LEMMA RecitalExists ==
    ASSUME NEW log, NEW gone, NEW c, NEW bound \in Nat
    PROVE  \E f : Recites(f, log, gone, c, bound)
<1> DEFINE T == {n \in 0 .. bound : \E f : Recites(f, log, gone, c, n)}
<1>1. 0 \in T
  <2> DEFINE f == [n \in 0 .. 0 |-> <<>>]
  <2>1. Recites(f, log, gone, c, 0)
    BY DEF Recites
  <2> QED
    BY <2>1
<1>2. \A n \in 0 .. bound : n < bound /\ n \in T => n + 1 \in T
  <2> SUFFICES ASSUME NEW n \in 0 .. bound, n < bound, NEW f, Recites(f, log, gone, c, n)
               PROVE  \E g : Recites(g, log, gone, c, n + 1)
    OBVIOUS
  <2>1. PICK g : g = [k \in 0 .. n + 1 |->
            IF k = n + 1
            THEN IF Counts(log, gone, c, n + 1) THEN Append(f[n], Entry(log, n + 1)) ELSE f[n]
            ELSE f[k]]
    OBVIOUS
  <2>2. ASSUME NEW k \in 0 .. n + 1
        PROVE  g[k] = IF k = 0 THEN <<>>
                      ELSE IF Counts(log, gone, c, k) THEN Append(g[k - 1], Entry(log, k)) ELSE g[k - 1]
    <3>1. CASE k = n + 1
      BY <2>1, <3>1
    <3>2. CASE k # n + 1
      <4>1. k \in 0 .. n /\ g[k] = f[k] /\ (k # 0 => k - 1 \in 0 .. n /\ g[k - 1] = f[k - 1])
        BY <2>1, <3>2
      <4> QED
        BY <4>1 DEF Recites
    <3> QED
      BY <3>1, <3>2
  <2>3. Recites(g, log, gone, c, n + 1)
    BY <2>1, <2>2 DEF Recites
  <2> QED
    BY <2>3
<1>3. bound \in T
  <2> HIDE DEF T
  <2>1. 0 .. bound \subseteq T
    BY <1>1, <1>2, BoundedInduction
  <2> QED
    BY <2>1
<1> QED
  BY <1>3

\* Two logs that say the same entry by entry have tables that agree as far as both go.
LEMMA RecitalsAgree ==
    ASSUME NEW log, NEW gone, NEW other, NEW lost, NEW c,
           NEW n \in Nat, NEW m \in Nat, NEW f, NEW g, NEW bound \in 0 .. n, bound <= m,
           Recites(f, log, gone, c, n), Recites(g, other, lost, c, m),
           \A i \in 1 .. bound :
              /\ Counts(log, gone, c, i) <=> Counts(other, lost, c, i)
              /\ Counts(log, gone, c, i) => Entry(log, i) = Entry(other, i)
    PROVE  f[bound] = g[bound]
<1> DEFINE T == {k \in 0 .. bound : f[k] = g[k]}
<1>1. 0 \in T
  BY DEF Recites
<1>2. \A k \in 0 .. bound : k < bound /\ k \in T => k + 1 \in T
  <2> SUFFICES ASSUME NEW k \in 0 .. bound, k < bound, f[k] = g[k]
               PROVE  f[k + 1] = g[k + 1]
    OBVIOUS
  <2>1. k + 1 \in 0 .. n /\ k + 1 \in 0 .. m /\ k + 1 \in 1 .. bound /\ k + 1 # 0 /\ (k + 1) - 1 = k
    OBVIOUS
  <2>2. f[k + 1] = IF Counts(log, gone, c, k + 1) THEN Append(f[k], Entry(log, k + 1)) ELSE f[k]
    BY <2>1 DEF Recites
  <2>3. g[k + 1] = IF Counts(other, lost, c, k + 1) THEN Append(g[k], Entry(other, k + 1)) ELSE g[k]
    BY <2>1 DEF Recites
  <2> QED
    BY <2>1, <2>2, <2>3
<1>3. bound \in T
  <2> HIDE DEF T
  <2>1. 0 .. bound \subseteq T
    BY <1>1, <1>2, BoundedInduction
  <2> QED
    BY <2>1
<1> QED
  BY <1>3

\* What a log says depends on its entries so far.
LEMMA RecitedAgrees ==
    ASSUME NEW log, NEW gone, NEW other, NEW lost, NEW c, NEW n \in Nat,
           \A i \in 1 .. n :
              /\ Counts(log, gone, c, i) <=> Counts(other, lost, c, i)
              /\ Counts(log, gone, c, i) => Entry(log, i) = Entry(other, i)
    PROVE  Recited(log, gone, c, n) = Recited(other, lost, c, n)
<1>1. Recites(CHOOSE f : Recites(f, log, gone, c, n), log, gone, c, n)
  BY RecitalExists
<1>2. Recites(CHOOSE f : Recites(f, other, lost, c, n), other, lost, c, n)
  BY RecitalExists
<1>3. n \in 0 .. n /\ n <= n
  OBVIOUS
<1> QED
  BY <1>1, <1>2, <1>3, RecitalsAgree DEF Recited

\* Before its first entry a log says nothing.
LEMMA RecitedStarts ==
    ASSUME NEW log, NEW gone, NEW c PROVE Recited(log, gone, c, 0) = <<>>
<1>1. Recites(CHOOSE f : Recites(f, log, gone, c, 0), log, gone, c, 0)
  BY RecitalExists
<1> QED
  BY <1>1 DEF Recited, Recites

\* An entry that counts comes last, another one says nothing.
LEMMA RecitedGrows ==
    ASSUME NEW log, NEW gone, NEW c, NEW n \in Nat
    PROVE  Recited(log, gone, c, n + 1) =
              IF Counts(log, gone, c, n + 1)
              THEN Append(Recited(log, gone, c, n), Entry(log, n + 1))
              ELSE Recited(log, gone, c, n)
<1> DEFINE f == CHOOSE h : Recites(h, log, gone, c, n)
           g == CHOOSE h : Recites(h, log, gone, c, n + 1)
<1>1. Recites(f, log, gone, c, n)
  BY RecitalExists
<1>2. n + 1 \in Nat
  OBVIOUS
<1>3. Recites(g, log, gone, c, n + 1)
  BY <1>2, RecitalExists
<1>4. Recited(log, gone, c, n) = f[n] /\ Recited(log, gone, c, n + 1) = g[n + 1]
  BY DEF Recited
<1> HIDE DEF f, g
<1>5. n \in 0 .. n /\ n <= n + 1
  OBVIOUS
<1>6. f[n] = g[n]
  BY <1>1, <1>2, <1>3, <1>5, RecitalsAgree
<1>7. n + 1 \in 0 .. n + 1 /\ n + 1 # 0 /\ (n + 1) - 1 = n
  OBVIOUS
<1>8. g[n + 1] = IF Counts(log, gone, c, n + 1) THEN Append(g[n], Entry(log, n + 1)) ELSE g[n]
  BY <1>3, <1>7 DEF Recites
<1> QED
  BY <1>4, <1>6, <1>8

\* What a log says of a card is a history.
LEMMA RecitedIsHistory ==
    ASSUME NEW log \in Seq(Events), NEW gone, NEW c, NEW n \in 0 .. Len(log)
    PROVE  Recited(log, gone, c, n) \in Histories
<1> DEFINE T == {k \in 0 .. n : Recited(log, gone, c, k) \in Histories}
<1>1. 0 \in T
  <2>1. <<>> \in Histories /\ 0 \in 0 .. n
    BY DEF Histories
  <2> QED
    BY <2>1, RecitedStarts
<1>2. \A k \in 0 .. n : k < n /\ k \in T => k + 1 \in T
  <2> SUFFICES ASSUME NEW k \in 0 .. n, k < n, Recited(log, gone, c, k) \in Histories
               PROVE  k + 1 \in 0 .. n /\ Recited(log, gone, c, k + 1) \in Histories
    OBVIOUS
  <2>1. k \in Nat /\ k + 1 \in 0 .. n /\ k + 1 \in 1 .. Len(log)
    OBVIOUS
  <2>2. PICK event \in Events : event = log[k + 1]
    BY <2>1
  <2>3. Entry(log, k + 1) \in [rating : Ratings, at : Nat]
    BY <2>2 DEF Entry, Events
  <2>4. Append(Recited(log, gone, c, k), Entry(log, k + 1)) \in Histories
    BY <2>3 DEF Histories
  <2> QED
    BY <2>1, <2>4, RecitedGrows
<1>3. n \in T
  <2> HIDE DEF T
  <2>1. n \in Nat /\ n \in 0 .. n
    OBVIOUS
  <2>2. 0 .. n \subseteq T
    BY <1>1, <1>2, <2>1, BoundedInduction
  <2> QED
    BY <2>1, <2>2
<1> QED
  BY <1>3

\* Where nothing counts any more a log says nothing new.
LEMMA RecitedStays ==
    ASSUME NEW log, NEW gone, NEW c, NEW n \in Nat, NEW m \in Nat, n <= m,
           \A i \in n + 1 .. m : ~Counts(log, gone, c, i)
    PROVE  Recited(log, gone, c, m) = Recited(log, gone, c, n)
<1> DEFINE T == {k \in 0 .. m - n : Recited(log, gone, c, n + k) = Recited(log, gone, c, n)}
<1>1. m - n \in Nat /\ m - n \in 0 .. m - n /\ 0 \in 0 .. m - n /\ n + 0 = n /\ n + (m - n) = m
  OBVIOUS
<1>2. 0 \in T
  BY <1>1
<1>3. \A k \in 0 .. m - n : k < m - n /\ k \in T => k + 1 \in T
  <2> SUFFICES ASSUME NEW k \in 0 .. m - n, k < m - n,
                      Recited(log, gone, c, n + k) = Recited(log, gone, c, n)
               PROVE  k + 1 \in 0 .. m - n /\ Recited(log, gone, c, n + (k + 1)) = Recited(log, gone, c, n)
    OBVIOUS
  <2>1. k + 1 \in 0 .. m - n /\ n + k \in Nat /\ n + (k + 1) = (n + k) + 1 /\ (n + k) + 1 \in n + 1 .. m
    OBVIOUS
  <2> QED
    BY <2>1, RecitedGrows
<1>4. m - n \in T
  <2> HIDE DEF T
  <2>1. 0 .. m - n \subseteq T
    BY <1>1, <1>2, <1>3, BoundedInduction
  <2> QED
    BY <1>1, <2>1
<1> QED
  BY <1>1, <1>4

\* A log that says nothing of a card has nothing that counts for it.
LEMMA NothingRecited ==
    ASSUME NEW log \in Seq(Events), NEW gone, NEW c, NEW n \in 0 .. Len(log),
           Recited(log, gone, c, n) = <<>>, NEW i \in 1 .. n
    PROVE  ~Counts(log, gone, c, i)
<1> SUFFICES ASSUME Counts(log, gone, c, i) PROVE FALSE
  OBVIOUS
<1> DEFINE T == {k \in 0 .. n - i : Recited(log, gone, c, i + k) # <<>>}
<1>1. n - i \in Nat /\ n - i \in 0 .. n - i /\ 0 \in 0 .. n - i /\ i + 0 = i /\ i + (n - i) = n
  OBVIOUS
<1>2. ASSUME NEW k \in 1 .. n, Counts(log, gone, c, k) PROVE Recited(log, gone, c, k) # <<>>
  <2>1. k - 1 \in Nat /\ k - 1 \in 0 .. Len(log) /\ (k - 1) + 1 = k
    OBVIOUS
  <2>2. PICK h \in Histories : h = Recited(log, gone, c, k - 1)
    BY <2>1, RecitedIsHistory
  <2>3. Recited(log, gone, c, k) = Append(h, Entry(log, k))
    BY <1>2, <2>1, <2>2, RecitedGrows
  <2>4. Append(h, Entry(log, k)) # <<>>
    BY <2>2 DEF Histories
  <2> QED
    BY <2>3, <2>4
<1>3. 0 \in T
  BY <1>1, <1>2
<1>4. \A k \in 0 .. n - i : k < n - i /\ k \in T => k + 1 \in T
  <2> SUFFICES ASSUME NEW k \in 0 .. n - i, k < n - i, Recited(log, gone, c, i + k) # <<>>
               PROVE  k + 1 \in 0 .. n - i /\ Recited(log, gone, c, i + (k + 1)) # <<>>
    OBVIOUS
  <2>1. k + 1 \in 0 .. n - i /\ i + k \in Nat /\ i + (k + 1) = (i + k) + 1 /\ (i + k) + 1 \in 1 .. n
    OBVIOUS
  <2> QED
    BY <1>2, <2>1, RecitedGrows
<1>5. n - i \in T
  <2> HIDE DEF T
  <2>1. 0 .. n - i \subseteq T
    BY <1>1, <1>3, <1>4, BoundedInduction
  <2> QED
    BY <1>1, <2>1
<1> QED
  BY <1>1, <1>5

\* The log of the model, before and after a step.
LEMMA ToldIsRecited ==
    \A c, n : /\ Told(c, n) = Recited(reviews, Reversed, c, n)
              /\ Told(c, n)' = Recited(reviews', Reversed', c, n)
BY DEF Told, Recited, Recites, Counts, Entry, Surviving

-----------------------------------------------------------------------------
(* Sequences without repetition *)

Distinct(q) == \A i, j \in 1 .. Len(q) : q[i] = q[j] => i = j
Held(q) == {q[i] : i \in 1 .. Len(q)}

\* An empty sequence holds nothing.
LEMMA EmptyHolds == ASSUME NEW X PROVE <<>> \in Seq(X) /\ Distinct(<<>>) /\ Held(<<>>) = {}
BY DEF Distinct, Held

\* One more element.
LEMMA AppendHolds ==
    ASSUME NEW X, NEW q \in Seq(X), NEW x \in X
    PROVE  /\ Append(q, x) \in Seq(X)
           /\ Held(Append(q, x)) = Held(q) \cup {x}
           /\ Distinct(q) /\ x \notin Held(q) => Distinct(Append(q, x))
<1>1. /\ Append(q, x) \in Seq(X) /\ Len(q) \in Nat /\ Len(Append(q, x)) = Len(q) + 1
      /\ \A i \in 1 .. Len(q) : Append(q, x)[i] = q[i]
      /\ Append(q, x)[Len(q) + 1] = x
  OBVIOUS
<1>2. PICK n \in Nat : n = Len(q)
  BY <1>1
<1>3. PICK p : p = Append(q, x)
  OBVIOUS
<1>4. Held(p) = Held(q) \cup {x}
  <2>1. \A y : y \in Held(p) => y \in Held(q) \cup {x}
    BY <1>1, <1>2, <1>3 DEF Held
  <2>2. \A y : y \in Held(q) \cup {x} => y \in Held(p)
    BY <1>1, <1>2, <1>3 DEF Held
  <2> QED
    BY <2>1, <2>2
<1>5. ASSUME Distinct(q), x \notin Held(q) PROVE Distinct(p)
  BY <1>1, <1>2, <1>3, <1>5 DEF Distinct, Held
<1> QED
  BY <1>1, <1>3, <1>4, <1>5

\* One after the other.
LEMMA ConcatHolds ==
    ASSUME NEW X, NEW q \in Seq(X), NEW r \in Seq(X)
    PROVE  /\ q \o r \in Seq(X)
           /\ Held(q \o r) = Held(q) \cup Held(r)
           /\ Distinct(q) /\ Distinct(r) /\ Held(q) \cap Held(r) = {} => Distinct(q \o r)
<1>1. /\ q \o r \in Seq(X) /\ Len(q) \in Nat /\ Len(r) \in Nat /\ Len(q \o r) = Len(q) + Len(r)
      /\ \A i \in 1 .. Len(q) + Len(r) : (q \o r)[i] = IF i <= Len(q) THEN q[i] ELSE r[i - Len(q)]
  OBVIOUS
<1>2. PICK n \in Nat, m \in Nat : n = Len(q) /\ m = Len(r)
  BY <1>1
<1>3. PICK p : p = q \o r
  OBVIOUS
<1>4. /\ Len(p) = n + m
      /\ \A i \in 1 .. n : p[i] = q[i]
      /\ \A i \in 1 .. m : p[n + i] = r[i]
  BY <1>1, <1>2, <1>3
<1>5. \A i \in 1 .. n + m : i \in 1 .. n \/ \E j \in 1 .. m : i = n + j
  <2> TAKE i \in 1 .. n + m
  <2>1. CASE i <= n
    BY <2>1
  <2>2. CASE ~(i <= n)
    <3>1. i - n \in 1 .. m /\ i = n + (i - n)
      BY <2>2
    <3> QED
      BY <3>1
  <2> QED
    BY <2>1, <2>2
<1>6. Held(p) = Held(q) \cup Held(r)
  <2>1. \A y : y \in Held(p) => y \in Held(q) \cup Held(r)
    BY <1>2, <1>4, <1>5 DEF Held
  <2>2. \A y : y \in Held(q) => y \in Held(p)
    BY <1>2, <1>4 DEF Held
  <2>3. \A y : y \in Held(r) => y \in Held(p)
    <3>1. \A i \in 1 .. m : n + i \in 1 .. n + m
      OBVIOUS
    <3> QED
      BY <1>2, <1>4, <3>1 DEF Held
  <2> QED
    BY <2>1, <2>2, <2>3
<1>7. ASSUME Distinct(q), Distinct(r), Held(q) \cap Held(r) = {} PROVE Distinct(p)
  <2> SUFFICES ASSUME NEW i \in 1 .. n + m, NEW j \in 1 .. n + m, p[i] = p[j] PROVE i = j
    BY <1>4 DEF Distinct
  <2>1. CASE i \in 1 .. n /\ j \in 1 .. n
    BY <1>2, <1>4, <1>7, <2>1 DEF Distinct
  <2>2. CASE i \notin 1 .. n /\ j \notin 1 .. n
    <3>1. PICK k \in 1 .. m : i = n + k
      BY <1>5, <2>2
    <3>2. PICK l \in 1 .. m : j = n + l
      BY <1>5, <2>2
    <3>3. r[k] = r[l]
      BY <1>4, <3>1, <3>2
    <3>4. k = l
      BY <1>2, <1>7, <3>3 DEF Distinct
    <3> QED
      BY <3>1, <3>2, <3>4
  <2>3. ASSUME NEW a \in 1 .. n, NEW b \in (1 .. n + m) \ (1 .. n), p[a] = p[b] PROVE FALSE
    <3>1. PICK k \in 1 .. m : b = n + k
      BY <1>5
    <3>2. q[a] = r[k]
      BY <1>4, <2>3, <3>1
    <3>3. q[a] \in Held(q) /\ r[k] \in Held(r)
      BY <1>2 DEF Held
    <3> QED
      BY <1>7, <3>2, <3>3
  <2> QED
    BY <2>1, <2>2, <2>3
<1> QED
  BY <1>1, <1>3, <1>6, <1>7

\* An element less.
LEMMA RemoveHolds ==
    ASSUME NEW X, NEW q \in Seq(X), NEW k \in 1 .. Len(q)
    PROVE  /\ RemoveAt(q, k) \in Seq(X) /\ Len(RemoveAt(q, k)) = Len(q) - 1
           /\ Held(RemoveAt(q, k)) \subseteq Held(q)
           /\ q[k] \in Held(q)
           /\ Distinct(q) => Distinct(RemoveAt(q, k)) /\ q[k] \notin Held(RemoveAt(q, k))
<1>1. PICK n \in Nat : n = Len(q)
  OBVIOUS
<1>2. PICK a, b : a = SubSeq(q, 1, k - 1) /\ b = SubSeq(q, k + 1, n)
  OBVIOUS
<1>3. a \in Seq(X) /\ Len(a) = k - 1 /\ \A i \in 1 .. k - 1 : a[i] = q[i]
  BY <1>1, <1>2
<1>4. b \in Seq(X) /\ Len(b) = n - k /\ \A i \in 1 .. n - k : b[i] = q[k + i]
  BY <1>1, <1>2
<1>5. RemoveAt(q, k) = a \o b
  BY <1>1, <1>2 DEF RemoveAt
<1>6. Held(a) \subseteq Held(q) /\ Held(b) \subseteq Held(q)
  <2>1. \A i \in 1 .. k - 1 : i \in 1 .. n
    BY <1>1
  <2>2. \A i \in 1 .. n - k : k + i \in 1 .. n
    BY <1>1
  <2> QED
    BY <1>1, <1>3, <1>4, <2>1, <2>2 DEF Held
<1>7. ASSUME Distinct(q)
      PROVE  Distinct(a) /\ Distinct(b) /\ Held(a) \cap Held(b) = {} /\ q[k] \notin Held(a) \cup Held(b)
  <2>1. \A i, j \in 1 .. n : q[i] = q[j] => i = j
    BY <1>1, <1>7 DEF Distinct
  <2>2. Distinct(a)
    BY <1>1, <1>3, <2>1 DEF Distinct
  <2>3. Distinct(b)
    <3>1. \A i \in 1 .. n - k : k + i \in 1 .. n
      BY <1>1
    <3>2. \A i, j \in 1 .. n - k : b[i] = b[j] => k + i = k + j
      BY <1>4, <2>1, <3>1
    <3>3. \A i, j \in 1 .. n - k : k + i = k + j => i = j
      BY <1>1
    <3> QED
      BY <1>4, <3>2, <3>3 DEF Distinct
  <2>4. Held(a) \cap Held(b) = {}
    <3> SUFFICES ASSUME NEW i \in 1 .. k - 1, NEW j \in 1 .. n - k, a[i] = b[j] PROVE FALSE
      BY <1>3, <1>4 DEF Held
    <3>1. i \in 1 .. n /\ k + j \in 1 .. n /\ i # k + j
      BY <1>1
    <3> QED
      BY <1>3, <1>4, <2>1, <3>1
  <2>5. q[k] \notin Held(a) \cup Held(b)
    <3>1. \A i \in 1 .. k - 1 : i \in 1 .. n /\ i # k
      BY <1>1
    <3>2. \A i \in 1 .. n - k : k + i \in 1 .. n /\ k + i # k
      BY <1>1
    <3>3. k \in 1 .. n
      BY <1>1
    <3> QED
      BY <1>3, <1>4, <2>1, <3>1, <3>2, <3>3 DEF Held
  <2> QED
    BY <2>2, <2>3, <2>4, <2>5
<1>8. /\ a \o b \in Seq(X) /\ Held(a \o b) = Held(a) \cup Held(b)
      /\ Distinct(a) /\ Distinct(b) /\ Held(a) \cap Held(b) = {} => Distinct(a \o b)
  BY <1>3, <1>4, ConcatHolds
<1>9. Len(a \o b) = n - 1
  <2>1. Len(a \o b) = Len(a) + Len(b)
    BY <1>3, <1>4, ConcatProperties
  <2> QED
    BY <1>1, <1>3, <1>4, <2>1
<1>10. q[k] \in Held(q)
  BY DEF Held
<1> QED
  BY <1>1, <1>5, <1>6, <1>7, <1>8, <1>9, <1>10

-----------------------------------------------------------------------------
(* Sorting *)

\* What R puts before x.
Below(S, R, x) == {y \in S : <<y, x>> \in R}

IsOrder(S, R) ==
    /\ \A x \in S : <<x, x>> \notin R
    /\ \A x, y, z \in S : <<x, y>> \in R /\ <<y, z>> \in R => <<x, z>> \in R
    /\ \A x, y \in S : x # y => <<x, y>> \in R \/ <<y, x>> \in R

\* In a finite total order there is an element for every rank.
LEMMA RankedExists ==
    ASSUME NEW S, IsFiniteSet(S), NEW R, IsOrder(S, R), NEW i \in 1 .. Cardinality(S)
    PROVE  \E x \in S : Cardinality(Below(S, R, x)) = i - 1
<1> DEFINE n == Cardinality(S)
           rank == [x \in S |-> Cardinality(Below(S, R, x))]
<1>1. n \in Nat
  BY FS_CardinalityType
<1>2. ASSUME NEW x \in S
      PROVE  IsFiniteSet(Below(S, R, x)) /\ Cardinality(Below(S, R, x)) \in 0 .. n - 1
  <2>1. Below(S, R, x) \in SUBSET (S \ {x})
    BY DEF Below, IsOrder
  <2>2. IsFiniteSet(S \ {x}) /\ Cardinality(S \ {x}) = n - 1
    BY FS_RemoveElement
  <2>3. IsFiniteSet(Below(S, R, x)) /\ Cardinality(Below(S, R, x)) <= n - 1
    BY <2>1, <2>2, FS_Subset
  <2>4. Cardinality(Below(S, R, x)) \in Nat
    BY <2>3, FS_CardinalityType
  <2> QED
    BY <1>1, <2>3, <2>4
<1>3. ASSUME NEW x \in S, NEW y \in S, <<x, y>> \in R
      PROVE  Cardinality(Below(S, R, x)) < Cardinality(Below(S, R, y))
  <2>1. Below(S, R, x) \in SUBSET (Below(S, R, y) \ {x})
    BY <1>3 DEF Below, IsOrder
  <2>2. x \in Below(S, R, y)
    BY <1>3 DEF Below
  <2>3. IsFiniteSet(Below(S, R, y) \ {x}) /\ Cardinality(Below(S, R, y) \ {x}) = Cardinality(Below(S, R, y)) - 1
    BY <1>2, <2>2, FS_RemoveElement
  <2>4. Cardinality(Below(S, R, x)) <= Cardinality(Below(S, R, y)) - 1
    BY <2>1, <2>3, FS_Subset
  <2>5. Cardinality(Below(S, R, x)) \in Nat /\ Cardinality(Below(S, R, y)) \in Nat
    BY <1>1, <1>2
  <2> QED
    BY <2>4, <2>5
<1>4. rank \in Injection(S, 0 .. n - 1)
  <2>1. rank \in [S -> 0 .. n - 1]
    BY <1>2
  <2>2. ASSUME NEW x \in S, NEW y \in S, rank[x] = rank[y] PROVE x = y
    <3> SUFFICES ASSUME x # y PROVE FALSE
      OBVIOUS
    <3>1. Cardinality(Below(S, R, x)) = Cardinality(Below(S, R, y))
      BY <2>2
    <3>2. Cardinality(Below(S, R, x)) \in Nat
      BY <1>1, <1>2
    <3>3. <<x, y>> \in R \/ <<y, x>> \in R
      BY DEF IsOrder
    <3> QED
      BY <1>3, <3>1, <3>2, <3>3
  <2> HIDE DEF rank
  <2> QED
    BY <2>1, <2>2 DEF Injection, IsInjective
<1>5. IsFiniteSet(0 .. n - 1) /\ Cardinality(0 .. n - 1) = n
  <2>1. 0 \in Int /\ n - 1 \in Int
    BY <1>1
  <2> QED
    BY <1>1, <2>1, FS_Interval
<1>6. rank \in Surjection(S, 0 .. n - 1)
  <2> HIDE DEF rank
  <2> QED
    BY <1>4, <1>5, FS_Injection
<1>7. i - 1 \in 0 .. n - 1
  BY <1>1
<1>8. PICK x \in S : rank[x] = i - 1
  BY <1>6, <1>7 DEF Surjection
<1> QED
  BY <1>8

\* So a sorted set is a sequence without repetition.
LEMMA SortedHolds ==
    ASSUME NEW S, IsFiniteSet(S), NEW R, IsOrder(S, R), NEW q,
           q = [i \in 1 .. Cardinality(S) |-> CHOOSE x \in S : Cardinality(Below(S, R, x)) = i - 1]
    PROVE  q \in Seq(S) /\ Len(q) = Cardinality(S) /\ Distinct(q)
<1>1. PICK n \in Nat : n = Cardinality(S)
  BY FS_CardinalityType
<1>2. ASSUME NEW i \in 1 .. n PROVE q[i] \in S /\ Cardinality(Below(S, R, q[i])) = i - 1
  BY <1>1, <1>2, RankedExists
<1>3. q \in [1 .. n -> S]
  BY <1>1, <1>2
<1>4. q \in Seq(S) /\ Len(q) = n
  <2>1. q \in Seq(S)
    BY <1>3, SeqDef
  <2>2. DOMAIN q = 1 .. Len(q) /\ Len(q) \in Nat
    BY <2>1, LenProperties
  <2>3. DOMAIN q = 1 .. n
    BY <1>3
  <2>4. \A k \in Nat : 1 .. k = 1 .. n => k = n
    <3> SUFFICES ASSUME NEW k \in Nat, 1 .. k = 1 .. n PROVE k = n
      OBVIOUS
    <3>1. k \in 1 .. n \/ k = 0
      OBVIOUS
    <3>2. n \in 1 .. k \/ n = 0
      OBVIOUS
    <3> QED
      BY <3>1, <3>2
  <2>5. Len(q) = n
    BY <2>2, <2>3, <2>4
  <2> QED
    BY <2>1, <2>5
<1>5. \A i, j \in 1 .. n : q[i] = q[j] => i - 1 = j - 1
  BY <1>2
<1>6. \A i, j \in 1 .. n : i - 1 = j - 1 => i = j
  OBVIOUS
<1> QED
  BY <1>1, <1>4, <1>5, <1>6 DEF Distinct

\* Cards and subjects in the order of their ranks.
LEMMA ByRankHolds ==
    ASSUME NEW S \in SUBSET Nat, IsFiniteSet(S)
    PROVE  ByRank(S) \in Seq(S) /\ Len(ByRank(S)) = Cardinality(S) /\ Distinct(ByRank(S))
<1>1. \A x, y \in S : <<x, y>> \in Less <=> x < y
  BY DEF Less
<1>2. IsOrder(S, Less)
  BY <1>1 DEF IsOrder
<1>3. ASSUME NEW x \in S PROVE Below(S, Less, x) = {y \in S : y < x}
  BY <1>1 DEF Below
<1>4. ByRank(S) = [i \in 1 .. Cardinality(S) |-> CHOOSE x \in S : Cardinality({y \in S : y < x}) = i - 1]
  BY DEF ByRank, Sorted
<1>5. ByRank(S) = [i \in 1 .. Cardinality(S) |-> CHOOSE x \in S : Cardinality(Below(S, Less, x)) = i - 1]
  BY <1>3, <1>4
<1> QED
  BY <1>2, <1>5, SortedHolds

-----------------------------------------------------------------------------
(* The order of a session *)

\* The least of a set of naturals is one of them.
LEMMA MinIsLeast ==
    ASSUME NEW T \in SUBSET Nat, T # {}
    PROVE  Min(T) \in T /\ \A n \in T : Min(T) <= n
<1>1. \E m \in T : \A n \in T : m <= n
  BY LeastNatural
<1> QED
  BY <1>1 DEF Min

\* So is the greatest, where there is a bound.
LEMMA MaxIsGreatest ==
    ASSUME NEW bound \in Nat, NEW T \in SUBSET (0 .. bound), T # {}
    PROVE  Max(T) \in T /\ \A n \in T : Max(T) >= n
<1>1. T \subseteq Nat /\ \A n \in T : n <= bound
  OBVIOUS
<1>2. \E m \in T : \A n \in T : m >= n
  BY <1>1, GreatestNatural
<1> QED
  BY <1>2 DEF Max

\* One of the remaining cards comes next.
LEMMA TakeNextTakes ==
    ASSUME NEW X, NEW acc \in [ordered : Seq(X), rest : Seq(X)], Len(acc.rest) > 0
    PROVE  \E k \in 1 .. Len(acc.rest) :
              TakeNext(acc) = [ordered |-> Append(acc.ordered, acc.rest[k]),
                               rest |-> RemoveAt(acc.rest, k)]
<1> DEFINE last == IF acc.ordered = <<>> THEN 0 ELSE NoteOf[Last(acc.ordered)]
           other == {k \in DOMAIN acc.rest : NoteOf[acc.rest[k]] # last}
           next == IF other = {} THEN 1 ELSE Min(other)
<1>1. Len(acc.rest) \in Nat /\ DOMAIN acc.rest = 1 .. Len(acc.rest)
  OBVIOUS
<1>2. other \in SUBSET Nat /\ other \subseteq 1 .. Len(acc.rest)
  BY <1>1
<1>3. TakeNext(acc) = [ordered |-> Append(acc.ordered, acc.rest[next]), rest |-> RemoveAt(acc.rest, next)]
  BY DEF TakeNext
<1> HIDE DEF other
<1>4. next \in 1 .. Len(acc.rest)
  <2>1. CASE other = {}
    BY <1>1, <2>1
  <2>2. CASE other # {}
    BY <1>2, <2>2, MinIsLeast
  <2> QED
    BY <2>1, <2>2
<1> QED
  BY <1>3, <1>4

\* f gives the cards taken and left after each step.
Takes(f, s, bound) ==
    f = [i \in 0 .. bound |-> IF i = 0 THEN [ordered |-> <<>>, rest |-> s] ELSE TakeNext(f[i - 1])]

\* There is such a table.
LEMMA TakingExists ==
    ASSUME NEW s, NEW bound \in Nat PROVE \E f : Takes(f, s, bound)
<1> DEFINE T == {n \in 0 .. bound : \E f : Takes(f, s, n)}
<1>1. 0 \in T
  <2> DEFINE f == [n \in 0 .. 0 |-> [ordered |-> <<>>, rest |-> s]]
  <2>1. Takes(f, s, 0)
    BY DEF Takes
  <2> QED
    BY <2>1
<1>2. \A n \in 0 .. bound : n < bound /\ n \in T => n + 1 \in T
  <2> SUFFICES ASSUME NEW n \in 0 .. bound, n < bound, NEW f, Takes(f, s, n)
               PROVE  \E g : Takes(g, s, n + 1)
    OBVIOUS
  <2>1. PICK g : g = [k \in 0 .. n + 1 |-> IF k = n + 1 THEN TakeNext(f[n]) ELSE f[k]]
    OBVIOUS
  <2>2. ASSUME NEW k \in 0 .. n + 1
        PROVE  g[k] = IF k = 0 THEN [ordered |-> <<>>, rest |-> s] ELSE TakeNext(g[k - 1])
    <3>1. CASE k = n + 1
      BY <2>1, <3>1
    <3>2. CASE k # n + 1
      <4>1. k \in 0 .. n /\ g[k] = f[k] /\ (k # 0 => k - 1 \in 0 .. n /\ g[k - 1] = f[k - 1])
        BY <2>1, <3>2
      <4> QED
        BY <4>1 DEF Takes
    <3> QED
      BY <3>1, <3>2
  <2>3. Takes(g, s, n + 1)
    BY <2>1, <2>2 DEF Takes
  <2> QED
    BY <2>3
<1>3. bound \in T
  <2> HIDE DEF T
  <2>1. 0 .. bound \subseteq T
    BY <1>1, <1>2, BoundedInduction
  <2> QED
    BY <2>1
<1> QED
  BY <1>3

\* What is taken and what is left are cards of s, each once.
Parted(acc, X, s) ==
    /\ acc \in [ordered : Seq(X), rest : Seq(X)]
    /\ Distinct(acc.ordered) /\ Distinct(acc.rest)
    /\ Held(acc.ordered) \cap Held(acc.rest) = {}
    /\ Held(acc.ordered) \cup Held(acc.rest) \subseteq Held(s)

\* Taking one keeps them parted.
LEMMA TakeNextParts ==
    ASSUME NEW X, NEW s, NEW acc, Parted(acc, X, s), Len(acc.rest) > 0
    PROVE  Parted(TakeNext(acc), X, s) /\ Len(TakeNext(acc).rest) = Len(acc.rest) - 1
<1>1. PICK q \in Seq(X), r \in Seq(X) : acc = [ordered |-> q, rest |-> r]
  BY DEF Parted
<1>2. acc.ordered = q /\ acc.rest = r
  BY <1>1
<1>3. /\ Distinct(q) /\ Distinct(r) /\ Held(q) \cap Held(r) = {} /\ Held(q) \cup Held(r) \subseteq Held(s)
      /\ Len(r) > 0
  BY <1>2 DEF Parted
<1>4. PICK k \in 1 .. Len(r) : TakeNext(acc) = [ordered |-> Append(q, r[k]), rest |-> RemoveAt(r, k)]
  <2>1. acc \in [ordered : Seq(X), rest : Seq(X)]
    BY DEF Parted
  <2> QED
    BY <1>2, <1>3, <2>1, TakeNextTakes
<1>5. PICK x \in X : x = r[k]
  OBVIOUS
<1>6. /\ RemoveAt(r, k) \in Seq(X) /\ Len(RemoveAt(r, k)) = Len(r) - 1
      /\ Held(RemoveAt(r, k)) \subseteq Held(r) /\ x \in Held(r)
      /\ Distinct(RemoveAt(r, k)) /\ x \notin Held(RemoveAt(r, k))
  BY <1>3, <1>5, RemoveHolds
<1>7. /\ Append(q, x) \in Seq(X) /\ Held(Append(q, x)) = Held(q) \cup {x} /\ Distinct(Append(q, x))
  BY <1>3, <1>6, AppendHolds
<1>8. PICK a, b : a = Append(q, x) /\ b = RemoveAt(r, k)
  OBVIOUS
<1>9. TakeNext(acc) = [ordered |-> a, rest |-> b]
  BY <1>4, <1>5, <1>8
<1>10. /\ a \in Seq(X) /\ b \in Seq(X) /\ Distinct(a) /\ Distinct(b) /\ Len(b) = Len(r) - 1
       /\ Held(a) = Held(q) \cup {x} /\ Held(b) \subseteq Held(r) /\ x \in Held(r) /\ x \notin Held(b)
  BY <1>6, <1>7, <1>8
<1>11. Held(a) \cap Held(b) = {} /\ Held(a) \cup Held(b) \subseteq Held(s)
  BY <1>3, <1>10
<1> QED
  BY <1>2, <1>9, <1>10, <1>11 DEF Parted

\* Siblings apart: the same cards, or some of them, in another order.
LEMMA AvoidAdjacentHolds ==
    ASSUME NEW X, NEW s \in Seq(X), Distinct(s)
    PROVE  /\ AvoidAdjacentSiblings(s) \in Seq(X) /\ Distinct(AvoidAdjacentSiblings(s))
           /\ Held(AvoidAdjacentSiblings(s)) \subseteq Held(s)
<1> DEFINE f == CHOOSE g : Takes(g, s, Len(s))
           T == {i \in 0 .. Len(s) : Parted(f[i], X, s) /\ Len(f[i].rest) = Len(s) - i}
<1>1. Len(s) \in Nat
  OBVIOUS
<1>2. Takes(f, s, Len(s))
  BY <1>1, TakingExists
<1>3. AvoidAdjacentSiblings(s) = f[Len(s)].ordered
  BY DEF AvoidAdjacentSiblings, Takes
<1> HIDE DEF f
<1>4. 0 \in T
  <2>1. f[0] = [ordered |-> <<>>, rest |-> s]
    BY <1>1, <1>2 DEF Takes
  <2>2. <<>> \in Seq(X) /\ Distinct(<<>>) /\ Held(<<>>) = {}
    BY EmptyHolds
  <2>3. Parted(f[0], X, s)
    BY <2>1, <2>2 DEF Parted
  <2>4. Len(f[0].rest) = Len(s) - 0 /\ 0 \in 0 .. Len(s)
    BY <1>1, <2>1
  <2> QED
    BY <2>3, <2>4
<1>5. \A i \in 0 .. Len(s) : i < Len(s) /\ i \in T => i + 1 \in T
  <2> SUFFICES ASSUME NEW i \in 0 .. Len(s), i < Len(s), Parted(f[i], X, s), Len(f[i].rest) = Len(s) - i
               PROVE  i + 1 \in 0 .. Len(s) /\ Parted(f[i + 1], X, s) /\ Len(f[i + 1].rest) = Len(s) - (i + 1)
    OBVIOUS
  <2>1. i + 1 \in 0 .. Len(s) /\ i + 1 # 0 /\ (i + 1) - 1 = i /\ Len(s) - i > 0
        /\ (Len(s) - i) - 1 = Len(s) - (i + 1)
    BY <1>1
  <2>2. f[i + 1] = TakeNext(f[i])
    BY <1>2, <2>1 DEF Takes
  <2>3. PICK acc : acc = f[i]
    OBVIOUS
  <2>4. Parted(TakeNext(acc), X, s) /\ Len(TakeNext(acc).rest) = Len(acc.rest) - 1
    BY <2>1, <2>3, TakeNextParts
  <2> QED
    BY <2>1, <2>2, <2>3, <2>4
<1>6. Len(s) \in T
  <2> HIDE DEF T
  <2>1. 0 .. Len(s) \subseteq T
    BY <1>1, <1>4, <1>5, BoundedInduction
  <2> QED
    BY <1>1, <2>1
<1> QED
  BY <1>3, <1>6 DEF Parted

-----------------------------------------------------------------------------
(* The cards of a session *)

Share(E, s) == {c \in E : Subject(c) = s}

\* Each subject has cards left and cards dealt, all of them its own, each once.
Dealt(acc, E, S) ==
    \E p : \E a, b \in [S -> Seq(E)] :
        /\ acc = [planned |-> p, source |-> a, block |-> b]
        /\ \A s \in S :
              /\ Distinct(a[s]) /\ Distinct(b[s]) /\ Held(a[s]) \cap Held(b[s]) = {}
              /\ Held(a[s]) \cup Held(b[s]) \subseteq Share(E, s)

\* A turn keeps it so.
LEMMA TurnDeals ==
    ASSUME NEW E, NEW S, NEW acc, Dealt(acc, E, S), NEW s \in S, NEW seconds
    PROVE  Dealt(Turn(acc, s, seconds), E, S)
<1>0. PICK p : \E a, b \in [S -> Seq(E)] :
        /\ acc = [planned |-> p, source |-> a, block |-> b]
        /\ \A t \in S :
              /\ Distinct(a[t]) /\ Distinct(b[t]) /\ Held(a[t]) \cap Held(b[t]) = {}
              /\ Held(a[t]) \cup Held(b[t]) \subseteq Share(E, t)
  BY Zenon DEF Dealt
<1>1. PICK a \in [S -> Seq(E)], b \in [S -> Seq(E)] :
        /\ acc = [planned |-> p, source |-> a, block |-> b]
        /\ \A t \in S :
              /\ Distinct(a[t]) /\ Distinct(b[t]) /\ Held(a[t]) \cap Held(b[t]) = {}
              /\ Held(a[t]) \cup Held(b[t]) \subseteq Share(E, t)
  BY <1>0, Zenon
<1>2. acc.planned = p /\ acc.source = a /\ acc.block = b
  BY <1>1
<1> DEFINE fits == {k \in DOMAIN a[s] : p + Estimate(a[s][k]) <= seconds}
           k == Min(fits)
<1>3. CASE p >= seconds \/ a[s] = <<>>
  BY <1>2, <1>3 DEF Turn
<1>4. CASE ~(p >= seconds \/ a[s] = <<>>) /\ fits = {}
  <2>1. Turn(acc, s, seconds) = [acc EXCEPT !.source[s] = <<>>]
    BY <1>2, <1>4 DEF Turn
  <2>2. PICK e : e = [a EXCEPT ![s] = <<>>]
    OBVIOUS
  <2>3. Turn(acc, s, seconds) = [planned |-> p, source |-> e, block |-> b]
    BY <1>1, <2>1, <2>2
  <2>4. <<>> \in Seq(E) /\ Distinct(<<>>) /\ Held(<<>>) = {}
    BY EmptyHolds
  <2>5. e \in [S -> Seq(E)] /\ e[s] = <<>> /\ \A t \in S \ {s} : e[t] = a[t]
    BY <2>2, <2>4
  <2>6. \A t \in S : /\ Distinct(e[t]) /\ Distinct(b[t]) /\ Held(e[t]) \cap Held(b[t]) = {}
                     /\ Held(e[t]) \cup Held(b[t]) \subseteq Share(E, t)
    <3> TAKE t \in S
    <3>1. CASE t = s
      <4>1. e[t] = <<>>
        BY <2>5, <3>1
      <4>2. Distinct(e[t]) /\ Held(e[t]) = {}
        BY <2>4, <4>1
      <4> QED
        BY <1>1, <4>2
    <3>2. CASE t # s
      BY <1>1, <2>5, <3>2
    <3> QED
      BY <3>1, <3>2
  <2>7. e \in [S -> Seq(E)]
    BY <2>5
  <2> QED
    BY <2>3, <2>6, <2>7, Zenon DEF Dealt
<1>5. CASE ~(p >= seconds \/ a[s] = <<>>) /\ fits # {}
  <2>1. k \in 1 .. Len(a[s])
    <3>1. a[s] \in Seq(E)
      OBVIOUS
    <3>2. DOMAIN a[s] = 1 .. Len(a[s]) /\ Len(a[s]) \in Nat
      BY <3>1, LenProperties
    <3>3. fits \in SUBSET Nat /\ fits \subseteq 1 .. Len(a[s])
      BY <3>2
    <3> HIDE DEF fits
    <3> QED
      BY <1>5, <3>3, MinIsLeast
  <2>2. PICK x : x = a[s][k]
    OBVIOUS
  <2>3. PICK e, d : e = [a EXCEPT ![s] = RemoveAt(@, k)] /\ d = [b EXCEPT ![s] = Append(@, x)]
    OBVIOUS
  <2>4. Turn(acc, s, seconds) = [planned |-> p + Estimate(x), source |-> e, block |-> d]
    BY <1>2, <1>5, <2>2, <2>3 DEF Turn, Without
  <2> HIDE DEF k, fits
  <2>5. a[s] \in Seq(E) /\ b[s] \in Seq(E)
    OBVIOUS
  <2>6. x \in E
    BY <2>1, <2>2, <2>5
  <2>7. PICK q, r : q = RemoveAt(a[s], k) /\ r = Append(b[s], x)
    OBVIOUS
  <2>8. /\ q \in Seq(E) /\ Held(q) \subseteq Held(a[s]) /\ x \in Held(a[s])
        /\ Distinct(q) /\ x \notin Held(q)
    BY <1>1, <2>1, <2>2, <2>5, <2>7, RemoveHolds
  <2>9. r \in Seq(E) /\ Held(r) = Held(b[s]) \cup {x} /\ (x \notin Held(b[s]) => Distinct(r))
    BY <1>1, <2>5, <2>6, <2>7, AppendHolds
  <2>10. Distinct(r) /\ Held(q) \cap Held(r) = {} /\ Held(q) \cup Held(r) \subseteq Share(E, s)
    BY <1>1, <2>8, <2>9
  <2>11. e = [a EXCEPT ![s] = q] /\ d = [b EXCEPT ![s] = r]
    BY <2>3, <2>7
  <2>12. /\ e \in [S -> Seq(E)] /\ d \in [S -> Seq(E)] /\ e[s] = q /\ d[s] = r
         /\ \A t \in S \ {s} : e[t] = a[t] /\ d[t] = b[t]
    BY <2>8, <2>9, <2>11
  <2>13. \A t \in S : /\ Distinct(e[t]) /\ Distinct(d[t]) /\ Held(e[t]) \cap Held(d[t]) = {}
                      /\ Held(e[t]) \cup Held(d[t]) \subseteq Share(E, t)
    <3> TAKE t \in S
    <3>1. CASE t = s
      BY <2>8, <2>10, <2>12, <3>1
    <3>2. CASE t # s
      BY <1>1, <2>12, <3>2
    <3> QED
      BY <3>1, <3>2
  <2>14. PICK total : total = p + Estimate(x)
    OBVIOUS
  <2>15. Turn(acc, s, seconds) = [planned |-> total, source |-> e, block |-> d]
    BY <2>4, <2>14
  <2>16. e \in [S -> Seq(E)] /\ d \in [S -> Seq(E)]
    BY <2>12
  <2>17. \E g, h \in [S -> Seq(E)] :
            /\ Turn(acc, s, seconds) = [planned |-> total, source |-> g, block |-> h]
            /\ \A t \in S :
                  /\ Distinct(g[t]) /\ Distinct(h[t]) /\ Held(g[t]) \cap Held(h[t]) = {}
                  /\ Held(g[t]) \cup Held(h[t]) \subseteq Share(E, t)
    BY <2>13, <2>15, <2>16, Zenon
  <2> QED
    BY <2>17, Zenon DEF Dealt
<1> QED
  BY <1>3, <1>4, <1>5

\* f gives what is dealt after each turn.
Deals(f, start, subjects, seconds, bound) ==
    f = [i \in 0 .. bound |->
            IF i = 0 THEN start
            ELSE Turn(f[i - 1], subjects[((i - 1) % Len(subjects)) + 1], seconds)]

\* There is such a table.
LEMMA DealingExists ==
    ASSUME NEW start, NEW subjects, NEW seconds, NEW bound \in Nat
    PROVE  \E f : Deals(f, start, subjects, seconds, bound)
<1> DEFINE T == {n \in 0 .. bound : \E f : Deals(f, start, subjects, seconds, n)}
           next(acc, i) == Turn(acc, subjects[((i - 1) % Len(subjects)) + 1], seconds)
<1>1. 0 \in T
  <2> DEFINE f == [n \in 0 .. 0 |-> start]
  <2>1. Deals(f, start, subjects, seconds, 0)
    BY DEF Deals
  <2> QED
    BY <2>1
<1>2. \A n \in 0 .. bound : n < bound /\ n \in T => n + 1 \in T
  <2> SUFFICES ASSUME NEW n \in 0 .. bound, n < bound, NEW f, Deals(f, start, subjects, seconds, n)
               PROVE  \E g : Deals(g, start, subjects, seconds, n + 1)
    OBVIOUS
  <2>1. f = [i \in 0 .. n |-> IF i = 0 THEN start ELSE next(f[i - 1], i)]
    BY DEF Deals
  <2>2. \A g : g = [i \in 0 .. n + 1 |-> IF i = 0 THEN start ELSE next(g[i - 1], i)]
               => Deals(g, start, subjects, seconds, n + 1)
    BY DEF Deals
  <2> HIDE DEF next
  <2>3. PICK g : g = [k \in 0 .. n + 1 |-> IF k = n + 1 THEN next(f[n], n + 1) ELSE f[k]]
    OBVIOUS
  <2>4. ASSUME NEW k \in 0 .. n + 1 PROVE g[k] = IF k = 0 THEN start ELSE next(g[k - 1], k)
    <3>1. CASE k = n + 1
      BY <2>3, <3>1
    <3>2. CASE k # n + 1
      <4>1. k \in 0 .. n /\ g[k] = f[k] /\ (k # 0 => k - 1 \in 0 .. n /\ g[k - 1] = f[k - 1])
        BY <2>3, <3>2
      <4> QED
        BY <2>1, <4>1
    <3> QED
      BY <3>1, <3>2
  <2>5. g = [i \in 0 .. n + 1 |-> IF i = 0 THEN start ELSE next(g[i - 1], i)]
    BY <2>3, <2>4
  <2> QED
    BY <2>2, <2>5
<1>3. bound \in T
  <2> HIDE DEF T
  <2>1. 0 .. bound \subseteq T
    BY <1>1, <1>2, BoundedInduction
  <2> QED
    BY <2>1
<1> QED
  BY <1>3

\* f gives what the first blocks are together.
Flattens(f, blocks, m) ==
    f = [i \in 1 .. m |-> IF i = 1 THEN blocks[i] ELSE f[i - 1] \o blocks[i]]

\* Sequences of different things one after the other.
LEMMA FlattenHolds ==
    ASSUME NEW X, NEW n \in Nat, NEW blocks \in [1 .. n -> Seq(X)],
           \A i \in 1 .. n : Distinct(blocks[i]),
           \A i, j \in 1 .. n : i # j => Held(blocks[i]) \cap Held(blocks[j]) = {}
    PROVE  FlattenSeq(blocks) \in Seq(X) /\ Distinct(FlattenSeq(blocks))
<1>1. blocks \in Seq(Seq(X))
  BY SeqDef
<1>2. DOMAIN blocks = 1 .. Len(blocks) /\ Len(blocks) \in Nat /\ DOMAIN blocks = 1 .. n
  BY <1>1, LenProperties
<1>3. \A k \in Nat : 1 .. k = 1 .. n => k = n
  <2> SUFFICES ASSUME NEW k \in Nat, 1 .. k = 1 .. n PROVE k = n
    OBVIOUS
  <2>1. k \in 1 .. n \/ k = 0
    OBVIOUS
  <2>2. n \in 1 .. k \/ n = 0
    OBVIOUS
  <2> QED
    BY <2>1, <2>2
<1>4. Len(blocks) = n
  BY <1>2, <1>3
<1>5. CASE n = 0
  <2>1. blocks = <<>>
    BY <1>1, <1>4, <1>5, EmptySeq
  <2>2. FlattenSeq(blocks) = blocks
    BY <1>4, <1>5 DEF FlattenSeq
  <2> QED
    BY <2>1, <2>2, EmptyHolds
<1>6. CASE n # 0
  <2> DEFINE f == CHOOSE g : Flattens(g, blocks, n)
  <2>1. FlattenSeq(blocks) = f[n]
    BY <1>4, <1>6 DEF FlattenSeq, Flattens
  <2>2. Flattens(f, blocks, n)
    <3> DEFINE T == {m \in 0 .. n : \E g : Flattens(g, blocks, m)}
    <3>1. 0 \in T
      <4> DEFINE g == [i \in 1 .. 0 |-> <<>>]
      <4>1. Flattens(g, blocks, 0)
        BY DEF Flattens
      <4> QED
        BY <4>1
    <3>2. \A m \in 0 .. n : m < n /\ m \in T => m + 1 \in T
      <4> SUFFICES ASSUME NEW m \in 0 .. n, m < n, NEW h, Flattens(h, blocks, m)
                   PROVE  \E g : Flattens(g, blocks, m + 1)
        OBVIOUS
      <4>1. PICK g : g = [i \in 1 .. m + 1 |->
                IF i = m + 1 THEN IF i = 1 THEN blocks[i] ELSE h[m] \o blocks[i] ELSE h[i]]
        OBVIOUS
      <4>2. ASSUME NEW i \in 1 .. m + 1 PROVE g[i] = IF i = 1 THEN blocks[i] ELSE g[i - 1] \o blocks[i]
        <5>1. CASE i = m + 1
          <6>1. i # 1 => i - 1 \in 1 .. m + 1 /\ g[i - 1] = h[m] /\ i - 1 = m
            BY <4>1, <5>1
          <6> QED
            BY <4>1, <5>1, <6>1
        <5>2. CASE i # m + 1
          <6>1. i \in 1 .. m /\ g[i] = h[i] /\ (i # 1 => i - 1 \in 1 .. m /\ g[i - 1] = h[i - 1])
            BY <4>1, <5>2
          <6> QED
            BY <6>1 DEF Flattens
        <5> QED
          BY <5>1, <5>2
      <4>3. Flattens(g, blocks, m + 1)
        BY <4>1, <4>2 DEF Flattens
      <4> QED
        BY <4>3
    <3>3. n \in T
      <4> HIDE DEF T
      <4>1. 0 .. n \subseteq T
        BY <3>1, <3>2, BoundedInduction
      <4> QED
        BY <4>1
    <3>4. \E g : Flattens(g, blocks, n)
      BY <3>3
    <3> QED
      BY <3>4
  <2> HIDE DEF f
  <2> DEFINE T == {m \in 0 .. n : m # 0 =>
                      /\ f[m] \in Seq(X) /\ Distinct(f[m])
                      /\ \A j \in 1 .. n : j > m => Held(f[m]) \cap Held(blocks[j]) = {}}
  <2>3. 0 \in T
    OBVIOUS
  <2>4. \A m \in 0 .. n : m < n /\ m \in T => m + 1 \in T
    <3> SUFFICES ASSUME NEW m \in 0 .. n, m < n, m \in T
                 PROVE  /\ m + 1 \in 0 .. n /\ f[m + 1] \in Seq(X) /\ Distinct(f[m + 1])
                        /\ \A j \in 1 .. n : j > m + 1 => Held(f[m + 1]) \cap Held(blocks[j]) = {}
      OBVIOUS
    <3>1. m + 1 \in 1 .. n /\ m + 1 \in 0 .. n /\ (m + 1) - 1 = m /\ (m + 1 = 1 <=> m = 0)
      OBVIOUS
    <3>2. f[m + 1] = IF m = 0 THEN blocks[m + 1] ELSE f[m] \o blocks[m + 1]
      BY <2>2, <3>1 DEF Flattens
    <3>3. \A j \in 1 .. n : j > m + 1 => j > m /\ j # m + 1
      OBVIOUS
    <3>4. CASE m = 0
      BY <3>1, <3>2, <3>3, <3>4
    <3>5. CASE m # 0
      <4>1. PICK q \in Seq(X), r \in Seq(X) : q = f[m] /\ r = blocks[m + 1]
        BY <3>1, <3>5
      <4>2. m + 1 > m
        OBVIOUS
      <4>3. Distinct(q) /\ Distinct(r) /\ Held(q) \cap Held(r) = {}
        BY <3>1, <3>5, <4>1, <4>2
      <4>4. q \o r \in Seq(X) /\ Held(q \o r) = Held(q) \cup Held(r) /\ Distinct(q \o r)
        BY <4>3, ConcatHolds
      <4>5. \A j \in 1 .. n : j > m + 1 => Held(q) \cap Held(blocks[j]) = {} /\ Held(r) \cap Held(blocks[j]) = {}
        BY <3>1, <3>3, <3>5, <4>1
      <4> QED
        BY <3>1, <3>2, <3>5, <4>1, <4>4, <4>5
    <3> QED
      BY <3>4, <3>5
  <2>5. n \in T
    <3> HIDE DEF T
    <3>1. 0 .. n \subseteq T
      BY <2>3, <2>4, BoundedInduction
    <3> QED
      BY <3>1
  <2> QED
    BY <1>6, <2>1, <2>5
<1> QED
  BY <1>5, <1>6
\* Distinct sequences have the members they hold.
LEMMA HeldIsMembers ==
    ASSUME NEW X, NEW q \in Seq(X)
    PROVE  /\ ToSet(q) = Held(q) /\ Held(q) \subseteq X
           /\ Distinct(q) <=> IsInjective(q)
<1>1. DOMAIN q = 1 .. Len(q)
  OBVIOUS
<1>2. \A i \in 1 .. Len(q) : q[i] \in X
  OBVIOUS
<1> QED
  BY <1>1, <1>2 DEF ToSet, Held, Distinct, IsInjective

\* A session offers some of the eligible cards, each once.
LEMMA BuildQueueHolds ==
    ASSUME NEW E \in SUBSET Cards, NEW seconds
    PROVE  BuildQueue(E, seconds) \in Seq(E) /\ Distinct(BuildQueue(E, seconds))
<1> DEFINE of == {Subject(c) : c \in E}
           subjects == ByRank(of)
           n == Len(subjects)
           group(s) == AvoidAdjacentSiblings(ByRank(Share(E, s)))
           start == [planned |-> 0, source |-> [s \in ToSet(subjects) |-> group(s)],
                     block |-> [s \in ToSet(subjects) |-> <<>>]]
           bound == n * (Cardinality(E) + 1)
           f == CHOOSE g : Deals(g, start, subjects, seconds, bound)
           blocks == [i \in 1 .. n |-> f[bound].block[subjects[i]]]
<1>1. IsFiniteSet(E) /\ E \subseteq Nat
  BY CardAssumption, FS_Subset
<1>2. of \in SUBSET Nat /\ IsFiniteSet(of)
  <2>1. \A c \in E : Subject(c) \in Nat
    BY CardAssumption DEF Subject
  <2>2. [c \in E |-> Subject(c)] \in Surjection(E, of)
    BY DEF Surjection
  <2>3. IsFiniteSet(of)
    BY <1>1, <2>2, FS_Surjection
  <2> QED
    BY <2>1, <2>3
<1>3. subjects \in Seq(of) /\ Distinct(subjects) /\ ToSet(subjects) = Held(subjects) /\ n \in Nat
  <2> HIDE DEF of
  <2>1. ByRank(of) \in Seq(of) /\ Distinct(ByRank(of))
    BY <1>2, ByRankHolds
  <2>2. ToSet(ByRank(of)) = Held(ByRank(of))
    BY <2>1, HeldIsMembers
  <2>3. Len(ByRank(of)) \in Nat
    BY <2>1
  <2> QED
    BY <2>1, <2>2, <2>3
<1>4. BuildQueue(E, seconds) = FlattenSeq(blocks)
  BY DEF BuildQueue, Deals, Share
<1>5. bound \in Nat /\ (n = 0 => bound = 0)
  <2>1. PICK k \in Nat, m \in Nat : k = n /\ m = Cardinality(E) + 1
    <3>1. Cardinality(E) \in Nat
      BY <1>1, FS_CardinalityType
    <3>2. Cardinality(E) + 1 \in Nat
      BY <3>1
    <3> QED
      BY <1>3, <3>2
  <2>2. k * m \in Nat /\ (k = 0 => k * m = 0)
    OBVIOUS
  <2> QED
    BY <2>1, <2>2
<1>6. \A s \in ToSet(subjects) : /\ group(s) \in Seq(E) /\ Distinct(group(s))
                                 /\ Held(group(s)) \subseteq Share(E, s)
  <2> TAKE s \in ToSet(subjects)
  <2>1. Share(E, s) \in SUBSET Nat /\ IsFiniteSet(Share(E, s)) /\ Share(E, s) \subseteq E
    <3>1. Share(E, s) \in SUBSET E
      BY DEF Share
    <3> QED
      BY <1>1, <3>1, FS_Subset
  <2>2. PICK q \in Seq(Share(E, s)) : q = ByRank(Share(E, s)) /\ Distinct(q)
    BY <2>1, ByRankHolds
  <2>3. AvoidAdjacentSiblings(q) \in Seq(Share(E, s)) /\ Distinct(AvoidAdjacentSiblings(q))
    BY <2>2, AvoidAdjacentHolds
  <2>4. Held(AvoidAdjacentSiblings(q)) \subseteq Share(E, s)
    BY <2>3, HeldIsMembers
  <2>5. \A p \in Seq(Share(E, s)) : p \in Seq(E)
    BY <2>1
  <2> QED
    BY <2>2, <2>3, <2>4, <2>5
<1> HIDE DEF group
<1>7. Dealt(start, E, ToSet(subjects))
  <2>1. PICK S : S = ToSet(subjects)
    OBVIOUS
  <2>2. PICK a, b : a = [s \in S |-> group(s)] /\ b = [s \in S |-> <<>>]
    OBVIOUS
  <2>3. start = [planned |-> 0, source |-> a, block |-> b]
    BY <2>1, <2>2
  <2>4. <<>> \in Seq(E) /\ Distinct(<<>>) /\ Held(<<>>) = {}
    BY EmptyHolds
  <2>5. a \in [S -> Seq(E)] /\ b \in [S -> Seq(E)]
    BY <1>6, <2>1, <2>2, <2>4
  <2>6. \A t \in S : /\ Distinct(a[t]) /\ Distinct(b[t]) /\ Held(a[t]) \cap Held(b[t]) = {}
                     /\ Held(a[t]) \cup Held(b[t]) \subseteq Share(E, t)
    <3> TAKE t \in S
    <3>1. a[t] = group(t) /\ b[t] = <<>>
      BY <2>2
    <3>2. Distinct(group(t)) /\ Held(group(t)) \subseteq Share(E, t)
      BY <1>6, <2>1
    <3>3. PICK g, e : g = a[t] /\ e = b[t] /\ Distinct(e) /\ Held(e) = {}
                      /\ Distinct(g) /\ Held(g) \subseteq Share(E, t)
      BY <2>4, <3>1, <3>2
    <3> QED
      BY <3>3
  <2> HIDE DEF start
  <2>7. PICK p : p = 0
    OBVIOUS
  <2>8. start = [planned |-> p, source |-> a, block |-> b]
    BY <2>3, <2>7
  <2>9. Dealt(start, E, S)
    BY <2>5, <2>6, <2>8, Zenon DEF Dealt
  <2> QED
    BY <2>1, <2>9
<1> HIDE DEF start, bound, f, subjects
<1>8. Deals(f, start, subjects, seconds, bound)
  BY <1>5, DealingExists DEF f
<1> DEFINE T == {i \in 0 .. bound : Dealt(f[i], E, ToSet(subjects))}
<1>9. 0 \in T
  <2>1. 0 \in 0 .. bound
    BY <1>5
  <2> QED
    BY <1>7, <1>8, <2>1 DEF Deals
<1>10. \A i \in 0 .. bound : i < bound /\ i \in T => i + 1 \in T
  <2> SUFFICES ASSUME NEW i \in 0 .. bound, i < bound, Dealt(f[i], E, ToSet(subjects))
               PROVE  i + 1 \in 0 .. bound /\ Dealt(f[i + 1], E, ToSet(subjects))
    OBVIOUS
  <2>1. i \in Nat /\ i + 1 \in 0 .. bound /\ i + 1 # 0 /\ (i + 1) - 1 = i /\ n # 0
    BY <1>5
  <2>2. (i % n) + 1 \in 1 .. n
    <3>1. PICK k \in Nat \ {0}, j \in Nat : k = n /\ j = i
      BY <1>3, <2>1
    <3>2. j % k \in 0 .. k - 1
      OBVIOUS
    <3>3. \A r \in 0 .. k - 1 : r + 1 \in 1 .. k
      OBVIOUS
    <3> QED
      BY <3>1, <3>2, <3>3
  <2>3. PICK s : s = subjects[(i % n) + 1]
    OBVIOUS
  <2>4. s \in ToSet(subjects)
    BY <1>3, <2>2, <2>3 DEF Held
  <2>5. f[i + 1] = Turn(f[i], s, seconds)
    BY <1>8, <2>1, <2>3 DEF Deals
  <2> QED
    BY <2>1, <2>4, <2>5, TurnDeals
<1>11. Dealt(f[bound], E, ToSet(subjects))
  <2> HIDE DEF T
  <2>1. 0 .. bound \subseteq T
    BY <1>5, <1>9, <1>10, BoundedInduction
  <2>2. bound \in T
    BY <1>5, <2>1
  <2> QED
    BY <2>2 DEF T
<1>12. PICK b \in [ToSet(subjects) -> Seq(E)] :
        /\ f[bound].block = b
        /\ \A s \in ToSet(subjects) : Distinct(b[s]) /\ Held(b[s]) \subseteq Share(E, s)
  <2>1. PICK p : \E a, b \in [ToSet(subjects) -> Seq(E)] :
            /\ f[bound] = [planned |-> p, source |-> a, block |-> b]
            /\ \A t \in ToSet(subjects) :
                  /\ Distinct(a[t]) /\ Distinct(b[t]) /\ Held(a[t]) \cap Held(b[t]) = {}
                  /\ Held(a[t]) \cup Held(b[t]) \subseteq Share(E, t)
    BY <1>11, Zenon DEF Dealt
  <2>2. PICK a \in [ToSet(subjects) -> Seq(E)], b \in [ToSet(subjects) -> Seq(E)] :
            /\ f[bound] = [planned |-> p, source |-> a, block |-> b]
            /\ \A t \in ToSet(subjects) :
                  /\ Distinct(a[t]) /\ Distinct(b[t]) /\ Held(a[t]) \cap Held(b[t]) = {}
                  /\ Held(a[t]) \cup Held(b[t]) \subseteq Share(E, t)
    BY <2>1, Zenon
  <2>3. f[bound].block = b
    BY <2>2
  <2> QED
    BY <2>2, <2>3
<1>13. \A i \in 1 .. n : subjects[i] \in ToSet(subjects)
  BY <1>3 DEF Held
<1>14. blocks = [i \in 1 .. n |-> b[subjects[i]]]
  BY <1>12
<1> HIDE DEF blocks
<1>15. blocks \in [1 .. n -> Seq(E)]
  BY <1>13, <1>14
<1>16. \A i \in 1 .. n : Distinct(blocks[i]) /\ Held(blocks[i]) \subseteq Share(E, subjects[i])
  BY <1>12, <1>13, <1>14
<1>17. \A i, j \in 1 .. n : i # j => Held(blocks[i]) \cap Held(blocks[j]) = {}
  <2>1. \A i, j \in 1 .. n : i # j => subjects[i] # subjects[j]
    BY <1>3 DEF Distinct
  <2>2. \A s, t : s # t => Share(E, s) \cap Share(E, t) = {}
    BY DEF Share
  <2> QED
    BY <1>16, <2>1, <2>2
<1>18. FlattenSeq(blocks) \in Seq(E) /\ Distinct(FlattenSeq(blocks))
  BY <1>3, <1>15, <1>16, <1>17, FlattenHolds
<1> QED
  BY <1>4, <1>18
-----------------------------------------------------------------------------
(* The plan *)

\* A card is due at some moment.
LEMMA DueAtIsMoment ==
    ASSUME NEW h \in Histories PROVE DueAt(h) \in Nat
<1>1. PICK n \in Nat : n = Len(h)
  BY DEF Histories
<1>2. CASE n = 0
  BY <1>1, <1>2 DEF DueAt
<1>3. CASE n # 0
  <2> DEFINE X == [rating : Ratings, at : Nat]
  <2>0. h \in Seq(X) /\ n \in 1 .. Len(h)
    BY <1>1, <1>3 DEF Histories
  <2> HIDE DEF X
  <2>1. PICK r \in X : r = h[n]
    BY <2>0
  <2> USE DEF X
  <2>2. PICK d \in Nat, L \in Nat, k \in Nat : d = Day(r.at) /\ L = DayLength /\ k = Interval
    BY TimeAssumption, DayShape
  <2>3. (d + k) * L \in Nat
    <3>1. PICK e \in Nat : e = d + k
      OBVIOUS
    <3> QED
      BY <3>1
  <2>4. r.at + 1 \in Nat
    BY <2>1
  <2> QED
    BY <1>1, <1>3, <2>1, <2>2, <2>3, <2>4 DEF DueAt
<1> QED
  BY <1>2, <1>3

\* The most overdue cards come first, each once.
LEMMA DueOrderHolds ==
    ASSUME TypeInv, NEW t
    PROVE  DueOrder(t) \in Seq(DueCandidates(t))
<1> DEFINE S == DueCandidates(t)
           due(c) == DueAt(cards[c].history)
           R == {p \in S \X S : due(p[1]) < due(p[2]) \/ (due(p[1]) = due(p[2]) /\ p[1] < p[2])}
<1>1. IsFiniteSet(S) /\ S \in SUBSET Cards /\ S \in SUBSET Nat
  <2>1. S \in SUBSET Cards
    BY DEF DueCandidates
  <2> QED
    BY <2>1, CardAssumption, FS_Subset
<1>2. \A c \in S : due(c) \in Nat
  <2> TAKE c \in S
  <2>1. cards[c] \in CardStates
    BY <1>1 DEF TypeInv
  <2>2. cards[c].history \in Histories
    BY <2>1 DEF CardStates
  <2> QED
    BY <2>2, DueAtIsMoment
<1> HIDE DEF S, due
<1>3. \A x, y \in S : <<x, y>> \in R <=> due(x) < due(y) \/ (due(x) = due(y) /\ x < y)
  OBVIOUS
<1> HIDE DEF R
<1>4. IsOrder(S, R)
  <2>1. \A x \in S : <<x, x>> \notin R
    BY <1>1, <1>2, <1>3
  <2>2. \A x, y, z \in S : <<x, y>> \in R /\ <<y, z>> \in R => <<x, z>> \in R
    BY <1>1, <1>2, <1>3
  <2>3. \A x, y \in S : x # y => <<x, y>> \in R \/ <<y, x>> \in R
    BY <1>1, <1>2, <1>3
  <2> QED
    BY <2>1, <2>2, <2>3 DEF IsOrder
<1>5. ASSUME NEW x \in S
      PROVE  Below(S, R, x) = {y \in S : due(y) < due(x) \/ (due(y) = due(x) /\ y < x)}
  BY <1>3 DEF Below
<1>6. DueOrder(t) = [i \in 1 .. Cardinality(S) |->
            CHOOSE x \in S :
                Cardinality({y \in S : due(y) < due(x) \/ (due(y) = due(x) /\ y < x)}) = i - 1]
  BY DEF DueOrder, Sorted, S, due
<1>7. DueOrder(t) = [i \in 1 .. Cardinality(S) |->
            CHOOSE x \in S : Cardinality(Below(S, R, x)) = i - 1]
  BY <1>5, <1>6
<1>8. DueOrder(t) \in Seq(S)
  BY <1>1, <1>4, <1>7, SortedHolds
<1> QED
  BY <1>8 DEF S

\* The first of a sequence.
LEMMA FirstOfHolds ==
    ASSUME NEW X, NEW q \in Seq(X), NEW n \in Nat
    PROVE  FirstOf(q, n) \in Seq(X) /\ Len(FirstOf(q, n)) <= n /\ Len(FirstOf(q, n)) <= Len(q)
<1>1. PICK m \in Nat : m = (IF n < Len(q) THEN n ELSE Len(q)) /\ m <= n /\ m <= Len(q)
  OBVIOUS
<1>2. SubSeq(q, 1, m) \in Seq(X) /\ Len(SubSeq(q, 1, m)) = m
  BY <1>1
<1> QED
  BY <1>1, <1>2 DEF FirstOf

\* What is within the limit is a choice of what there is.
LEMMA WithinHolds ==
    ASSUME NEW X, NEW q \in Seq(X), NEW t, NEW queue, NEW limit
    PROVE  WithinDailyLimit(q, t, queue, limit) \in Seq(X)
<1> DEFINE counted(i) == Cardinality({j \in 1 .. i : Queue(cards[q[j]].history) = queue})
           kept == {i \in DOMAIN q : \/ Queue(cards[q[i]].history) # queue
                                     \/ Studied(t, queue) + counted(i) <= limit}
           w == WithinDailyLimit(q, t, queue, limit)
<1>1. w = [n \in 1 .. Cardinality(kept) |-> q[ByRank(kept)[n]]]
  BY DEF WithinDailyLimit
<1>2. kept \in SUBSET (1 .. Len(q)) /\ Len(q) \in Nat
  OBVIOUS
<1> HIDE DEF kept, w
<1>3. IsFiniteSet(kept) /\ kept \in SUBSET Nat
  <2>1. IsFiniteSet(1 .. Len(q))
    BY <1>2, FS_Interval
  <2>2. 1 .. Len(q) \subseteq Nat
    BY <1>2
  <2> QED
    BY <1>2, <2>1, <2>2, FS_Subset
<1>4. PICK r \in Seq(kept) : r = ByRank(kept) /\ Len(r) = Cardinality(kept)
  BY <1>3, ByRankHolds
<1>5. \A n \in 1 .. Cardinality(kept) : q[r[n]] \in X
  <2> TAKE n \in 1 .. Cardinality(kept)
  <2>1. r[n] \in kept
    BY <1>4
  <2>2. r[n] \in 1 .. Len(q)
    BY <1>2, <2>1
  <2> QED
    BY <2>2
<1>6. w \in [1 .. Cardinality(kept) -> X]
  BY <1>1, <1>4, <1>5
<1>7. Cardinality(kept) \in Nat
  BY <1>3, FS_CardinalityType
<1>8. w \in Seq(X)
  BY <1>6, <1>7, SeqDef
<1> QED
  BY <1>8 DEF w
\* A sequence holds no more things than it is long.
LEMMA HeldIsBounded ==
    ASSUME NEW X, NEW q \in Seq(X)
    PROVE  IsFiniteSet(Held(q)) /\ Cardinality(Held(q)) <= Len(q)
<1>1. PICK n \in Nat : n = Len(q)
  OBVIOUS
<1>2. [i \in 1 .. n |-> q[i]] \in Surjection(1 .. n, Held(q))
  BY <1>1 DEF Surjection, Held
<1>3. IsFiniteSet(1 .. n) /\ Cardinality(1 .. n) = n
  BY FS_Interval
<1> QED
  BY <1>1, <1>2, <1>3, FS_Surjection

\* New cards keep the limit of the day.
LEMMA FreshKeepsLimit ==
    ASSUME NEW X, NEW q \in Seq(X), NEW t, Studied(t, "new") \in Nat,
           \A i \in 1 .. Len(q) : cards[q[i]].history = <<>>,
           WithinDailyLimit(q, t, "new", NewLimit) # <<>>
    PROVE  Studied(t, "new") + Len(WithinDailyLimit(q, t, "new", NewLimit)) <= NewLimit
<1> DEFINE counted(i) == Cardinality({j \in 1 .. i : Queue(cards[q[j]].history) = "new"})
           kept == {i \in DOMAIN q : \/ Queue(cards[q[i]].history) # "new"
                                     \/ Studied(t, "new") + counted(i) <= NewLimit}
           w == WithinDailyLimit(q, t, "new", NewLimit)
<1>1. w = [n \in 1 .. Cardinality(kept) |-> q[ByRank(kept)[n]]]
  BY DEF WithinDailyLimit
<1>2. \A i \in 1 .. Len(q) : Queue(cards[q[i]].history) = "new"
  BY DEF Queue
<1>3. PICK n \in Nat, studied \in Nat, limit \in Nat :
            n = Len(q) /\ studied = Studied(t, "new") /\ limit = NewLimit
  <2>1. NewLimit \in Nat /\ Len(q) \in Nat
    BY LimitAssumption
  <2> QED
    BY <2>1
<1>4. \A i \in 1 .. n : counted(i) = i
  <2> TAKE i \in 1 .. n
  <2>1. \A j \in 1 .. i : Queue(cards[q[j]].history) = "new"
    BY <1>2, <1>3
  <2>2. {j \in 1 .. i : Queue(cards[q[j]].history) = "new"} = 1 .. i
    BY <2>1
  <2>3. i \in Nat /\ Cardinality(1 .. i) = i
    BY FS_Interval
  <2> QED
    BY <2>2, <2>3
<1>5. kept = {i \in 1 .. n : studied + i <= limit}
  <2> HIDE DEF counted
  <2>1. DOMAIN q = 1 .. n
    BY <1>3
  <2> QED
    BY <1>2, <1>3, <1>4, <2>1
<1> HIDE DEF kept, w
<1>6. IsFiniteSet(kept) /\ Cardinality(kept) \in Nat
  <2>1. IsFiniteSet(1 .. n)
    BY FS_Interval
  <2>2. kept \in SUBSET (1 .. n)
    BY <1>5
  <2>3. IsFiniteSet(kept)
    BY <2>1, <2>2, FS_Subset
  <2> QED
    BY <2>3, FS_CardinalityType
<1>7. w \in Seq(X) /\ Len(w) = Cardinality(kept)
  <2>1. w \in Seq(X)
    BY WithinHolds DEF w
  <2>2. DOMAIN w = 1 .. Len(w) /\ Len(w) \in Nat
    BY <2>1, LenProperties
  <2>3. DOMAIN w = 1 .. Cardinality(kept)
    BY <1>1
  <2>4. \A k, l \in Nat : 1 .. k = 1 .. l => k = l
    <3> SUFFICES ASSUME NEW k \in Nat, NEW l \in Nat, 1 .. k = 1 .. l PROVE k = l
      OBVIOUS
    <3>1. k \in 1 .. l \/ k = 0
      OBVIOUS
    <3>2. l \in 1 .. k \/ l = 0
      OBVIOUS
    <3> QED
      BY <3>1, <3>2
  <2>5. Len(w) = Cardinality(kept)
    BY <1>6, <2>2, <2>3, <2>4
  <2> QED
    BY <2>1, <2>5
<1>8. Cardinality(kept) # 0
  <2> SUFFICES ASSUME Cardinality(kept) = 0 PROVE FALSE
    OBVIOUS
  <2>1. Len(w) = 0
    BY <1>7
  <2>2. w = <<>>
    BY <1>7, <2>1, EmptySeq
  <2> QED
    BY <2>2 DEF w
<1>9. kept # {}
  BY <1>8, FS_EmptySet
<1>10. studied + 1 <= limit /\ kept \in SUBSET (1 .. limit - studied)
  BY <1>5, <1>9
<1>11. Cardinality(kept) <= limit - studied
  <2>1. limit - studied \in Nat
    BY <1>10
  <2>2. PICK m \in Nat : m = limit - studied
    BY <2>1
  <2>3. IsFiniteSet(1 .. m) /\ Cardinality(1 .. m) = m
    <3>1. 1 \in Int /\ m \in Int
      OBVIOUS
    <3>2. IsFiniteSet(1 .. m) /\ Cardinality(1 .. m) = IF 1 > m THEN 0 ELSE m - 1 + 1
      BY <3>1, FS_Interval
    <3>3. (IF 1 > m THEN 0 ELSE m - 1 + 1) = m
      OBVIOUS
    <3> QED
      BY <3>2, <3>3
  <2>4. kept \in SUBSET (1 .. m)
    BY <1>10, <2>2
  <2>5. Cardinality(kept) <= Cardinality(1 .. m)
    BY <2>3, <2>4, FS_Subset
  <2> QED
    BY <2>2, <2>3, <2>5
<1>12. studied + Cardinality(kept) <= limit
  BY <1>6, <1>11
<1> QED
  BY <1>3, <1>7, <1>12 DEF w
\* The reviews of a day can be counted.
LEMMA TodayIsFinite ==
    ASSUME TypeInv, NEW t, NEW queue
    PROVE  /\ IsFiniteSet(Today(t)) /\ Cardinality(Today(t)) \in Nat
           /\ Studied(t, queue) \in Nat
           /\ \A S \in SUBSET Today(t) : IsFiniteSet(S)
<1>1. PICK n \in Nat : n = Len(reviews)
  BY DEF TypeInv
<1>2. Today(t) \in SUBSET (1 .. n)
  BY <1>1 DEF TypeInv, Today
<1>3. IsFiniteSet(1 .. n)
  <2>1. 1 \in Int /\ n \in Int
    OBVIOUS
  <2> QED
    BY <2>1, FS_Interval
<1>4. IsFiniteSet(Today(t))
  BY <1>2, <1>3, FS_Subset
<1>5. \A S \in SUBSET Today(t) : IsFiniteSet(S) /\ Cardinality(S) \in Nat
  BY <1>4, FS_Subset, FS_CardinalityType
<1>6. {i \in Today(t) : Present(reviews[i].card) /\ Queue(reviews[i].prev.history) = queue}
      \in SUBSET Today(t)
  OBVIOUS
<1> QED
  BY <1>4, <1>5, <1>6 DEF Studied

\* There is some time left in a day, or none.
LEMMA RemainingIsTime ==
    ASSUME TypeInv, NEW t PROVE Remaining(t) \in Nat
<1>1. PICK k \in Nat, d \in Nat : k = Cardinality(Today(t)) /\ d = DailySeconds
  <2>1. Cardinality(Today(t)) \in Nat /\ DailySeconds \in Nat
    BY TodayIsFinite, LimitAssumption
  <2> QED
    BY <2>1
<1>2. d - 14 * k \in Int
  OBVIOUS
<1>3. \A n \in Int : AtLeastZero(n) \in Nat
  BY DEF AtLeastZero
<1> QED
  BY <1>1, <1>2, <1>3 DEF Remaining, ReviewSeconds

\* The number of new cards that are safe is a number.
LEMMA SafeNewIsNumber ==
    ASSUME TypeInv, NEW t, NEW X, NEW due \in Seq(X), Len(due) <= Remaining(t) \div ReviewSeconds
    PROVE  SafeNew(t, due) \in Nat
<1> DEFINE left == Remaining(t) - ReviewSeconds * Len(due)
           headroom(d) == AtLeastZero(88 * DailySeconds - 100 * ReviewSeconds * Forecast(t, d))
                          \div (100 * FutureNewCost[d])
           T == {left \div NewSeconds, Cardinality(Fresh(t))}
                    \cup {headroom(d) : d \in DOMAIN FutureNewCost}
<1>1. PICK r \in Nat, k \in Nat : r = Remaining(t) /\ k = Len(due)
  BY RemainingIsTime
<1>2. k <= r \div 14
  BY <1>1 DEF ReviewSeconds
<1>3. left \div NewSeconds \in Nat
  <2>1. r - 14 * k \in Nat
    BY <1>2
  <2>2. (r - 14 * k) \div 72 \in Nat
    BY <2>1
  <2> QED
    BY <1>1, <2>2 DEF ReviewSeconds, NewSeconds
<1>4. Cardinality(Fresh(t)) \in Nat
  <2>1. Fresh(t) \in SUBSET Cards
    BY DEF Fresh
  <2> QED
    BY <2>1, CardAssumption, FS_Subset, FS_CardinalityType
<1>5. ASSUME NEW d \in DOMAIN FutureNewCost PROVE headroom(d) \in Nat
  <2>1. FutureNewCost[d] \in Nat \ {0}
    BY DEF FutureNewCost
  <2>2. Forecast(t, d) \in Nat
    <3> DEFINE F == {c \in Cards : Active(c, t) /\ cards[c].history # <<>>
                                   /\ Day(DueAt(cards[c].history)) = Day(t) + d}
    <3>1. F \in SUBSET Cards
      OBVIOUS
    <3> HIDE DEF F
    <3>2. Cardinality(F) \in Nat
      BY <3>1, CardAssumption, FS_Subset, FS_CardinalityType
    <3> QED
      BY <3>2 DEF Forecast, F
  <2>3. PICK f \in Nat, cost \in Nat \ {0}, s \in Nat :
            f = Forecast(t, d) /\ cost = FutureNewCost[d] /\ s = DailySeconds
    <3>1. DailySeconds \in Nat
      BY LimitAssumption
    <3> QED
      BY <2>1, <2>2, <3>1
  <2>4. PICK a \in Nat : a = AtLeastZero(88 * s - 100 * 14 * f)
    <3>1. 88 * s - 100 * 14 * f \in Int
      OBVIOUS
    <3>2. \A n \in Int : AtLeastZero(n) \in Nat
      BY DEF AtLeastZero
    <3> QED
      BY <3>1, <3>2
  <2>5. a \div (100 * cost) \in Nat
    <3>1. PICK c \in Nat \ {0} : c = 100 * cost
      OBVIOUS
    <3>2. a \div c \in Nat
      OBVIOUS
    <3> QED
      BY <3>1, <3>2
  <2> QED
    BY <2>3, <2>4, <2>5 DEF ReviewSeconds
<1>6. T \in SUBSET Nat /\ T # {}
  <2> HIDE DEF left, headroom
  <2> QED
    BY <1>3, <1>4, <1>5
<1>7. SafeNew(t, due) = IF Len(due) < Cardinality(DueCandidates(t)) THEN 0 ELSE Min(T)
  BY DEF SafeNew
<1> HIDE DEF T
<1>8. Min(T) \in Nat
  BY <1>6, MinIsLeast
<1> QED
  BY <1>7, <1>8
\* The cards of the plan of a moment that are new.
NewInPlan(t) == {c \in ToSet(PlanQueue(t)) : cards[c].history = <<>>}

\* The plan is of active cards, and its new cards and those studied keep the limit.
LEMMA PlanHolds ==
    ASSUME TypeInv, NEW t
    PROVE  /\ \A c \in ToSet(PlanQueue(t)) : c \in Cards /\ Active(c, t)
           /\ NewInPlan(t) # {} => Studied(t, "new") + Cardinality(NewInPlan(t)) <= NewLimit
           /\ IsFiniteSet(NewInPlan(t))
<1> DEFINE due == PlannedDue(t)
           within == WithinDailyLimit(DueOrder(t), t, "review", ReviewLimit)
           fresh == WithinDailyLimit(ByRank(Fresh(t)), t, "new", NewLimit)
           chosen == FirstOf(fresh, SafeNew(t, due))
<1>1. Fresh(t) \in SUBSET Cards /\ DueCandidates(t) \in SUBSET Cards
  BY DEF Fresh, DueCandidates
<1>2. due \in Seq(DueCandidates(t)) /\ Len(due) <= Remaining(t) \div ReviewSeconds
  <2>1. within \in Seq(DueCandidates(t))
    BY DueOrderHolds, WithinHolds
  <2>2. Remaining(t) \div ReviewSeconds \in Nat
    <3>1. PICK r \in Nat : r = Remaining(t)
      BY RemainingIsTime
    <3>2. r \div 14 \in Nat
      OBVIOUS
    <3> QED
      BY <3>1, <3>2 DEF ReviewSeconds
  <2>3. due = FirstOf(within, Remaining(t) \div ReviewSeconds)
    BY DEF PlannedDue
  <2> HIDE DEF within, due
  <2> QED
    BY <2>1, <2>2, <2>3, FirstOfHolds
<1>3. ByRank(Fresh(t)) \in Seq(Fresh(t))
  <2>1. Fresh(t) \in SUBSET Nat /\ IsFiniteSet(Fresh(t))
    BY <1>1, CardAssumption, FS_Subset
  <2> QED
    BY <2>1, ByRankHolds
<1>4. fresh \in Seq(Fresh(t))
  BY <1>3, WithinHolds
<1>5. SafeNew(t, due) \in Nat
  <2> HIDE DEF due
  <2> QED
    BY <1>2, SafeNewIsNumber
<1>6. chosen \in Seq(Fresh(t)) /\ Len(chosen) <= Len(fresh)
  <2> HIDE DEF fresh, due
  <2> QED
    BY <1>4, <1>5, FirstOfHolds
<1>7. PlanQueue(t) = due \o chosen
  BY DEF PlanQueue
<1>8. PICK q \in Seq(Cards), r \in Seq(Cards) : q = due /\ r = chosen
  <2> HIDE DEF due, chosen
  <2>1. \A S \in SUBSET Cards : \A s \in Seq(S) : s \in Seq(Cards)
    OBVIOUS
  <2> QED
    BY <1>1, <1>2, <1>6, <2>1
<1>9. Held(q) \subseteq DueCandidates(t) /\ Held(r) \subseteq Fresh(t)
  <2> HIDE DEF due, chosen
  <2> QED
    BY <1>2, <1>6, <1>8, HeldIsMembers
<1>10. ToSet(PlanQueue(t)) = Held(q) \cup Held(r)
  <2> HIDE DEF due, chosen
  <2>1. q \o r \in Seq(Cards) /\ Held(q \o r) = Held(q) \cup Held(r)
    BY ConcatHolds
  <2>2. ToSet(q \o r) = Held(q \o r)
    BY <2>1, HeldIsMembers
  <2> QED
    BY <1>7, <1>8, <2>1, <2>2
<1>11. NewInPlan(t) \subseteq Held(r)
  BY <1>9, <1>10 DEF NewInPlan, DueCandidates
<1>12. IsFiniteSet(NewInPlan(t)) /\ Cardinality(NewInPlan(t)) <= Len(r)
  <2>1. IsFiniteSet(Held(r)) /\ Cardinality(Held(r)) <= Len(r)
    BY HeldIsBounded
  <2>2. NewInPlan(t) \in SUBSET Held(r)
    BY <1>11
  <2>3. /\ IsFiniteSet(NewInPlan(t)) /\ Cardinality(NewInPlan(t)) <= Cardinality(Held(r))
    BY <2>1, <2>2, FS_Subset
  <2>4. Cardinality(NewInPlan(t)) \in Nat /\ Cardinality(Held(r)) \in Nat /\ Len(r) \in Nat
    BY <2>1, <2>3, FS_CardinalityType
  <2> QED
    BY <2>1, <2>3, <2>4
<1>13. ASSUME NewInPlan(t) # {} PROVE Studied(t, "new") + Cardinality(NewInPlan(t)) <= NewLimit
  <2>1. fresh # <<>>
    <3> SUFFICES ASSUME fresh = <<>> PROVE FALSE
      OBVIOUS
    <3> HIDE DEF fresh, chosen
    <3>1. Len(fresh) = 0
      OBVIOUS
    <3>2. Len(r) = 0
      BY <1>6, <1>8, <3>1
    <3>3. Held(r) = {}
      BY <3>2 DEF Held
    <3> QED
      BY <1>11, <1>13, <3>3
  <2>2. \A i \in 1 .. Len(ByRank(Fresh(t))) : cards[ByRank(Fresh(t))[i]].history = <<>>
    <3>1. \A i \in 1 .. Len(ByRank(Fresh(t))) : ByRank(Fresh(t))[i] \in Fresh(t)
      BY <1>3
    <3> QED
      BY <3>1 DEF Fresh
  <2>3. Studied(t, "new") + Len(fresh) <= NewLimit
    <3>1. PICK p \in Seq(Fresh(t)) : p = ByRank(Fresh(t))
      BY <1>3
    <3>2. \A i \in 1 .. Len(p) : cards[p[i]].history = <<>>
      BY <2>2, <3>1
    <3>3. WithinDailyLimit(p, t, "new", NewLimit) # <<>>
      BY <2>1, <3>1
    <3> QED
      BY <3>1, <3>2, <3>3, TodayIsFinite, FreshKeepsLimit
  <2> HIDE DEF fresh, chosen
  <2>4. PICK a \in Nat, b \in Nat, m \in Nat, limit \in Nat, d \in Nat :
            /\ a = Studied(t, "new") /\ b = Cardinality(NewInPlan(t)) /\ m = Len(r)
            /\ limit = NewLimit /\ d = Len(fresh)
    <3>1. Studied(t, "new") \in Nat
      BY TodayIsFinite
    <3>2. Cardinality(NewInPlan(t)) \in Nat
      BY <1>12, FS_CardinalityType
    <3>3. Len(r) \in Nat /\ NewLimit \in Nat /\ Len(fresh) \in Nat
      BY <1>4, LimitAssumption
    <3> QED
      BY <3>1, <3>2, <3>3
  <2>5. b <= m /\ m <= d /\ a + d <= limit
    BY <1>6, <1>8, <1>12, <2>3, <2>4
  <2> QED
    BY <2>4, <2>5
<1>14. ASSUME NEW c \in ToSet(PlanQueue(t)) PROVE c \in Cards /\ Active(c, t)
  BY <1>1, <1>9, <1>10 DEF Fresh, DueCandidates
<1> QED
  BY <1>12, <1>13, <1>14
-----------------------------------------------------------------------------
(* The review log in a step *)

\* What is said of the reviews is said of the log alone.
LEMMA LogUnchanged ==
    ASSUME reviews' = reviews
    PROVE  /\ Reversed' = Reversed /\ Undoable' = Undoable
           /\ \A i : Surviving(i)' <=> Surviving(i)
           /\ \A d : Own(d)' = Own(d)
           /\ \A c, n : Told(c, n)' = Told(c, n)
<1>1. Reversed' = Reversed /\ Undoable' = Undoable
  BY DEF Reversed, Undoable
<1>2. \A i : Surviving(i)' <=> Surviving(i)
  BY <1>1 DEF Surviving
<1>3. \A d : Own(d)' = Own(d)
  BY <1>2 DEF Own, Day
<1>4. ASSUME NEW c, NEW n PROVE Told(c, n)' = Told(c, n)
  <2>1. Told(c, n) = Recited(reviews, Reversed, c, n) /\ Told(c, n)' = Recited(reviews', Reversed', c, n)
    BY ToldIsRecited
  <2> QED
    BY <1>1, <2>1
<1> QED
  BY <1>1, <1>2, <1>3, <1>4

\* An event more.
LEMMA LogGrows ==
    ASSUME TypeInv, LogInv, NEW event \in Events, reviews' = Append(reviews, event),
           event.reverses \in 0 .. Len(reviews)
    PROVE  /\ Len(reviews) \in Nat /\ Len(reviews') = Len(reviews) + 1 /\ reviews' \in Seq(Events)
           /\ DOMAIN reviews = 1 .. Len(reviews) /\ DOMAIN reviews' = 1 .. Len(reviews) + 1
           /\ \A i \in 1 .. Len(reviews) : reviews'[i] = reviews[i]
           /\ reviews'[Len(reviews) + 1] = event
           /\ Reversed' = Reversed \cup {event.reverses}
           /\ \A i \in Reversed' : i \in 0 .. Len(reviews)
<1>1. reviews \in Seq(Events)
  BY DEF TypeInv
<1>2. /\ Len(reviews) \in Nat /\ Len(reviews') = Len(reviews) + 1 /\ reviews' \in Seq(Events)
      /\ DOMAIN reviews = 1 .. Len(reviews) /\ DOMAIN reviews' = 1 .. Len(reviews) + 1
      /\ \A i \in 1 .. Len(reviews) : reviews'[i] = reviews[i]
      /\ reviews'[Len(reviews) + 1] = event
  BY <1>1
<1>3. PICK n \in Nat : n = Len(reviews)
  BY <1>2
<1>4. Reversed' = Reversed \cup {event.reverses}
  <2>1. \A i \in 1 .. n + 1 : i \in 1 .. n \/ i = n + 1
    OBVIOUS
  <2>2. \A i \in 1 .. n : i \in 1 .. n + 1
    OBVIOUS
  <2>3. \A r : r \in Reversed' => r \in Reversed \cup {event.reverses}
    BY <1>2, <1>3, <2>1 DEF Reversed
  <2>4. \A r : r \in Reversed => r \in Reversed'
    BY <1>2, <1>3, <2>2 DEF Reversed
  <2>5. event.reverses \in Reversed'
    <3>1. n + 1 \in 1 .. n + 1
      OBVIOUS
    <3> QED
      BY <1>2, <1>3, <3>1 DEF Reversed
  <2> QED
    BY <2>3, <2>4, <2>5
<1>5. \A i \in Reversed : i \in 0 .. Len(reviews)
  <2> SUFFICES ASSUME NEW j \in 1 .. n PROVE reviews[j].reverses \in 0 .. n
    BY <1>2, <1>3 DEF Reversed
  <2>1. reviews[j] \in Events
    BY <1>1, <1>3
  <2>2. reviews[j].reverses \in Nat
    BY <2>1 DEF Events
  <2>3. reviews[j].reverses < j
    BY <1>3 DEF LogInv
  <2> QED
    BY <2>2, <2>3
<1> QED
  BY <1>2, <1>4, <1>5

\* A review more, or a preview.
LEMMA ReviewGrows ==
    ASSUME TypeInv, LogInv, NEW event \in Events, reviews' = Append(reviews, event),
           NEW n \in Nat, n = Len(reviews),
           event.reverses = 0, event.kind \in {"review", "preview"}
    PROVE  /\ \A i \in 1 .. n : Surviving(i)' <=> Surviving(i)
           /\ Surviving(n + 1)' <=> event.kind = "review"
           /\ Undoable' = Undoable \cup (IF event.device = "other" THEN {} ELSE {n + 1})
           /\ \A d : Own(d)' = Own(d) \cup
                (IF event.planned /\ event.kind = "review" /\ Day(event.at) = d
                 THEN {n + 1} ELSE {})
           /\ \A c : \A k \in 0 .. n : Told(c, k)' = Told(c, k)
           /\ \A c : Told(c, n + 1)' =
                IF event.card = c /\ event.kind = "review"
                THEN Append(Told(c, n), [rating |-> event.rating, at |-> event.at])
                ELSE Told(c, n)
<1>2. /\ Len(reviews') = n + 1
      /\ DOMAIN reviews = 1 .. n /\ DOMAIN reviews' = 1 .. n + 1
      /\ \A i \in 1 .. n : reviews'[i] = reviews[i]
      /\ reviews'[n + 1] = event
      /\ Reversed' = Reversed \cup {0}
      /\ \A i \in Reversed' : i \in 0 .. n
  <2>1. event.reverses \in 0 .. Len(reviews)
    OBVIOUS
  <2> QED
    BY <2>1, LogGrows
<1>3. \A i \in 1 .. n : i \in Reversed' <=> i \in Reversed
  BY <1>2
<1>4. n + 1 \notin Reversed'
  BY <1>2
<1>5. \A i \in 1 .. n : Surviving(i)' <=> Surviving(i)
  BY <1>2, <1>3 DEF Surviving
<1>6. Surviving(n + 1)' <=> event.kind = "review"
  BY <1>2, <1>4 DEF Surviving
<1>7. \A i \in 1 .. n + 1 : i \in 1 .. n \/ i = n + 1
  OBVIOUS
<1>8. \A i \in 1 .. n : i \in 1 .. n + 1
  OBVIOUS
<1>9. n + 1 \in 1 .. n + 1
  OBVIOUS
<1>10. Undoable' = Undoable \cup (IF event.device = "other" THEN {} ELSE {n + 1})
  <2>1. \A i \in 1 .. n : i \in Undoable' <=> i \in Undoable
    BY <1>2, <1>3, <1>8 DEF Undoable
  <2>2. n + 1 \in Undoable' <=> event.device # "other"
    BY <1>2, <1>4, <1>9 DEF Undoable
  <2>3. Undoable \subseteq 1 .. n /\ Undoable' \subseteq 1 .. n + 1
    BY <1>2 DEF Undoable
  <2> QED
    BY <1>7, <2>1, <2>2, <2>3
<1>11. \A d : Own(d)' = Own(d) \cup
                (IF event.planned /\ event.kind = "review" /\ Day(event.at) = d
                 THEN {n + 1} ELSE {})
  <2> TAKE d
  <2>1. \A i \in 1 .. n : i \in Own(d)' <=> i \in Own(d)
    BY <1>2, <1>5, <1>8 DEF Own, Day
  <2>2. n + 1 \in Own(d)' <=> (event.planned /\ event.kind = "review" /\ Day(event.at) = d)
    BY <1>2, <1>6, <1>9 DEF Own, Day
  <2>3. Own(d) \subseteq 1 .. n /\ Own(d)' \subseteq 1 .. n + 1
    BY <1>2 DEF Own
  <2> QED
    BY <1>7, <2>1, <2>2, <2>3
<1>12. ASSUME NEW c, NEW k \in 0 .. n PROVE Told(c, k)' = Told(c, k)
  <2>1. k \in Nat /\ \A i \in 1 .. k : i \in 1 .. n
    OBVIOUS
  <2>2. \A i \in 1 .. k : /\ Counts(reviews', Reversed', c, i) <=> Counts(reviews, Reversed, c, i)
                          /\ Entry(reviews', i) = Entry(reviews, i)
    BY <1>2, <1>3, <2>1 DEF Counts, Entry
  <2>3. Recited(reviews', Reversed', c, k) = Recited(reviews, Reversed, c, k)
    BY <2>1, <2>2, RecitedAgrees
  <2> QED
    BY <2>3, ToldIsRecited
<1>13. ASSUME NEW c
       PROVE  Told(c, n + 1)' = IF event.card = c /\ event.kind = "review"
                THEN Append(Told(c, n), [rating |-> event.rating, at |-> event.at])
                ELSE Told(c, n)
  <2>1. Told(c, n)' = Told(c, n)
    BY <1>12
  <2>2. Recited(reviews', Reversed', c, n + 1) =
            IF Counts(reviews', Reversed', c, n + 1)
            THEN Append(Recited(reviews', Reversed', c, n), Entry(reviews', n + 1))
            ELSE Recited(reviews', Reversed', c, n)
    BY RecitedGrows
  <2>3. Counts(reviews', Reversed', c, n + 1) <=> event.card = c /\ event.kind = "review"
    BY <1>2, <1>4 DEF Counts
  <2>4. Entry(reviews', n + 1) = [rating |-> event.rating, at |-> event.at]
    BY <1>2 DEF Entry
  <2>5. Told(c, n + 1)' = Recited(reviews', Reversed', c, n + 1) /\ Told(c, n)' = Recited(reviews', Reversed', c, n)
    BY ToldIsRecited
  <2> QED
    BY <2>1, <2>2, <2>3, <2>4, <2>5
<1> QED
  BY <1>5, <1>6, <1>10, <1>11, <1>12, <1>13

\* A review less.
LEMMA ReversalGrows ==
    ASSUME TypeInv, LogInv, NEW event \in Events, reviews' = Append(reviews, event),
           NEW n \in Nat, n = Len(reviews), NEW r \in 1 .. n, event.reverses = r,
           event.kind = "reversal", ~event.planned
    PROVE  /\ \A i \in 1 .. n : Surviving(i)' <=> Surviving(i) /\ i # r
           /\ ~Surviving(n + 1)'
           /\ Undoable' = Undoable \ {r}
           /\ \A d : Own(d)' = Own(d) \ {r}
           /\ \A c : \A k \in 0 .. r - 1 : Told(c, k)' = Told(c, k)
           /\ \A c : reviews[r].card # c => Told(c, n + 1)' = Told(c, n)
           /\ \A c : (\A i \in r + 1 .. n : reviews[i].card = c => ~Surviving(i))
                     => Told(c, n + 1)' = Told(c, r - 1)
<1>2. /\ Len(reviews') = n + 1
      /\ DOMAIN reviews = 1 .. n /\ DOMAIN reviews' = 1 .. n + 1
      /\ \A i \in 1 .. n : reviews'[i] = reviews[i]
      /\ reviews'[n + 1] = event
      /\ Reversed' = Reversed \cup {r}
  <2>1. event.reverses \in 0 .. Len(reviews)
    OBVIOUS
  <2> QED
    BY <2>1, LogGrows
<1>3. \A i \in 1 .. n : i \in Reversed' <=> i \in Reversed \/ i = r
  BY <1>2
<1>4. \A i \in 1 .. n : Surviving(i)' <=> Surviving(i) /\ i # r
  BY <1>2, <1>3 DEF Surviving
<1>5. ~Surviving(n + 1)'
  BY <1>2 DEF Surviving
<1>6. \A i \in 1 .. n + 1 : i \in 1 .. n \/ i = n + 1
  OBVIOUS
<1>7. \A i \in 1 .. n : i \in 1 .. n + 1
  OBVIOUS
<1>8. n + 1 # r
  OBVIOUS
<1>9. Undoable' = Undoable \ {r}
  <2>1. \A i \in 1 .. n : i \in Undoable' <=> i \in Undoable /\ i # r
    BY <1>2, <1>3, <1>7 DEF Undoable
  <2>2. n + 1 \notin Undoable'
    BY <1>2 DEF Undoable
  <2>3. Undoable \subseteq 1 .. n /\ Undoable' \subseteq 1 .. n + 1
    BY <1>2 DEF Undoable
  <2> QED
    BY <1>6, <2>1, <2>2, <2>3
<1>10. \A d : Own(d)' = Own(d) \ {r}
  <2> TAKE d
  <2>1. \A i \in 1 .. n : i \in Own(d)' <=> i \in Own(d) /\ i # r
    BY <1>2, <1>4, <1>7 DEF Own, Day
  <2>2. n + 1 \notin Own(d)'
    BY <1>2, <1>5 DEF Own
  <2>3. Own(d) \subseteq 1 .. n /\ Own(d)' \subseteq 1 .. n + 1
    BY <1>2 DEF Own
  <2> QED
    BY <1>6, <2>1, <2>2, <2>3
<1>11. ASSUME NEW c, NEW k \in 0 .. r - 1 PROVE Told(c, k)' = Told(c, k)
  <2>1. k \in Nat /\ \A i \in 1 .. k : i \in 1 .. n /\ i # r
    OBVIOUS
  <2>2. \A i \in 1 .. k : /\ Counts(reviews', Reversed', c, i) <=> Counts(reviews, Reversed, c, i)
                          /\ Entry(reviews', i) = Entry(reviews, i)
    BY <1>2, <1>3, <2>1 DEF Counts, Entry
  <2>3. Recited(reviews', Reversed', c, k) = Recited(reviews, Reversed, c, k)
    BY <2>1, <2>2, RecitedAgrees
  <2> QED
    BY <2>3, ToldIsRecited
<1>12. ASSUME NEW c, reviews[r].card # c PROVE Told(c, n + 1)' = Told(c, n)
  <2>1. \A i \in 1 .. n : /\ Counts(reviews', Reversed', c, i) <=> Counts(reviews, Reversed, c, i)
                          /\ Entry(reviews', i) = Entry(reviews, i)
    BY <1>2, <1>3, <1>12 DEF Counts, Entry
  <2>2. Recited(reviews', Reversed', c, n) = Recited(reviews, Reversed, c, n)
    BY <2>1, RecitedAgrees
  <2>3. ~Counts(reviews', Reversed', c, n + 1)
    BY <1>2 DEF Counts
  <2>4. Recited(reviews', Reversed', c, n + 1) = Recited(reviews', Reversed', c, n)
    BY <2>3, RecitedGrows
  <2> QED
    BY <2>2, <2>4, ToldIsRecited
<1>13. ASSUME NEW c, \A i \in r + 1 .. n : reviews[i].card = c => ~Surviving(i)
       PROVE  Told(c, n + 1)' = Told(c, r - 1)
  <2>1. r - 1 \in Nat /\ r - 1 <= n + 1 /\ (r - 1) + 1 = r /\ r - 1 \in 0 .. r - 1
    OBVIOUS
  <2>2. \A i \in r .. n + 1 : i = r \/ i \in r + 1 .. n \/ i = n + 1
    OBVIOUS
  <2>3. \A i \in r + 1 .. n : i \in 1 .. n
    OBVIOUS
  <2>4. \A i \in r .. n + 1 : ~Counts(reviews', Reversed', c, i)
    <3> TAKE i \in r .. n + 1
    <3>1. CASE i = r
      BY <1>2, <3>1 DEF Counts
    <3>2. CASE i = n + 1
      BY <1>2, <3>2 DEF Counts
    <3>3. CASE i \in r + 1 .. n
      BY <1>2, <1>3, <1>13, <2>3, <3>3 DEF Counts, Surviving
    <3> QED
      BY <2>2, <3>1, <3>2, <3>3
  <2>5. Recited(reviews', Reversed', c, n + 1) = Recited(reviews', Reversed', c, r - 1)
    <3>1. n + 1 \in Nat
      OBVIOUS
    <3>2. \A i \in (r - 1) + 1 .. n + 1 : ~Counts(reviews', Reversed', c, i)
      BY <2>1, <2>4
    <3> QED
      BY <2>1, <3>1, <3>2, RecitedStays
  <2>6. Told(c, r - 1)' = Told(c, r - 1)
    BY <1>11, <2>1
  <2> QED
    BY <2>5, <2>6, ToldIsRecited
<1> QED
  BY <1>4, <1>5, <1>9, <1>10, <1>11, <1>12, <1>13
-----------------------------------------------------------------------------
(* What a review does *)

\* The parts of the state of a card.
LEMMA CardParts ==
    ASSUME TypeInv, NEW c \in Cards
    PROVE  /\ cards[c] \in CardStates
           /\ cards[c].history \in Histories /\ cards[c].buriedUntil \in Nat
           /\ cards[c].suspended \in BOOLEAN
<1>1. cards[c] \in CardStates
  BY DEF TypeInv
<1> QED
  BY <1>1 DEF CardStates

\* Cards of one note are present together.
LEMMA MatesArePresent ==
    ASSUME NEW c \in Cards, Present(c) PROVE Siblings(c) = Mates(c)
BY DEF Siblings, Mates, Present

\* A review gives its card a history, and buries the siblings until the next day.
LEMMA CardsAfterHolds ==
    ASSUME TypeInv, BurialTimes, NEW c \in Cards, Present(c), NEW h \in Histories,
           NEW reschedule \in BOOLEAN, cards' = CardsAfter(c, h, reschedule)
    PROVE  /\ cards' \in [Cards -> CardStates]
           /\ cards'[c].history = h /\ cards'[c].buriedUntil = cards[c].buriedUntil
           /\ \A x \in Cards \ {c} : cards'[x].history = cards[x].history
           /\ \A x \in Cards : /\ cards[x].buriedUntil <= cards'[x].buriedUntil
                               /\ cards'[x].buriedUntil <= NextDay(now)
           /\ reschedule /\ BurySiblings =>
                \A s \in Mates(c) : cards'[s].buriedUntil = NextDay(now)
<1> DEFINE leech == reschedule /\ Lapses(h) >= LeechThreshold
           changed == SiblingChanges(c, reschedule)
           after == [x \in Cards |->
              CASE x = c -> [cards[x] EXCEPT !.history = h, !.suspended = @ \/ (leech /\ LeechSuspends)]
                [] x \in changed -> [cards[x] EXCEPT !.buriedUntil = NextDay(now)]
                [] OTHER -> cards[x]]
<1>1. cards' = after
  BY DEF CardsAfter
<1>2. NextDay(now) \in Nat
  <2>1. now \in Nat
    BY DEF TypeInv
  <2> QED
    BY <2>1, NextDayIsLater
<1>3. changed \subseteq Mates(c) /\ c \notin Mates(c)
  BY MatesArePresent DEF SiblingChanges, Mates
<1>4. /\ after[c] \in CardStates /\ after[c].history = h /\ after[c].buriedUntil = cards[c].buriedUntil
  <2>1. PICK k \in CardStates : k = cards[c]
    BY CardParts
  <2>2. PICK b \in BOOLEAN : b = (k.suspended \/ (leech /\ LeechSuspends))
    OBVIOUS
  <2> HIDE DEF leech
  <2> HIDE DEF changed
  <2>3. after[c] = [k EXCEPT !.history = h, !.suspended = @ \/ (leech /\ LeechSuspends)]
    BY <1>3, <2>1
  <2>4. [k EXCEPT !.history = h, !.suspended = @ \/ (leech /\ LeechSuspends)]
        = [[k EXCEPT !.history = h] EXCEPT !.suspended = b]
    BY <2>2 DEF CardStates
  <2>5. PICK l \in CardStates : l = [k EXCEPT !.history = h]
    BY DEF CardStates
  <2>6. l.history = h /\ l.buriedUntil = k.buriedUntil
    BY <2>5 DEF CardStates
  <2>7. PICK m \in CardStates : m = [l EXCEPT !.suspended = b]
    BY DEF CardStates
  <2>8. m.history = l.history /\ m.buriedUntil = l.buriedUntil
    BY <2>7 DEF CardStates
  <2> QED
    BY <2>1, <2>3, <2>4, <2>5, <2>6, <2>7, <2>8
<1>5. ASSUME NEW x \in Cards \ {c}
      PROVE  /\ after[x] \in CardStates /\ after[x].history = cards[x].history
             /\ after[x].buriedUntil = IF x \in changed THEN NextDay(now) ELSE cards[x].buriedUntil
  <2>1. PICK k \in CardStates : k = cards[x]
    BY CardParts
  <2>2. CASE x \in changed
    <3>1. PICK t \in Nat : t = NextDay(now)
      BY <1>2
    <3>2. after[x] = [k EXCEPT !.buriedUntil = t]
      BY <2>1, <2>2, <3>1
    <3>3. [k EXCEPT !.buriedUntil = t] \in CardStates
      BY DEF CardStates
    <3>4. /\ [k EXCEPT !.buriedUntil = t].history = k.history
          /\ [k EXCEPT !.buriedUntil = t].buriedUntil = t
      BY DEF CardStates
    <3> QED
      BY <2>1, <2>2, <3>1, <3>2, <3>3, <3>4
  <2>3. CASE x \notin changed
    <3>1. after[x] = k
      BY <2>1, <2>3
    <3> QED
      BY <2>1, <2>3, <3>1
  <2> QED
    BY <2>2, <2>3
<1> HIDE DEF after, changed
<1>6. \A x \in Cards : cards[x].buriedUntil <= NextDay(now) /\ cards[x].buriedUntil \in Nat
  BY CardParts DEF BurialTimes
<1>7. after \in [Cards -> CardStates]
  <2>1. \A x \in Cards : after[x] \in CardStates
    BY <1>4, <1>5
  <2>2. after = [x \in Cards |-> after[x]]
    BY DEF after
  <2> QED
    BY <2>1, <2>2
<1>8. \A x \in Cards : cards[x].buriedUntil <= after[x].buriedUntil /\ after[x].buriedUntil <= NextDay(now)
  <2> TAKE x \in Cards
  <2>1. CASE x = c
    BY <1>4, <1>6, <2>1
  <2>2. CASE x # c
    BY <1>2, <1>5, <1>6, <2>2
  <2> QED
    BY <2>1, <2>2
<1>9. ASSUME reschedule, BurySiblings, NEW s \in Mates(c) PROVE after[s].buriedUntil = NextDay(now)
  <2>1. s \in Cards \ {c} /\ s \in Siblings(c)
    BY MatesArePresent DEF Mates
  <2>2. CASE s \in changed
    BY <1>5, <2>1, <2>2
  <2>3. CASE s \notin changed
    <3>1. cards[s].buriedUntil = NextDay(now)
      BY <1>9, <2>1, <2>3 DEF changed, SiblingChanges
    <3> QED
      BY <1>5, <2>1, <2>3, <3>1
  <2> QED
    BY <2>2, <2>3
<1> QED
  BY <1>1, <1>4, <1>5, <1>7, <1>8, <1>9

\* The record of what is done to a card.
LEMMA EventHolds ==
    ASSUME TypeInv, NEW kind \in {"review", "preview", "reversal"}, NEW c \in Cards,
           NEW rating \in Ratings, NEW device \in {"own", "other", "shared"},
           NEW planned \in BOOLEAN, NEW reverses \in Nat, NEW siblings \in SUBSET Cards
    PROVE  \E event \in Events :
              /\ event = Event(kind, c, rating, device, planned, reverses, siblings)
              /\ event.kind = kind /\ event.card = c /\ event.rating = rating /\ event.at = now
              /\ event.device = device /\ event.planned = planned /\ event.reverses = reverses
              /\ event.prev = cards[c]
              /\ DOMAIN event.siblings = siblings
              /\ \A s \in siblings : event.siblings[s] = cards[s].buriedUntil
<1>1. PICK k \in CardStates : k = cards[c]
  BY CardParts
<1>2. PICK until : until = [s \in siblings |-> cards[s].buriedUntil]
  OBVIOUS
<1>3. until \in [siblings -> Nat]
  BY <1>2, CardParts
<1>4. until \in Burials
  BY <1>3 DEF Burials
<1>5. now \in Nat
  BY DEF TypeInv
<1>6. PICK event : event = [kind |-> kind, card |-> c, rating |-> rating, at |-> now, device |-> device,
                            reverses |-> reverses, prev |-> k, siblings |-> until, planned |-> planned]
  OBVIOUS
<1>7. event = Event(kind, c, rating, device, planned, reverses, siblings)
  BY <1>1, <1>2, <1>6 DEF Event
<1>8. event \in Events
  BY <1>4, <1>5, <1>6 DEF Events
<1>9. /\ event.kind = kind /\ event.card = c /\ event.rating = rating /\ event.at = now
      /\ event.device = device /\ event.planned = planned /\ event.reverses = reverses
      /\ event.prev = k /\ event.siblings = until
  BY <1>6
<1> QED
  BY <1>1, <1>2, <1>7, <1>8, <1>9
-----------------------------------------------------------------------------
(* Steps that review nothing *)

\* What is known of an event.
LEMMA EventParts ==
    ASSUME TypeInv, LogInv, NEW i \in 1 .. Len(reviews)
    PROVE  /\ i \in Nat \ {0} /\ DOMAIN reviews = 1 .. Len(reviews)
           /\ reviews[i] \in Events /\ reviews[i].card \in Cards /\ reviews[i].at \in Nat
           /\ reviews[i].prev \in CardStates /\ reviews[i].prev.history \in Histories
           /\ reviews[i].prev.buriedUntil \in Nat /\ reviews[i].reverses \in Nat
           /\ reviews[i].kind \in {"review", "preview", "reversal"} /\ reviews[i].rating \in Ratings
           /\ reviews[i].at <= plannedAt /\ reviews[i].at <= now /\ now \in Nat /\ plannedAt \in Nat
           /\ Day(reviews[i].at) \in Nat /\ Day(now) \in Nat /\ Day(reviews[i].at) <= Day(now)
<1>1. reviews[i] \in Events /\ DOMAIN reviews = 1 .. Len(reviews) /\ i \in Nat \ {0}
  BY DEF TypeInv
<1>2. /\ reviews[i].card \in Cards /\ reviews[i].at \in Nat
      /\ reviews[i].prev \in CardStates /\ reviews[i].reverses \in Nat
      /\ reviews[i].kind \in {"review", "preview", "reversal"} /\ reviews[i].rating \in Ratings
  BY <1>1 DEF Events
<1>3. reviews[i].prev.history \in Histories /\ reviews[i].prev.buriedUntil \in Nat
  BY <1>2 DEF CardStates
<1>4. reviews[i].at <= plannedAt
  BY DEF LogInv
<1>5. now \in Nat /\ plannedAt \in Nat /\ plannedAt <= now
  BY DEF TypeInv
<1>6. reviews[i].at <= now
  BY <1>2, <1>4, <1>5
<1> QED
  BY <1>1, <1>2, <1>3, <1>4, <1>5, <1>6, DayShape, DaysAreOrdered

\* What is known of a review of a plan.
LEMMA OwnParts ==
    ASSUME TypeInv, LogInv, NEW d, NEW i \in Own(d)
    PROVE  /\ i \in 1 .. Len(reviews) /\ i \in Nat \ {0} /\ i \in Undoable
           /\ reviews[i].planned /\ Surviving(i) /\ Day(reviews[i].at) = d
           /\ reviews[i].card \in Cards /\ d \in 0 .. Day(now)
<1>1. i \in 1 .. Len(reviews)
  BY DEF Own, TypeInv
<1>2. reviews[i].planned /\ Surviving(i) /\ Day(reviews[i].at) = d
  BY DEF Own
<1>3. /\ reviews[i].card \in Cards /\ Day(reviews[i].at) \in Nat /\ Day(now) \in Nat
      /\ Day(reviews[i].at) <= Day(now) /\ i \in Nat \ {0} /\ DOMAIN reviews = 1 .. Len(reviews)
  BY <1>1, EventParts
<1>4. reviews[i].kind = "review" /\ reviews[i].device = "own"
  BY <1>1, <1>2 DEF LogInv
<1>5. i \in Undoable
  BY <1>1, <1>2, <1>3, <1>4 DEF Undoable, Surviving
<1> QED
  BY <1>1, <1>2, <1>3, <1>5

\* The new cards of a day can be counted.
LEMMA IntroducedIsFinite ==
    ASSUME TypeInv, NEW d
    PROVE  \A S \in SUBSET Introduced(d) : IsFiniteSet(S) /\ Cardinality(S) \in Nat
<1>1. PICK n \in Nat : n = Len(reviews) /\ DOMAIN reviews = 1 .. n
  BY DEF TypeInv
<1>2. IsFiniteSet(1 .. n)
  <2>1. 1 \in Int /\ n \in Int
    OBVIOUS
  <2> QED
    BY <2>1, FS_Interval
<1>3. Introduced(d) \in SUBSET (1 .. n)
  BY <1>1 DEF Introduced, Own
<1>4. \A S \in SUBSET Introduced(d) : S \in SUBSET (1 .. n)
  BY <1>3
<1> QED
  BY <1>2, <1>4, FS_Subset, FS_CardinalityType

\* Nothing is studied, nothing new comes to the library.
Quiet ==
    /\ reviews' = reviews /\ plannedAt' \in {plannedAt, now} /\ now' \in {now, now + 1}
    /\ cards' \in [Cards -> CardStates]
    /\ \A c \in Cards : /\ cards'[c].history = cards[c].history
                        /\ cards[c].buriedUntil <= cards'[c].buriedUntil
                        /\ cards'[c].buriedUntil <= NextDay(now)
    /\ \A n \in Notes : place'[n] = "library" => place[n] = "library"

\* The day goes on, or another one begins on which nothing was studied yet.
LEMMA QuietDay ==
    ASSUME TypeInv, LogInv, Quiet
    PROVE  /\ now \in Nat /\ now' \in Nat /\ now <= now' /\ Day(now) \in Nat /\ Day(now') \in Nat
           /\ Day(now) <= Day(now') /\ NextDay(now) <= NextDay(now')
           /\ NextDay(now) \in Nat /\ NextDay(now') \in Nat
           /\ Day(now)' = Day(now') /\ NextDay(now)' = NextDay(now')
           /\ \A d : Own(d)' = Own(d)
           /\ Day(now') # Day(now) => Own(Day(now')) = {}
           /\ Day(now') = Day(now) => NextDay(now') = NextDay(now)
<1>1. now \in Nat /\ now' \in Nat /\ now <= now'
  BY DEF TypeInv, Quiet
<1>2. Day(now) \in Nat /\ Day(now') \in Nat
  BY <1>1, DayShape
<1>3. Day(now) <= Day(now') /\ NextDay(now) <= NextDay(now')
  BY <1>1, DaysAreOrdered
<1>4. NextDay(now) \in Nat /\ NextDay(now') \in Nat
  BY <1>1, NextDayIsLater
<1>5. Day(now)' = Day(now') /\ NextDay(now)' = NextDay(now')
  BY DEF Day, NextDay
<1>6. \A d : Own(d)' = Own(d)
  BY LogUnchanged DEF Quiet
<1>7. ASSUME Day(now') # Day(now), NEW i \in Own(Day(now')) PROVE FALSE
  <2>1. Day(now') \in 0 .. Day(now)
    BY OwnParts
  <2> QED
    BY <1>2, <1>3, <1>7, <2>1
<1>8. Day(now') = Day(now) => NextDay(now') = NextDay(now)
  BY DEF NextDay
<1> QED
  BY <1>1, <1>2, <1>3, <1>4, <1>5, <1>6, <1>7, <1>8

\* The new cards of the library can only become fewer.
LEMMA QuietIntroduced ==
    ASSUME TypeInv, LogInv, Quiet, NEW d
    PROVE  Introduced(d)' \subseteq Introduced(d)
<1> SUFFICES ASSUME NEW i \in Introduced(d)' PROVE i \in Introduced(d)
  OBVIOUS
<1>1. i \in Own(d) /\ reviews[i].prev.history = <<>> /\ place'[NoteOf[reviews[i].card]] = "library"
  BY QuietDay DEF Introduced, Quiet
<1>2. reviews[i].card \in Cards
  BY <1>1, OwnParts
<1>3. NoteOf[reviews[i].card] \in Notes
  BY <1>2 DEF Notes
<1> QED
  BY <1>1, <1>3 DEF Introduced, Quiet

\* What is known of the log stays known.
LEMMA QuietLog ==
    ASSUME TypeInv, LogInv, BurialTimes, HistoryInv, Quiet
    PROVE  LogInv' /\ BurialTimes' /\ HistoryInv'
<1>1. LogInv'
  <2> SUFFICES ASSUME NEW i \in 1 .. Len(reviews)
               PROVE  /\ reviews[i].at <= plannedAt'
                      /\ reviews[i].reverses < i
                      /\ \A j \in 1 .. i : reviews[j].at <= reviews[i].at
                      /\ reviews[i].planned => reviews[i].kind = "review" /\ reviews[i].device = "own"
                      /\ Recognized => reviews[i].device # "shared"
    BY DEF LogInv, Quiet
  <2>1. reviews[i].at <= plannedAt /\ reviews[i].at <= now
    BY EventParts
  <2>2. reviews[i].at <= plannedAt'
    BY <2>1 DEF Quiet
  <2> QED
    BY <2>2 DEF LogInv
<1>2. BurialTimes'
  <2>1. ASSUME NEW c \in Cards PROVE cards'[c].buriedUntil <= NextDay(now')
    <3>1. cards'[c] \in CardStates
      BY DEF Quiet
    <3>2. cards'[c].buriedUntil \in Nat
      BY <3>1 DEF CardStates
    <3>3. cards'[c].buriedUntil <= NextDay(now) /\ NextDay(now) <= NextDay(now')
          /\ NextDay(now) \in Nat /\ NextDay(now') \in Nat
      BY QuietDay DEF Quiet
    <3> QED
      BY <3>2, <3>3
  <2>2. \A i \in 1 .. Len(reviews) :
          /\ reviews[i].prev.buriedUntil <= NextDay(reviews[i].at)
          /\ \A s \in DOMAIN reviews[i].siblings : reviews[i].siblings[s] <= NextDay(reviews[i].at)
    BY DEF BurialTimes
  <2>3. reviews' = reviews
    BY DEF Quiet
  <2> QED
    BY <2>1, <2>2, <2>3 DEF BurialTimes, NextDay, Day
<1>3. HistoryInv'
  <2> SUFFICES ASSUME ~Entangled
               PROVE  /\ ScheduleIsHistory'
                      /\ \A i \in Undoable' :
                            /\ reviews'[i].prev.history = Told(reviews[i].card, i - 1)'
                            /\ \A j \in 1 .. Len(reviews') :
                                  j > i /\ reviews'[j].card = reviews'[i].card /\ Surviving(j)' => j \in Undoable'
    BY DEF HistoryInv
  <2>1. reviews' = reviews
    BY DEF Quiet
  <2>2. /\ Undoable' = Undoable /\ \A i : Surviving(i)' <=> Surviving(i)
        /\ \A c, n : Told(c, n)' = Told(c, n)
    BY <2>1, LogUnchanged
  <2>3. ScheduleIsHistory'
    <3>1. ScheduleIsHistory
      BY DEF HistoryInv
    <3>2. ASSUME NEW c \in Cards PROVE cards'[c].history = Told(c, Len(reviews))
      BY <3>1 DEF ScheduleIsHistory, Quiet
    <3>3. ASSUME NEW c \in Cards PROVE Told(c, Len(reviews))' = Told(c, Len(reviews))
      <4>1. Told(c, Len(reviews))' = Recited(reviews', Reversed', c, Len(reviews'))
        BY DEF Told, Recited, Recites, Counts, Entry, Surviving
      <4>2. Told(c, Len(reviews)) = Recited(reviews, Reversed, c, Len(reviews))
        BY ToldIsRecited
      <4> QED
        BY <2>1, <4>1, <4>2, LogUnchanged
    <3> QED
      BY <3>2, <3>3 DEF ScheduleIsHistory
  <2>4. ASSUME NEW i \in Undoable
        PROVE  /\ reviews[i].prev.history = Told(reviews[i].card, i - 1)
               /\ \A j \in 1 .. Len(reviews) :
                     j > i /\ reviews[j].card = reviews[i].card /\ Surviving(j) => j \in Undoable
    BY DEF HistoryInv
  <2>5. ASSUME NEW i PROVE Told(reviews[i].card, i - 1)' = Told(reviews[i].card, i - 1)
    <3>1. Told(reviews[i].card, i - 1)' = Recited(reviews', Reversed', reviews'[i].card, i - 1)
      BY DEF Told, Recited, Recites, Counts, Entry, Surviving
    <3>2. Told(reviews[i].card, i - 1) = Recited(reviews, Reversed, reviews[i].card, i - 1)
      BY ToldIsRecited
    <3> QED
      BY <2>1, <3>1, <3>2, LogUnchanged
  <2> QED
    BY <2>1, <2>2, <2>3, <2>4, <2>5
<1> QED
  BY <1>1, <1>2, <1>3
\* What is buried stays buried until the next day.
LEMMA QuietBurial ==
    ASSUME TypeInv, LogInv, BurialInv, ApartInv, Quiet
    PROVE  BurialInv' /\ ApartInv'
<1>1. reviews' = reviews /\ Undoable' = Undoable
  BY LogUnchanged DEF Quiet
<1>2. BurialInv'
  <2> SUFFICES ASSUME BurySiblings, Recognized
               PROVE  /\ \A i \in Own(Day(now')) : \A s \in Mates(reviews[i].card) :
                            cards'[s].buriedUntil >= NextDay(now')
                      /\ \A m \in Undoable : \A i \in Own(Day(reviews[m].at)) : i < m =>
                            \A s \in Mates(reviews[i].card) :
                                /\ s = reviews[m].card => reviews[m].prev.buriedUntil >= NextDay(reviews[m].at)
                                /\ s \in DOMAIN reviews[m].siblings =>
                                      reviews[m].siblings[s] >= NextDay(reviews[m].at)
    <3>1. \A d : Own(d)' = Own(d)
      BY QuietDay
    <3>2. /\ Own(Day(now))' = Own(Day(now'))
          /\ \A m : Own(Day(reviews[m].at))' = Own(Day(reviews[m].at))
      BY <1>1, <3>1 DEF Own, Surviving, Reversed, Day
    <3>3. NextDay(now)' = NextDay(now') /\ \A m : NextDay(reviews[m].at)' = NextDay(reviews[m].at)
      BY <1>1 DEF NextDay, Day
    <3>4. \A c : Mates(c)' = Mates(c)
      BY DEF Mates
    <3> QED
      BY <1>1, <3>2, <3>3, <3>4 DEF BurialInv, NextDay, Day, Mates
  <2>1. ASSUME NEW i \in Own(Day(now')), NEW s \in Mates(reviews[i].card)
        PROVE  cards'[s].buriedUntil >= NextDay(now')
    <3>1. Day(now') = Day(now) /\ NextDay(now') = NextDay(now) /\ NextDay(now) \in Nat
      BY QuietDay
    <3>2. cards[s].buriedUntil >= NextDay(now)
      BY <3>1 DEF BurialInv
    <3>3. s \in Cards
      BY DEF Mates
    <3>4. cards'[s] \in CardStates /\ cards[s].buriedUntil <= cards'[s].buriedUntil
      BY <3>3 DEF Quiet
    <3>5. cards'[s].buriedUntil \in Nat /\ cards[s].buriedUntil \in Nat
      BY <3>3, <3>4, CardParts DEF CardStates
    <3> QED
      BY <3>1, <3>2, <3>4, <3>5
  <2> QED
    BY <2>1 DEF BurialInv
<1>3. ApartInv'
  <2> SUFFICES ASSUME BurySiblings, Recognized, ~Overnight, NEW d, NEW i \in Own(d), NEW j \in Own(d),
                      NoteOf[reviews[i].card] = NoteOf[reviews[j].card]
               PROVE  reviews[i].card = reviews[j].card
    BY <1>1, QuietDay DEF ApartInv, SiblingsApart
  <2>1. d \in 0 .. Day(now)
    BY OwnParts
  <2> QED
    BY <2>1 DEF ApartInv, SiblingsApart
<1> QED
  BY <1>2, <1>3

\* The limit of new cards stays kept.
LEMMA QuietLimit ==
    ASSUME TypeInv, LogInv, LimitInv, Quiet
    PROVE  Recognized /\ ~Entangled =>
              /\ IntroducedOnce' /\ NewLimitHonoured'
              /\ \A new \in SUBSET Cards : Room(new) => Room(new)'
<1> SUFFICES ASSUME Recognized, ~Entangled
             PROVE  /\ IntroducedOnce' /\ NewLimitHonoured'
                    /\ \A new \in SUBSET Cards : Room(new) => Room(new)'
  OBVIOUS
<1>0. reviews' = reviews
  BY DEF Quiet
<1>1. IntroducedOnce'
  BY <1>0, QuietIntroduced DEF LimitInv, IntroducedOnce
<1>2. NewLimit \in Nat
  BY LimitAssumption
<1>3. ASSUME NEW day \in 0 .. Day(now') PROVE Cardinality(Introduced(day)') <= NewLimit
  <2>1. CASE day \in 0 .. Day(now)
    <3>1. Cardinality(Introduced(day)) <= NewLimit
      BY <2>1 DEF LimitInv, NewLimitHonoured, Introduced
    <3>2. IsFiniteSet(Introduced(day)) /\ Introduced(day)' \in SUBSET Introduced(day)
      BY IntroducedIsFinite, QuietIntroduced
    <3>3. Cardinality(Introduced(day)') <= Cardinality(Introduced(day)) /\ IsFiniteSet(Introduced(day)')
      BY <3>2, FS_Subset
    <3>4. Cardinality(Introduced(day)') \in Nat /\ Cardinality(Introduced(day)) \in Nat
      BY <3>2, <3>3, FS_CardinalityType
    <3> QED
      BY <1>2, <3>1, <3>3, <3>4
  <2>2. CASE day \notin 0 .. Day(now)
    <3>1. Introduced(day) = {}
      BY <2>2, OwnParts DEF Introduced
    <3>2. Introduced(day)' = {}
      BY <3>1, QuietIntroduced
    <3> QED
      BY <1>2, <3>2, FS_EmptySet
  <2> QED
    BY <2>1, <2>2
<1>4. NewLimitHonoured'
  <2>1. ASSUME NEW day
        PROVE  Introduced(day)' = {i \in Own(day)' : reviews'[i].prev.history = <<>>
                                      /\ place'[NoteOf[reviews'[i].card]] = "library"}
    BY DEF Introduced
  <2>2. (0 .. Day(now))' = 0 .. Day(now')
    BY DEF Day
  <2> QED
    BY <1>3, <2>1, <2>2 DEF NewLimitHonoured
<1>5. ASSUME NEW new \in SUBSET Cards, Room(new) PROVE Room(new)'
  <2>1. PICK before \in SUBSET Introduced(Day(now)) :
            /\ Cardinality(before) + Cardinality(new) <= NewLimit
            /\ \A i \in Introduced(Day(now)) \ before : reviews[i].card \in new
    BY <1>5 DEF Room
  <2>2. \A d : Introduced(d)' \subseteq Introduced(d)
    BY QuietIntroduced
  <2>3. PICK d, I : d = Day(now') /\ I = Introduced(d)' /\ I = Introduced(Day(now))'
    <3>1. PICK d : d = Day(now')
      OBVIOUS
    <3>2. Introduced(Day(now))' = Introduced(d)'
      BY <3>1 DEF Introduced, Own, Day
    <3> QED
      BY <3>1, <3>2
  <2>4. I \subseteq Introduced(Day(now))
    <3>1. Introduced(d)' \subseteq Introduced(d)
      BY QuietIntroduced
    <3>2. d # Day(now) => Introduced(d) = {}
      BY <2>3, QuietDay DEF Introduced
    <3> QED
      BY <2>3, <3>1, <3>2
  <2>5. PICK B : B = before \cap I
    OBVIOUS
  <2>6. Cardinality(B) + Cardinality(new) <= NewLimit
    <3>1. IsFiniteSet(before) /\ B \in SUBSET before /\ Cardinality(before) \in Nat
      BY <2>5, IntroducedIsFinite
    <3>2. Cardinality(B) <= Cardinality(before) /\ IsFiniteSet(B)
      BY <3>1, FS_Subset
    <3>3. Cardinality(B) \in Nat /\ Cardinality(new) \in Nat
      <4>1. IsFiniteSet(new)
        BY CardAssumption, FS_Subset
      <4> QED
        BY <3>2, <4>1, FS_CardinalityType
    <3> QED
      BY <1>2, <2>1, <3>1, <3>2, <3>3
  <2>7. \A i \in I \ B : reviews'[i].card \in new
    BY <1>0, <2>1, <2>4, <2>5
  <2> QED
    BY <2>3, <2>5, <2>6, <2>7 DEF Room
<1> QED
  BY <1>1, <1>4, <1>5
\* A page on which nothing was answered has no reviews of its own.
LEMMA IdlePage ==
    ASSUME page'.answered = <<>>
    PROVE  \E e : e \in Answers' /\ \A k \in 1 .. Len(page'.answered) : FALSE
<1> DEFINE e == [k \in 1 .. 0 |-> 0]
<1>1. Len(page'.answered) = 0 /\ 1 .. 0 = {}
  OBVIOUS
<1>2. e \in [1 .. Len(page'.answered) -> 1 .. Len(reviews')]
  BY <1>1
<1>3. \A k \in 1 .. Len(page'.answered) : FALSE
  BY <1>1
<1>4. e \in Answers'
  BY <1>2, <1>3 DEF Answers
<1> QED
  BY <1>3, <1>4

\* A step that reviews nothing keeps the invariant, given the page and the session.
LEMMA QuietOrder ==
    ASSUME StudyOrder, TypeInv', Quiet, PageInv', SeatInv',
           Recognized /\ ~Entangled /\ session'.kind = "planned" => \E new \in SUBSET Cards : NewOnes(new)'
    PROVE  StudyOrder'
<1>1. TypeInv /\ LogInv /\ BurialTimes /\ HistoryInv /\ BurialInv /\ ApartInv /\ LimitInv
  BY DEF StudyOrder
<1>2. LogInv' /\ BurialTimes' /\ HistoryInv'
  BY <1>1, QuietLog
<1>3. BurialInv' /\ ApartInv'
  BY <1>1, QuietBurial
<1>4. LimitInv'
  BY <1>1, QuietLimit DEF LimitInv
<1> QED
  BY <1>2, <1>3, <1>4 DEF StudyOrder

\* The session goes on, or is left.
LEMMA QuietSession ==
    ASSUME StudyOrder, TypeInv', Quiet, session' = session,
           \/ page' = page /\ place' = place
           \/ page'.answered = <<>> /\ ~page'.open
    PROVE  StudyOrder'
<1>0. TypeInv /\ LogInv /\ PageInv /\ SeatInv /\ LimitInv /\ reviews' = reviews
  BY DEF StudyOrder, Quiet
<1>1. page' = page /\ place' = place => Answers' = Answers
  <2> SUFFICES ASSUME page' = page, place' = place PROVE Answers' = Answers
    OBVIOUS
  <2>1. Undoable' = Undoable
    BY <1>0, LogUnchanged
  <2> QED
    BY <1>0, <2>1 DEF Answers, Present
<1>2. PageInv'
  BY <1>0, <1>1, IdlePage DEF PageInv
<1>3. SeatInv'
  <2> SUFFICES ASSUME BurySiblings, Recognized, ~Overnight, session.kind = "planned"
               PROVE  /\ page'.open /\ page'.index <= Len(session.queue) =>
                            \A i \in Own(Day(now')) : session.queue[page'.index] \notin Mates(reviews[i].card)
                      /\ session.queue # <<>> =>
                            \A i \in Own(Day(session.since)) :
                                session.queue[1] \notin Mates(reviews[i].card)
    <3>1. Own(Day(now))' = Own(Day(now')) /\ Own(Day(session.since))' = Own(Day(session.since))
      BY <1>0, LogUnchanged DEF Own, Surviving, Reversed, Day
    <3>2. \A c : Mates(c)' = Mates(c)
      BY DEF Mates
    <3> QED
      BY <1>0, <3>1, <3>2 DEF SeatInv, Mates
  <2>1. ASSUME page'.open, page'.index <= Len(session.queue), NEW i \in Own(Day(now'))
        PROVE  session.queue[page'.index] \notin Mates(reviews[i].card)
    <3>1. page' = page
      BY <2>1
    <3>2. Day(now') = Day(now)
      BY <1>0, <2>1, QuietDay
    <3> QED
      BY <1>0, <2>1, <3>1, <3>2 DEF SeatInv
  <2> QED
    BY <1>0, <2>1 DEF SeatInv
<1>4. ASSUME Recognized, ~Entangled, session'.kind = "planned" PROVE \E new \in SUBSET Cards : NewOnes(new)'
  <2>1. PICK new \in SUBSET Cards : NewOnes(new)
    BY <1>0, <1>4 DEF LimitInv
  <2>2. Room(new)'
    BY <1>0, <1>4, <2>1, QuietLimit DEF NewOnes
  <2>3. ASSUME NEW k \in 1 .. Len(session.queue), session.queue[k] \notin new
        PROVE  cards'[session.queue[k]].history # <<>>
    <3>1. session.queue[k] \in Cards
      BY <1>0 DEF TypeInv, SessionType
    <3>2. cards[session.queue[k]].history # <<>>
      BY <2>1, <2>3 DEF NewOnes
    <3> QED
      BY <3>1, <3>2 DEF Quiet
  <2>4. \E e \in Answers' : \A k \in 1 .. Len(page'.answered) :
            reviews'[e[k]].prev.history = <<>> => reviews'[e[k]].card \in new
    <3>1. CASE page' = page /\ place' = place
      BY <1>0, <1>1, <2>1, <3>1 DEF NewOnes
    <3>2. CASE page'.answered = <<>>
      BY <3>2, IdlePage
    <3> QED
      BY <3>1, <3>2
  <2>5. NewOnes(new)'
    BY <2>2, <2>3, <2>4 DEF NewOnes
  <2> QED
    BY <2>5
<1> QED
  BY <1>2, <1>3, <1>4, QuietOrder

\* No session.
LEMMA QuietEnd ==
    ASSUME StudyOrder, TypeInv', Quiet, session' = NoSession, page'.answered = <<>>
    PROVE  StudyOrder'
<1>1. session'.kind = "none"
  BY DEF NoSession
<1>2. PageInv'
  BY IdlePage DEF PageInv
<1>3. SeatInv'
  BY <1>1 DEF SeatInv
<1> QED
  BY <1>1, <1>2, <1>3, QuietOrder
\* No session is a session on nothing.
LEMMA NoSessionType ==
    ASSUME now' \in Nat, session' = NoSession, page' = Closed
    PROVE  SessionType' /\ PageType'
<1>1. /\ session' = [kind |-> "none", reschedule |-> TRUE, queue |-> <<>>, since |-> 0]
      /\ page' = [open |-> FALSE, index |-> 1, answered |-> <<>>]
  BY DEF NoSession, Closed
<1>2. <<>> \in Seq(Cards) /\ <<>> \in Seq(Nat) /\ Len(<<>>) = 0 /\ IsInjective(<<>>)
  BY DEF IsInjective
<1>3. /\ session'.queue = <<>> /\ session'.kind = "none" /\ session'.since = 0
      /\ page'.open = FALSE /\ page'.index = 1 /\ page'.answered = <<>>
  BY <1>1
<1>4. SessionType'
  <2>1. session' \in [kind : {"none", "planned", "custom"}, reschedule : BOOLEAN,
                      queue : Seq(Cards), since : Nat]
    BY <1>1, <1>2
  <2>2. session'.since <= now'
    BY <1>3
  <2>3. IsInjective(session'.queue)
    BY <1>2, <1>3
  <2>4. session'.kind # "planned"
    BY <1>3
  <2> QED
    BY <2>1, <2>2, <2>3, <2>4 DEF SessionType, NoSession
<1>5. PageType'
  <2>1. page' \in [open : BOOLEAN, index : Nat, answered : Seq(Nat)]
    BY <1>1, <1>2
  <2>2. page'.index \in 1 .. Len(session'.queue) + 1
    BY <1>2, <1>3
  <2>3. \A k \in 1 .. Len(page'.answered) : page'.answered[k] \in 1 .. Len(session'.queue)
    BY <1>2, <1>3
  <2> QED
    BY <1>3, <2>1, <2>2, <2>3 DEF PageType
<1> QED
  BY <1>4, <1>5

\* Nothing is answered and the page is closed.
LEMMA ClosedType ==
    ASSUME PageType, SessionType, session' = session, page' = Closed PROVE PageType'
<1>1. page' = [open |-> FALSE, index |-> 1, answered |-> <<>>]
  BY DEF Closed
<1>2. <<>> \in Seq(Nat) /\ Len(<<>>) = 0
  OBVIOUS
<1>3. page'.open = FALSE /\ page'.index = 1 /\ page'.answered = <<>>
  BY <1>1
<1>4. page' \in [open : BOOLEAN, index : Nat, answered : Seq(Nat)]
  BY <1>1, <1>2
<1>5. Len(session.queue) \in Nat
  BY DEF SessionType
<1>6. page'.index \in 1 .. Len(session'.queue) + 1
  BY <1>3, <1>5
<1>7. \A k \in 1 .. Len(page'.answered) : page'.answered[k] \in 1 .. Len(session'.queue)
  BY <1>2, <1>3
<1> QED
  BY <1>3, <1>4, <1>6, <1>7 DEF PageType

\* The page starts with the first card.
LEMMA MountedType ==
    ASSUME SessionType', session'.kind # "none", page' = Mounted PROVE PageType'
<1>1. page' = [open |-> TRUE, index |-> 1, answered |-> <<>>]
  BY DEF Mounted
<1>2. <<>> \in Seq(Nat) /\ Len(<<>>) = 0
  OBVIOUS
<1>3. page'.open = TRUE /\ page'.index = 1 /\ page'.answered = <<>>
  BY <1>1
<1>4. page' \in [open : BOOLEAN, index : Nat, answered : Seq(Nat)]
  BY <1>1, <1>2
<1>5. Len(session'.queue) \in Nat
  BY DEF SessionType
<1>6. page'.index \in 1 .. Len(session'.queue) + 1
  BY <1>3, <1>5
<1>7. \A k \in 1 .. Len(page'.answered) : page'.answered[k] \in 1 .. Len(session'.queue)
  BY <1>2, <1>3
<1> QED
  BY <1>3, <1>4, <1>6, <1>7 DEF PageType

\* Where the library is as it was nothing is buried or studied.
LEMMA QuietLibrary ==
    ASSUME TypeInv, BurialTimes, UNCHANGED <<cards, place, reviews>>,
           plannedAt' \in {plannedAt, now}, now' \in {now, now + 1}
    PROVE  Quiet
<1>1. \A c \in Cards : cards[c].buriedUntil \in Nat /\ cards[c].buriedUntil <= NextDay(now)
  BY CardParts DEF BurialTimes
<1>2. cards \in [Cards -> CardStates]
  BY DEF TypeInv
<1> QED
  BY <1>1, <1>2 DEF Quiet

\* Time passes.
LEMMA TimeOrder == ASSUME StudyOrder, TimePasses PROVE StudyOrder'
<1>1. /\ now < MaxTime /\ now' = now + 1
      /\ UNCHANGED <<changes, cards, place, reviews, plannedAt, session, page>>
  BY DEF TimePasses
<1>2. TypeInv /\ BurialTimes
  BY DEF StudyOrder
<1>3. MaxTime \in Nat
  BY BoundAssumption
<1>4. TypeInv'
  <2>1. now' \in 0 .. MaxTime /\ plannedAt' \in 0 .. now'
    BY <1>1, <1>2, <1>3 DEF TypeInv
  <2>2. SessionType'
    <3>1. SessionType /\ now \in Nat
      BY <1>2 DEF TypeInv
    <3>2. session.since \in Nat /\ session.since <= now
      BY <3>1 DEF SessionType
    <3>3. session'.since <= now'
      BY <1>1, <3>1, <3>2
    <3> QED
      BY <1>1, <3>1, <3>3 DEF SessionType
  <2>3. PageType'
    <3>1. PageType
      BY <1>2 DEF TypeInv
    <3> QED
      BY <1>1, <3>1 DEF PageType
  <2> QED
    BY <1>1, <1>2, <2>1, <2>2, <2>3 DEF TypeInv
<1>5. Quiet
  BY <1>1, <1>2, QuietLibrary
<1> QED
  BY <1>1, <1>4, <1>5, QuietSession

\* The application is opened again, a session ends, or its page is left.
LEMMA CloseOrder == ASSUME StudyOrder, Reopen \/ EndSession \/ Leave PROVE StudyOrder'
<1>1. TypeInv /\ BurialTimes /\ now \in Nat
  BY DEF StudyOrder, TypeInv
<1>2. /\ UNCHANGED <<now, changes, cards, place, reviews>>
      /\ plannedAt' \in {plannedAt, now} /\ page' = Closed
      /\ session' \in {session, NoSession}
  BY DEF Reopen, EndSession, Leave
<1>3. Quiet
  BY <1>1, <1>2, QuietLibrary
<1>4. SessionType' /\ PageType'
  <2>1. CASE session' = NoSession
    BY <1>1, <1>2, <2>1, NoSessionType
  <2>2. CASE session' = session
    <3>1. SessionType /\ PageType
      BY <1>1 DEF TypeInv
    <3>2. SessionType'
      BY <1>2, <2>2, <3>1 DEF SessionType
    <3> QED
      BY <1>2, <2>2, <3>1, <3>2, ClosedType
  <2> QED
    BY <1>2, <2>1, <2>2
<1>5. TypeInv'
  <2>1. plannedAt' \in 0 .. now'
    BY <1>1, <1>2 DEF TypeInv
  <2> QED
    BY <1>1, <1>2, <1>4, <2>1 DEF TypeInv
<1>6. page'.answered = <<>> /\ ~page'.open
  BY <1>2 DEF Closed
<1>7. CASE session' = NoSession
  BY <1>3, <1>5, <1>6, <1>7, QuietEnd
<1>8. CASE session' = session
  BY <1>3, <1>5, <1>6, <1>8, QuietSession
<1> QED
  BY <1>2, <1>7, <1>8

\* Cards are suspended or buried, and items deleted, restored or purged, while the
\* page is closed.
LEMMA LibraryOrder ==
    ASSUME StudyOrder, ToggleSuspend \/ Bury \/ DeleteItem \/ RestoreItem \/ PurgeItem
    PROVE  StudyOrder'
<1>1. TypeInv /\ BurialTimes /\ now \in Nat /\ changes \in Nat /\ MaxSteps \in Nat
  BY BoundAssumption DEF StudyOrder, TypeInv
<1>2. /\ ~page.open
      /\ plannedAt' = now /\ Bounded /\ changes' = changes + 1
      /\ UNCHANGED <<now, reviews, session, page>>
  BY DEF ToggleSuspend, Bury, DeleteItem, RestoreItem, PurgeItem, ChangeCard, Move, Replans
<1>3. page.answered = <<>>
  BY <1>1, <1>2 DEF TypeInv, PageType
<1>4. NextDay(now) \in Nat
  BY <1>1, NextDayIsLater
<1>5. /\ cards' \in [Cards -> CardStates]
      /\ \A c \in Cards : /\ cards'[c].history = cards[c].history
                          /\ cards[c].buriedUntil <= cards'[c].buriedUntil
                          /\ cards'[c].buriedUntil <= NextDay(now)
  <2>0. cards \in [Cards -> CardStates]
    BY <1>1 DEF TypeInv
  <2>1. ASSUME NEW c \in Cards
        PROVE  /\ cards[c] \in CardStates /\ cards[c].buriedUntil \in Nat
               /\ cards[c].buriedUntil <= NextDay(now) /\ cards[c].suspended \in BOOLEAN
    BY <1>1, CardParts DEF BurialTimes
  <2>2. ASSUME NEW c \in Cards, NEW k \in CardStates, cards' = [cards EXCEPT ![c] = k],
               k.history = cards[c].history, k.buriedUntil \in {cards[c].buriedUntil, NextDay(now)}
        PROVE  /\ cards' \in [Cards -> CardStates]
               /\ \A x \in Cards : /\ cards'[x].history = cards[x].history
                                   /\ cards[x].buriedUntil <= cards'[x].buriedUntil
                                   /\ cards'[x].buriedUntil <= NextDay(now)
    <3>1. cards' \in [Cards -> CardStates]
      BY <2>0, <2>2
    <3>2. cards'[c] = k /\ \A x \in Cards \ {c} : cards'[x] = cards[x]
      BY <2>0, <2>2
    <3>3. \A x \in Cards : cards'[x].history = cards[x].history
      BY <2>2, <3>2
    <3>4. cards[c].buriedUntil <= k.buriedUntil /\ k.buriedUntil <= NextDay(now)
      BY <1>4, <2>1, <2>2
    <3>5. \A x \in Cards : cards[x].buriedUntil <= cards[x].buriedUntil
      BY <2>1
    <3>6. ASSUME NEW x \in Cards
          PROVE  cards[x].buriedUntil <= cards'[x].buriedUntil /\ cards'[x].buriedUntil <= NextDay(now)
      <4>1. CASE x = c
        BY <3>2, <3>4, <4>1
      <4>2. CASE x # c
        BY <2>1, <3>2, <3>5, <4>2
      <4> QED
        BY <4>1, <4>2
    <3> QED
      BY <3>1, <3>3, <3>6
  <2>3. CASE ToggleSuspend
    <3>1. PICK c \in Cards : cards' = [cards EXCEPT ![c] = [cards[c] EXCEPT !.suspended = ~@]]
      BY <2>3 DEF ToggleSuspend, ChangeCard
    <3>2. PICK b \in BOOLEAN : b = ~cards[c].suspended
      BY <2>1
    <3>3. PICK old \in CardStates : old = cards[c]
      BY <2>1
    <3>4. PICK k : k = [old EXCEPT !.suspended = b]
      OBVIOUS
    <3>5. k \in CardStates /\ k.history = old.history /\ k.buriedUntil = old.buriedUntil
      BY <3>4 DEF CardStates
    <3>6. cards' = [cards EXCEPT ![c] = k]
      BY <3>1, <3>2, <3>3, <3>4
    <3> QED
      BY <2>2, <3>3, <3>5, <3>6
  <2>4. CASE Bury
    <3>1. PICK c \in Cards : cards' = [cards EXCEPT ![c] = [cards[c] EXCEPT !.buriedUntil = NextDay(now)]]
      BY <2>4 DEF Bury, ChangeCard
    <3>2. PICK t \in Nat : t = NextDay(now)
      BY <1>4
    <3>3. PICK old \in CardStates : old = cards[c]
      BY <2>1
    <3>4. PICK k : k = [old EXCEPT !.buriedUntil = t]
      OBVIOUS
    <3>5. k \in CardStates /\ k.history = old.history /\ k.buriedUntil = t
      BY <3>4 DEF CardStates
    <3>6. cards' = [cards EXCEPT ![c] = k]
      BY <3>1, <3>2, <3>3, <3>4
    <3> QED
      BY <2>2, <3>2, <3>3, <3>5, <3>6
  <2>5. CASE DeleteItem \/ RestoreItem \/ PurgeItem
    <3>1. cards' = cards
      BY <2>5 DEF DeleteItem, RestoreItem, PurgeItem, Move
    <3>2. \A x \in Cards : cards[x].buriedUntil <= cards[x].buriedUntil
      BY <2>1
    <3> QED
      BY <2>0, <2>1, <3>1, <3>2
  <2> QED
    BY <2>3, <2>4, <2>5
<1>6. place' \in [Notes -> Places] /\ \A n \in Notes : place'[n] = "library" => place[n] = "library"
  <2>1. place \in [Notes -> Places]
    BY <1>1 DEF TypeInv
  <2>2. CASE ToggleSuspend \/ Bury
    BY <2>1, <2>2 DEF ToggleSuspend, Bury, ChangeCard
  <2>3. CASE DeleteItem \/ RestoreItem \/ PurgeItem
    <3>1. PICK n \in Notes, to \in {"trash", "restored", "purged"} : place' = [place EXCEPT ![n] = to]
      BY <2>3 DEF DeleteItem, RestoreItem, PurgeItem, Move
    <3>2. to \in Places /\ to # "library"
      BY DEF Places
    <3>3. \A m \in Notes : place'[m] = IF m = n THEN to ELSE place[m]
      BY <2>1, <3>1
    <3> QED
      BY <2>1, <3>1, <3>2, <3>3
  <2> QED
    BY <2>2, <2>3
<1>7. Quiet
  BY <1>2, <1>5, <1>6 DEF Quiet
<1>8. TypeInv'
  <2>1. Len(reviews') + changes' <= MaxSteps /\ changes' \in Nat
    <3>1. Len(reviews) + changes < MaxSteps /\ Len(reviews) \in Nat
      BY <1>1, <1>2 DEF Bounded, TypeInv
    <3> QED
      BY <1>1, <1>2, <3>1
  <2>2. plannedAt' \in 0 .. now'
    BY <1>1, <1>2
  <2>3. SessionType' /\ PageType'
    <3>1. SessionType /\ PageType
      BY <1>1 DEF TypeInv
    <3> QED
      BY <1>2, <3>1 DEF SessionType, PageType
  <2> QED
    BY <1>1, <1>2, <1>5, <1>6, <2>1, <2>2, <2>3 DEF TypeInv
<1> QED
  BY <1>2, <1>3, <1>7, <1>8, QuietSession
\* A page is mounted on a session: its first card is not a sibling of one studied
\* today, and its new cards keep the limit.
LEMMA MountOrder ==
    ASSUME StudyOrder, UNCHANGED <<now, changes, cards, place, reviews, plannedAt>>,
           page' = Mounted, SessionType', session'.kind # "none",
           session'.kind = "planned" /\ BurySiblings /\ Recognized /\ ~Overnight =>
              /\ Day(session'.since) = Day(now)
              /\ session'.queue # <<>> =>
                    \A i \in Own(Day(now)) : session'.queue[1] \notin Mates(reviews[i].card),
           session'.kind = "planned" /\ Recognized /\ ~Entangled =>
              \E new \in SUBSET Cards :
                 /\ Room(new)
                 /\ \A k \in 1 .. Len(session'.queue) :
                       session'.queue[k] \notin new => cards[session'.queue[k]].history # <<>>
    PROVE  StudyOrder'
<1>1. TypeInv /\ LogInv /\ BurialTimes /\ LimitInv /\ now \in Nat
  BY DEF StudyOrder, TypeInv
<1>2. PageType'
  BY MountedType
<1>3. TypeInv'
  <2>1. plannedAt' \in 0 .. now'
    BY <1>1 DEF TypeInv
  <2> QED
    BY <1>1, <1>2, <2>1 DEF TypeInv
<1>4. Quiet
  BY <1>1, QuietLibrary
<1>5. page'.answered = <<>> /\ page'.index = 1
  BY DEF Mounted
<1>6. PageInv'
  BY <1>5, IdlePage DEF PageInv
<1>7. SeatInv'
  <2> SUFFICES ASSUME BurySiblings, Recognized, ~Overnight, session'.kind = "planned", session'.queue # <<>>,
                      NEW i \in Own(Day(now))
               PROVE  session'.queue[1] \notin Mates(reviews[i].card)
    <3>1. \A d : Own(d)' = Own(d)
      BY LogUnchanged
    <3>2. BurySiblings /\ Recognized /\ ~Overnight /\ session'.kind = "planned" =>
            Own(Day(now))' = Own(Day(now)) /\ Own(Day(session.since))' = Own(Day(now))
      <4> SUFFICES ASSUME BurySiblings, Recognized, ~Overnight, session'.kind = "planned"
                   PROVE  Own(Day(now))' = Own(Day(now)) /\ Own(Day(session.since))' = Own(Day(now))
        OBVIOUS
      <4>1. PICK d : d = Day(now) /\ d = Day(now') /\ d = Day(session'.since)
        BY DEF Day
      <4>2. Own(d)' = Own(d)
        BY <3>1
      <4>3. Own(Day(now))' = Own(d)' /\ Own(Day(session.since))' = Own(d)'
        BY <4>1 DEF Own, Day
      <4> QED
        BY <4>1, <4>2, <4>3
    <3>3. \A c : Mates(c)' = Mates(c)
      BY DEF Mates
    <3>4. page'.index <= Len(session'.queue) => session'.queue # <<>>
      <4>1. session'.queue = <<>> => Len(session'.queue) = 0
        OBVIOUS
      <4> QED
        BY <1>5, <4>1
    <3> QED
      BY <1>5, <3>2, <3>4 DEF SeatInv, Mates
  <2> QED
    OBVIOUS
<1>8. ASSUME Recognized, ~Entangled, session'.kind = "planned" PROVE \E new \in SUBSET Cards : NewOnes(new)'
  <2>1. PICK new \in SUBSET Cards :
            /\ Room(new)
            /\ \A k \in 1 .. Len(session'.queue) :
                  session'.queue[k] \notin new => cards[session'.queue[k]].history # <<>>
    BY <1>8
  <2>2. Room(new)'
    BY <1>1, <1>4, <1>8, <2>1, QuietLimit
  <2>3. \E e \in Answers' : \A k \in 1 .. Len(page'.answered) :
            reviews'[e[k]].prev.history = <<>> => reviews'[e[k]].card \in new
    BY <1>5, IdlePage
  <2>4. NewOnes(new)'
    BY <2>1, <2>2, <2>3 DEF NewOnes
  <2> QED
    BY <2>4
<1> QED
  BY <1>3, <1>4, <1>6, <1>7, <1>8, QuietOrder

\* The user comes back to the session.
LEMMA ReturnOrder == ASSUME StudyOrder, Return PROVE StudyOrder'
<1>1. TypeInv /\ SeatInv /\ LimitInv /\ SessionType
  BY DEF StudyOrder, TypeInv
<1>2. /\ session # NoSession /\ (Overnight \/ Day(session.since) = Day(now)) /\ page' = Mounted
      /\ UNCHANGED <<now, changes, cards, place, reviews, plannedAt, session>>
  BY DEF Return
<1>3. SessionType' /\ session'.kind # "none"
  BY <1>1, <1>2 DEF SessionType
<1>4. session.kind = "planned" /\ BurySiblings /\ Recognized /\ ~Overnight =>
              /\ Day(session.since) = Day(now)
              /\ session.queue # <<>> =>
                    \A i \in Own(Day(now)) : session.queue[1] \notin Mates(reviews[i].card)
  BY <1>1, <1>2 DEF SeatInv
<1>5. session.kind = "planned" /\ Recognized /\ ~Entangled =>
              \E new \in SUBSET Cards :
                 /\ Room(new)
                 /\ \A k \in 1 .. Len(session.queue) :
                       session.queue[k] \notin new => cards[session.queue[k]].history # <<>>
  BY <1>1 DEF LimitInv, NewOnes
<1>6. session' = session
  BY <1>2
<1> QED
  BY <1>2, <1>3, <1>4, <1>5, <1>6, MountOrder

\* What a new session is.
LEMMA BeginType ==
    ASSUME TypeInv, NEW kind \in {"planned", "custom"}, NEW reschedule \in BOOLEAN,
           kind = "planned" => reschedule, NEW q \in Seq(Cards), Distinct(q), Begin(kind, reschedule, q)
    PROVE  /\ SessionType' /\ session'.kind = kind /\ session'.queue = q /\ session'.since = now
           /\ page' = Mounted /\ UNCHANGED <<now, changes, cards, place, reviews, plannedAt>>
<1>1. session' = [kind |-> kind, reschedule |-> reschedule, queue |-> q, since |-> now]
  BY DEF Begin
<1>2. page' = Mounted /\ UNCHANGED <<now, changes, cards, place, reviews, plannedAt>>
  BY DEF Begin
<1>3. now \in Nat
  BY DEF TypeInv
<1>4. IsInjective(q)
  BY HeldIsMembers
<1>5. session' \in [kind : {"none", "planned", "custom"}, reschedule : BOOLEAN,
                    queue : Seq(Cards), since : Nat]
  BY <1>1, <1>3
<1>6. /\ session'.kind = kind /\ session'.reschedule = reschedule /\ session'.queue = q
      /\ session'.since = now
  BY <1>1
<1>7. session'.kind # "none" /\ session'.since <= now'
  BY <1>2, <1>3, <1>6
<1> QED
  BY <1>2, <1>4, <1>5, <1>6, <1>7 DEF SessionType

\* A session of cards of the user's choice begins.
LEMMA CustomOrder == ASSUME StudyOrder, StartCustomSession PROVE StudyOrder'
<1>1. TypeInv
  BY DEF StudyOrder
<1>2. PICK selected, reschedule, chosen, seconds :
            /\ selected \in Selections /\ reschedule \in BOOLEAN
            /\ chosen = {c \in selected : Present(c) /\ ~cards[c].suspended}
            /\ Begin("custom", reschedule, BuildQueue(chosen, seconds))
  BY DEF StartCustomSession
<1>3. chosen \in SUBSET Cards
  BY <1>2, CardAssumption
<1>4. PICK q \in Seq(Cards) : q = BuildQueue(chosen, seconds) /\ Distinct(q)
  <2>1. BuildQueue(chosen, seconds) \in Seq(chosen) /\ Distinct(BuildQueue(chosen, seconds))
    BY <1>3, BuildQueueHolds
  <2>2. \A s \in Seq(chosen) : s \in Seq(Cards)
    BY <1>3
  <2> QED
    BY <2>1, <2>2
<1>5. Begin("custom", reschedule, q)
  BY <1>2, <1>4
<1>6. /\ SessionType' /\ session'.kind = "custom" /\ page' = Mounted
      /\ UNCHANGED <<now, changes, cards, place, reviews, plannedAt>>
  <2>1. PICK kind \in {"planned", "custom"}, r \in BOOLEAN : kind = "custom" /\ r = reschedule
    BY <1>2
  <2>2. Begin(kind, r, q) /\ kind # "planned"
    BY <1>5, <2>1
  <2> QED
    BY <1>1, <1>4, <2>1, <2>2, BeginType
<1>7. session'.kind # "none" /\ session'.kind # "planned"
  BY <1>6
<1> QED
  BY <1>6, <1>7, MountOrder
\* What is planned leaves room: the new cards of the plan and those introduced today
\* keep the limit.
LEMMA PlanLeavesRoom ==
    ASSUME TypeInv, LogInv, NewLimitHonoured
    PROVE  NewInPlan(plannedAt) \in SUBSET Cards /\ Room(NewInPlan(plannedAt))
<1> DEFINE N == NewInPlan(plannedAt)
           I == Introduced(Day(now))
<1>1. N \in SUBSET Cards /\ IsFiniteSet(N) /\ Cardinality(N) \in Nat
  <2>1. IsFiniteSet(N) /\ N \in SUBSET Cards
    BY PlanHolds DEF NewInPlan
  <2> QED
    BY <2>1, FS_CardinalityType
<1>2. N # {} => Studied(plannedAt, "new") + Cardinality(N) <= NewLimit
  BY PlanHolds
<1>3. Studied(plannedAt, "new") \in Nat /\ NewLimit \in Nat
  BY TodayIsFinite, LimitAssumption
<1>4. now \in Nat /\ plannedAt \in Nat /\ plannedAt <= now /\ Day(now) \in Nat /\ Day(now) \in 0 .. Day(now)
  <2>1. now \in Nat /\ plannedAt \in Nat /\ plannedAt <= now
    BY DEF TypeInv
  <2> QED
    BY <2>1, DayShape
<1>5. IsFiniteSet(I) /\ Cardinality(I) \in Nat
  BY IntroducedIsFinite
<1>6. Cardinality(I) <= NewLimit
  BY <1>4 DEF NewLimitHonoured, Introduced
<1>7. I # {} => Cardinality(I) <= Studied(plannedAt, "new")
  <2> SUFFICES ASSUME I # {} PROVE Cardinality(I) <= Studied(plannedAt, "new")
    OBVIOUS
  <2> DEFINE S == {i \in Today(plannedAt) :
                      Present(reviews[i].card) /\ Queue(reviews[i].prev.history) = "new"}
  <2>1. Day(plannedAt) = Day(now)
    <3>1. PICK i \in I : TRUE
      OBVIOUS
    <3>2. i \in Own(Day(now))
      BY DEF Introduced
    <3>3. i \in 1 .. Len(reviews) /\ Day(reviews[i].at) = Day(now)
      BY <3>2, OwnParts
    <3>4. reviews[i].at \in Nat /\ reviews[i].at <= plannedAt
      BY <3>3, EventParts
    <3>5. Day(reviews[i].at) <= Day(plannedAt) /\ Day(plannedAt) <= Day(now) /\ Day(plannedAt) \in Nat
      BY <1>4, <3>4, DaysAreOrdered, DayShape
    <3> QED
      BY <1>4, <3>3, <3>5
  <2>2. I \in SUBSET S
    <3> SUFFICES ASSUME NEW i \in I PROVE i \in S
      OBVIOUS
    <3>1. i \in Own(Day(now)) /\ reviews[i].prev.history = <<>> /\ place[NoteOf[reviews[i].card]] = "library"
      BY DEF Introduced
    <3>2. i \in DOMAIN reviews /\ Day(reviews[i].at) = Day(plannedAt) /\ Surviving(i)
      BY <2>1, <3>1 DEF Own
    <3>3. i \in Today(plannedAt)
      BY <3>2 DEF Today, Surviving
    <3>4. Queue(reviews[i].prev.history) = "new"
      BY <3>1 DEF Queue
    <3> QED
      BY <3>1, <3>3, <3>4 DEF Present
  <2>3. IsFiniteSet(S)
    BY TodayIsFinite
  <2>4. Studied(plannedAt, "new") = Cardinality(S)
    BY DEF Studied
  <2> HIDE DEF S, I
  <2> QED
    BY <2>2, <2>3, <2>4, FS_Subset
<1>8. CASE I = {}
  <2>1. Cardinality({}) = 0 /\ Cardinality({}) + Cardinality(N) <= NewLimit
    <3> HIDE DEF N
    <3>1. Cardinality({}) = 0
      BY FS_EmptySet
    <3>2. N = {} => Cardinality(N) = 0
      BY <3>1
    <3> QED
      BY <1>1, <1>2, <1>3, <3>1, <3>2
  <2>2. Room(N)
    BY <1>8, <2>1 DEF Room
  <2> QED
    BY <1>1, <2>2
<1>9. CASE I # {}
  <2>1. Cardinality(I) + Cardinality(N) <= NewLimit
    <3> HIDE DEF N, I
    <3>1. CASE N = {}
      <4>1. Cardinality(N) = 0
        BY <3>1, FS_EmptySet
      <4> QED
        BY <1>3, <1>5, <1>6, <4>1
    <3>2. CASE N # {}
      BY <1>1, <1>2, <1>3, <1>5, <1>7, <1>9, <3>2
    <3> QED
      BY <3>1, <3>2
  <2>2. Room(N)
    BY <2>1 DEF Room
  <2> QED
    BY <1>1, <2>2
<1> QED
  BY <1>8, <1>9

\* A session cut from the plan begins.
LEMMA PlannedOrder == ASSUME StudyOrder, StartSession PROVE StudyOrder'
<1>1. TypeInv /\ LogInv /\ BurialInv /\ LimitInv /\ now \in Nat /\ plannedAt \in Nat /\ plannedAt <= now
  BY DEF StudyOrder, TypeInv
<1>2. PICK wanted, seconds :
            Begin("planned", TRUE, BuildQueue(ToSet(PlanQueue(plannedAt)) \cap wanted, seconds))
  BY DEF StartSession
<1>3. PICK E : E = ToSet(PlanQueue(plannedAt)) \cap wanted
  OBVIOUS
<1>4. \A c \in E : c \in Cards /\ Active(c, plannedAt) /\ c \in ToSet(PlanQueue(plannedAt))
  BY <1>1, <1>3, PlanHolds
<1>5. PICK q \in Seq(Cards) : q = BuildQueue(E, seconds) /\ Distinct(q) /\ q \in Seq(E)
  <2>1. E \in SUBSET Cards
    BY <1>4
  <2>2. BuildQueue(E, seconds) \in Seq(E) /\ Distinct(BuildQueue(E, seconds))
    BY <2>1, BuildQueueHolds
  <2>3. \A s \in Seq(E) : s \in Seq(Cards)
    BY <2>1
  <2> QED
    BY <2>2, <2>3
<1>6. Begin("planned", TRUE, q)
  BY <1>2, <1>3, <1>5
<1>7. /\ SessionType' /\ session'.kind = "planned" /\ session'.queue = q /\ session'.since = now
      /\ page' = Mounted /\ UNCHANGED <<now, changes, cards, place, reviews, plannedAt>>
  BY <1>1, <1>5, <1>6, BeginType
<1>8. ASSUME BurySiblings, Recognized, q # <<>>, NEW i \in Own(Day(now)) PROVE q[1] \notin Mates(reviews[i].card)
  <2>1. 1 \in 1 .. Len(q)
    BY <1>8
  <2>2. q[1] \in E
    BY <1>5, <2>1
  <2>3. q[1] \in Cards /\ ~(cards[q[1]].buriedUntil > plannedAt)
    BY <1>4, <2>2 DEF Active, Buried
  <2>4. cards[q[1]].buriedUntil \in Nat
    BY <1>1, <2>3, CardParts
  <2>5. NextDay(now) \in Nat /\ now < NextDay(now)
    BY <1>1, NextDayIsLater
  <2>6. q[1] \in Mates(reviews[i].card) => cards[q[1]].buriedUntil >= NextDay(now)
    BY <1>1, <1>8 DEF BurialInv
  <2> QED
    BY <1>1, <2>3, <2>4, <2>5, <2>6
<1>9. ASSUME Recognized, ~Entangled
      PROVE  \E new \in SUBSET Cards :
                 /\ Room(new)
                 /\ \A k \in 1 .. Len(q) : q[k] \notin new => cards[q[k]].history # <<>>
  <2>1. NewInPlan(plannedAt) \in SUBSET Cards /\ Room(NewInPlan(plannedAt))
    BY <1>1, <1>9, PlanLeavesRoom DEF LimitInv
  <2>2. \A k \in 1 .. Len(q) : q[k] \notin NewInPlan(plannedAt) => cards[q[k]].history # <<>>
    <3>1. \A k \in 1 .. Len(q) : q[k] \in E
      BY <1>5
    <3> QED
      BY <1>4, <3>1 DEF NewInPlan
  <2> QED
    BY <2>1, <2>2
<1>10. session'.kind # "none"
  BY <1>7
<1> QED
  BY <1>7, <1>8, <1>9, <1>10, MountOrder
-----------------------------------------------------------------------------
(* Steps that review *)

\* What has to hold after a step of what is told.
LEMMA HistoryNext ==
    ASSUME NEW n, n = Len(reviews'),
           ~Entangled =>
              /\ \A c \in Cards : cards'[c].history = Told(c, n)'
              /\ \A i \in Undoable' : \A c : c = reviews'[i].card =>
                    /\ reviews'[i].prev.history = Told(c, i - 1)'
                    /\ \A j \in 1 .. n :
                          j > i /\ reviews'[j].card = c /\ Surviving(j)' => j \in Undoable'
    PROVE  HistoryInv'
<1> SUFFICES ASSUME ~Entangled
             PROVE  /\ ScheduleIsHistory'
                    /\ \A i \in Undoable' :
                          /\ reviews'[i].prev.history = Told(reviews[i].card, i - 1)'
                          /\ \A j \in 1 .. Len(reviews') :
                                j > i /\ reviews'[j].card = reviews'[i].card /\ Surviving(j)' => j \in Undoable'
  BY DEF HistoryInv
<1>1. ScheduleIsHistory'
  <2>1. ASSUME NEW c \in Cards PROVE Told(c, Len(reviews))' = Told(c, n)'
    <3>1. Told(c, Len(reviews))' = Recited(reviews', Reversed', c, Len(reviews'))
      BY DEF Told, Recited, Recites, Counts, Entry, Surviving
    <3>2. Told(c, n)' = Recited(reviews', Reversed', c, n)
      BY ToldIsRecited
    <3> QED
      BY <3>1, <3>2
  <2> QED
    BY <2>1 DEF ScheduleIsHistory
<1>2. ASSUME NEW i \in Undoable' PROVE reviews'[i].prev.history = Told(reviews[i].card, i - 1)'
  <2>1. PICK c : c = reviews'[i].card
    OBVIOUS
  <2>2. Told(reviews[i].card, i - 1)' = Recited(reviews', Reversed', reviews'[i].card, i - 1)
    BY DEF Told, Recited, Recites, Counts, Entry, Surviving
  <2>3. Told(c, i - 1)' = Recited(reviews', Reversed', c, i - 1)
    BY ToldIsRecited
  <2> QED
    BY <2>1, <2>2, <2>3
<1> QED
  BY <1>1, <1>2

\* A card is reviewed, here or elsewhere.
Reviewed(event) ==
    /\ event \in Events /\ event.reverses = 0 /\ event.kind \in {"review", "preview"}
    /\ event.at = now /\ event.prev = cards[event.card] /\ Present(event.card)
    /\ \A s \in DOMAIN event.siblings : s \in Cards /\ event.siblings[s] = cards[s].buriedUntil
    /\ event.planned => event.kind = "review" /\ event.device = "own"
    /\ Recognized => event.device # "shared"
    /\ event.device = "other" /\ ~Entangled => \A i \in Undoable : reviews[i].card # event.card
    /\ reviews' = Append(reviews, event)
    /\ cards' \in [Cards -> CardStates]
    /\ cards'[event.card].history =
          IF event.kind = "review"
          THEN Append(cards[event.card].history, [rating |-> event.rating, at |-> event.at])
          ELSE cards[event.card].history
    /\ \A x \in Cards \ {event.card} : cards'[x].history = cards[x].history
    /\ \A x \in Cards : /\ cards[x].buriedUntil <= cards'[x].buriedUntil
                        /\ cards'[x].buriedUntil <= NextDay(now)
    /\ event.kind = "review" /\ BurySiblings =>
          \A s \in Mates(event.card) : cards'[s].buriedUntil = NextDay(now)
    /\ Bounded /\ plannedAt' = now /\ UNCHANGED <<now, changes, place>>

\* The log and the schedule stay right.
LEMMA ReviewedLog ==
    ASSUME TypeInv, LogInv, BurialTimes, HistoryInv, NEW event, Reviewed(event)
    PROVE  LogInv' /\ BurialTimes' /\ HistoryInv'
<1>1. PICK n \in Nat : n = Len(reviews)
  BY DEF TypeInv
<1>2. /\ event \in Events /\ event.reverses = 0 /\ event.kind \in {"review", "preview"}
      /\ event.at = now /\ event.prev = cards[event.card] /\ event.card \in Cards
      /\ reviews' = Append(reviews, event) /\ plannedAt' = now /\ now' = now /\ now \in Nat
      /\ event.planned => event.kind = "review" /\ event.device = "own"
      /\ Recognized => event.device # "shared"
  BY DEF Reviewed, TypeInv, Events
<1>3. /\ Len(reviews') = n + 1
      /\ \A i \in 1 .. n : reviews'[i] = reviews[i]
      /\ reviews'[n + 1] = event
  <2>1. event.reverses \in 0 .. Len(reviews)
    BY <1>1, <1>2
  <2> QED
    BY <1>1, <1>2, <2>1, LogGrows
<1>4. \A i \in 1 .. n + 1 : i \in 1 .. n \/ i = n + 1
  OBVIOUS
<1>5. \A i \in 1 .. n : /\ reviews[i].at \in Nat /\ reviews[i].at <= plannedAt /\ reviews[i].at <= now
                        /\ reviews[i].reverses < i
                        /\ \A j \in 1 .. i : reviews[j].at <= reviews[i].at /\ j \in 1 .. n
                        /\ reviews[i].planned => reviews[i].kind = "review" /\ reviews[i].device = "own"
                        /\ Recognized => reviews[i].device # "shared"
  <2> TAKE i \in 1 .. n
  <2>1. \A j \in 1 .. i : j \in 1 .. n
    OBVIOUS
  <2> QED
    BY <1>1, <2>1, EventParts DEF LogInv
<1>6. LogInv'
  <2> SUFFICES ASSUME NEW i \in 1 .. n + 1
               PROVE  /\ reviews'[i].at <= now
                      /\ reviews'[i].reverses < i
                      /\ \A j \in 1 .. i : reviews'[j].at <= reviews'[i].at
                      /\ reviews'[i].planned => reviews'[i].kind = "review" /\ reviews'[i].device = "own"
                      /\ Recognized => reviews'[i].device # "shared"
    BY <1>2, <1>3 DEF LogInv
  <2>1. CASE i \in 1 .. n
    BY <1>3, <1>5, <2>1
  <2>2. CASE i = n + 1
    <3>1. reviews'[i] = event
      BY <1>3, <2>2
    <3>2. now <= now /\ 0 < i
      BY <1>2
    <3>3. \A j \in 1 .. i : reviews'[j].at <= now
      BY <1>2, <1>3, <1>4, <1>5, <2>2, <3>1, <3>2
    <3> QED
      BY <1>2, <3>1, <3>2, <3>3
  <2> QED
    BY <1>4, <2>1, <2>2
<1>7. BurialTimes'
  <2>1. \A c \in Cards : cards'[c].buriedUntil <= NextDay(now')
    BY <1>2 DEF Reviewed
  <2>2. \A c \in Cards : cards[c].buriedUntil <= NextDay(now)
    BY DEF BurialTimes
  <2>3. ASSUME NEW i \in 1 .. n + 1
        PROVE  /\ reviews'[i].prev.buriedUntil <= NextDay(reviews'[i].at)
               /\ \A s \in DOMAIN reviews'[i].siblings : reviews'[i].siblings[s] <= NextDay(reviews'[i].at)
    <3>1. CASE i \in 1 .. n
      BY <1>1, <1>3, <3>1 DEF BurialTimes
    <3>2. CASE i = n + 1
      <4>1. reviews'[i] = event
        BY <1>3, <3>2
      <4>2. event.prev.buriedUntil <= NextDay(event.at)
        BY <1>2, <2>2
      <4>3. \A s \in DOMAIN event.siblings : event.siblings[s] <= NextDay(event.at)
        BY <1>2, <2>2 DEF Reviewed
      <4> QED
        BY <4>1, <4>2, <4>3
    <3> QED
      BY <1>4, <3>1, <3>2
  <2> QED
    BY <1>3, <2>1, <2>3 DEF BurialTimes, NextDay, Day
<1>8. HistoryInv'
  <2>1. /\ \A i \in 1 .. n : Surviving(i)' <=> Surviving(i)
        /\ Undoable' = Undoable \cup (IF event.device = "other" THEN {} ELSE {n + 1})
        /\ \A c : \A k \in 0 .. n : Told(c, k)' = Told(c, k)
        /\ \A c : Told(c, n + 1)' =
                IF event.card = c /\ event.kind = "review"
                THEN Append(Told(c, n), [rating |-> event.rating, at |-> event.at])
                ELSE Told(c, n)
    BY <1>1, <1>2, ReviewGrows
  <2>2. ASSUME ~Entangled, NEW c \in Cards PROVE cards'[c].history = Told(c, n + 1)' /\ cards[c].history = Told(c, n)
    <3>1. cards[c].history = Told(c, n)
      BY <1>1, <2>2 DEF HistoryInv, ScheduleIsHistory
    <3>2. CASE c = event.card
      BY <2>1, <3>1, <3>2 DEF Reviewed
    <3>3. CASE c # event.card
      BY <2>1, <3>1, <3>3 DEF Reviewed
    <3> QED
      BY <3>1, <3>2, <3>3
  <2>3. ASSUME ~Entangled, NEW i \in Undoable', NEW c, c = reviews'[i].card
        PROVE  /\ reviews'[i].prev.history = Told(c, i - 1)'
               /\ \A j \in 1 .. n + 1 : j > i /\ reviews'[j].card = c /\ Surviving(j)' => j \in Undoable'
    <3>1. Undoable \subseteq 1 .. n
      BY <1>1 DEF TypeInv, Undoable
    <3>2. CASE i \in Undoable
      <4>1. i \in 1 .. n /\ i - 1 \in 0 .. n /\ reviews'[i] = reviews[i]
        BY <1>3, <3>1, <3>2
      <4>2. reviews[i].prev.history = Told(c, i - 1)
        BY <2>3, <3>2, <4>1 DEF HistoryInv
      <4>3. ASSUME NEW j \in 1 .. n + 1, j > i, reviews'[j].card = c, Surviving(j)' PROVE j \in Undoable'
        <5>1. CASE j \in 1 .. n
          <6>1. Surviving(j) /\ reviews[j].card = reviews[i].card
            BY <1>3, <2>1, <2>3, <4>1, <4>3, <5>1
          <6>2. j \in Undoable
            BY <1>1, <2>3, <3>2, <4>3, <5>1, <6>1 DEF HistoryInv
          <6> QED
            BY <2>1, <6>2
        <5>2. CASE j = n + 1
          <6>1. event.card = reviews[i].card
            BY <1>3, <2>3, <4>1, <4>3, <5>2
          <6>2. event.device # "other"
            BY <2>3, <3>2, <6>1 DEF Reviewed
          <6> QED
            BY <2>1, <5>2, <6>2
        <5> QED
          BY <1>4, <5>1, <5>2
      <4> QED
        BY <2>1, <4>1, <4>2, <4>3
    <3>3. CASE i = n + 1
      <4>1. c = event.card /\ reviews'[i].prev.history = cards[c].history
        BY <1>2, <1>3, <2>3, <3>3
      <4>2. cards[c].history = Told(c, n)
        BY <1>2, <2>2, <2>3, <4>1
      <4>3. i - 1 = n /\ n \in 0 .. n /\ \A j \in 1 .. n + 1 : ~(j > i)
        BY <3>3
      <4>4. Told(c, n)' = Told(c, n)
        BY <2>1, <4>3
      <4>5. PICK k : k = i - 1
        OBVIOUS
      <4>6. Told(c, k)' = Told(c, n)
        BY <4>3, <4>4, <4>5
      <4>7. reviews'[i].prev.history = Told(c, k)'
        BY <4>1, <4>2, <4>6
      <4> QED
        BY <4>3, <4>5, <4>7
    <3> QED
      BY <2>1, <3>2, <3>3
  <2> QED
    BY <1>3, <2>2, <2>3, HistoryNext
<1> QED
  BY <1>6, <1>7, <1>8
\* The days of the next state.
LEMMA OwnNext ==
    /\ \A d : d = Day(now') => Own(Day(now))' = Own(d)'
    /\ \A d : \A m : d = Day(reviews'[m].at) => Own(Day(reviews[m].at))' = Own(d)'
    /\ \A d : d = Day(session'.since) => Own(Day(session.since))' = Own(d)'
    /\ NextDay(now)' = NextDay(now') /\ \A m : NextDay(reviews[m].at)' = NextDay(reviews'[m].at)
BY DEF Own, NextDay, Day

\* What has to hold after a step of what is buried.
LEMMA BurialNext ==
    ASSUME BurySiblings /\ Recognized =>
              /\ \A d : d = Day(now') => \A i \in Own(d)' : \A s \in Mates(reviews'[i].card) :
                    cards'[s].buriedUntil >= NextDay(now')
              /\ \A m \in Undoable' : \A d : d = Day(reviews'[m].at) =>
                    \A i \in Own(d)' : i < m =>
                    \A s \in Mates(reviews'[i].card) :
                       /\ s = reviews'[m].card => reviews'[m].prev.buriedUntil >= NextDay(reviews'[m].at)
                       /\ s \in DOMAIN reviews'[m].siblings =>
                             reviews'[m].siblings[s] >= NextDay(reviews'[m].at)
    PROVE  BurialInv'
<1>1. \A c : Mates(c)' = Mates(c)
  BY DEF Mates
<1>2. ASSUME NEW m PROVE Mates(reviews[m].card)' = Mates(reviews'[m].card)
  BY DEF Mates
<1> QED
  BY <1>2, OwnNext DEF BurialInv

\* The siblings are buried.
LEMMA ReviewedBurial ==
    ASSUME TypeInv, LogInv, BurialInv, NEW event, Reviewed(event)
    PROVE  BurialInv'
<1> SUFFICES ASSUME BurySiblings, Recognized
             PROVE  /\ \A d : d = Day(now') => \A i \in Own(d)' : \A s \in Mates(reviews'[i].card) :
                          cards'[s].buriedUntil >= NextDay(now')
                    /\ \A m \in Undoable' : \A d : d = Day(reviews'[m].at) =>
                          \A i \in Own(d)' : i < m =>
                          \A s \in Mates(reviews'[i].card) :
                             /\ s = reviews'[m].card => reviews'[m].prev.buriedUntil >= NextDay(reviews'[m].at)
                             /\ s \in DOMAIN reviews'[m].siblings =>
                                   reviews'[m].siblings[s] >= NextDay(reviews'[m].at)
  BY BurialNext
<1>1. PICK n \in Nat : n = Len(reviews)
  BY DEF TypeInv
<1>2. /\ event \in Events /\ event.reverses = 0 /\ event.kind \in {"review", "preview"}
      /\ event.at = now /\ event.prev = cards[event.card] /\ event.card \in Cards
      /\ reviews' = Append(reviews, event) /\ now' = now /\ now \in Nat /\ NextDay(now) \in Nat
  BY NextDayIsLater DEF Reviewed, TypeInv, Events
<1>3. /\ \A i \in 1 .. n : reviews'[i] = reviews[i]
      /\ reviews'[n + 1] = event
  <2>1. event.reverses \in 0 .. Len(reviews)
    BY <1>1, <1>2
  <2> QED
    BY <1>1, <1>2, <2>1, LogGrows
<1>4. /\ Undoable' = Undoable \cup (IF event.device = "other" THEN {} ELSE {n + 1})
      /\ \A d : Own(d)' = Own(d) \cup
            (IF event.planned /\ event.kind = "review" /\ Day(event.at) = d THEN {n + 1} ELSE {})
  BY <1>1, <1>2, ReviewGrows
<1>5. /\ \A d : \A i \in Own(d) : i \in 1 .. n /\ i < n + 1
      /\ Undoable \subseteq 1 .. n
  <2>1. \A d : \A i \in Own(d) : i \in 1 .. n
    BY <1>1, OwnParts
  <2>2. Undoable \subseteq 1 .. n
    BY <1>1 DEF TypeInv, Undoable
  <2>3. \A i \in 1 .. n : i < n + 1
    OBVIOUS
  <2> QED
    BY <2>1, <2>2, <2>3
<1>6. ASSUME NEW i \in Own(Day(now)), NEW s \in Mates(reviews[i].card)
      PROVE  cards[s].buriedUntil >= NextDay(now) /\ s \in Cards /\ cards[s].buriedUntil \in Nat
  BY CardParts DEF BurialInv, Mates
<1>7. ASSUME NEW d, d = Day(now'), NEW i \in Own(d)', NEW s \in Mates(reviews'[i].card)
      PROVE  cards'[s].buriedUntil >= NextDay(now')
  <2>1. s \in Cards
    BY DEF Mates
  <2>2. cards'[s] \in CardStates /\ cards[s].buriedUntil <= cards'[s].buriedUntil
    BY <2>1 DEF Reviewed
  <2>3. cards'[s].buriedUntil \in Nat
    BY <2>2 DEF CardStates
  <2>4. CASE i \in Own(d)
    <3>1. reviews'[i] = reviews[i] /\ i \in Own(Day(now))
      BY <1>2, <1>3, <1>5, <1>7, <2>4
    <3>2. cards[s].buriedUntil >= NextDay(now) /\ cards[s].buriedUntil \in Nat
      BY <1>6, <1>7, <3>1
    <3> QED
      BY <1>2, <2>2, <2>3, <3>2
  <2>5. CASE i \notin Own(d)
    <3>1. i = n + 1 /\ event.kind = "review"
      BY <1>4, <1>7, <2>5
    <3>2. s \in Mates(event.card)
      BY <1>3, <1>7, <3>1
    <3>3. cards'[s].buriedUntil = NextDay(now)
      BY <3>1, <3>2 DEF Reviewed
    <3> QED
      BY <1>2, <3>3
  <2> QED
    BY <2>4, <2>5
<1>8. ASSUME NEW m \in Undoable', NEW d, d = Day(reviews'[m].at), NEW i \in Own(d)', i < m,
             NEW s \in Mates(reviews'[i].card)
      PROVE  /\ s = reviews'[m].card => reviews'[m].prev.buriedUntil >= NextDay(reviews'[m].at)
             /\ s \in DOMAIN reviews'[m].siblings =>
                   reviews'[m].siblings[s] >= NextDay(reviews'[m].at)
  <2>1. m \in 1 .. n \/ m = n + 1
    BY <1>4, <1>5
  <2>2. i \in Own(d) /\ reviews'[i] = reviews[i]
    <3>1. i # n + 1
      BY <1>8, <2>1
    <3>2. i \in Own(d)
      BY <1>4, <1>8, <3>1
    <3> QED
      BY <1>3, <1>5, <3>2
  <2>3. CASE m \in Undoable
    <3>1. reviews'[m] = reviews[m]
      BY <1>3, <1>5, <2>3
    <3> QED
      BY <1>8, <2>2, <2>3, <3>1 DEF BurialInv
  <2>4. CASE m \notin Undoable
    <3>1. m = n + 1
      BY <1>4, <1>8, <2>4
    <3>2. reviews'[m] = event /\ i \in Own(Day(now))
      BY <1>2, <1>3, <1>8, <2>2, <3>1
    <3>3. cards[s].buriedUntil >= NextDay(now)
      BY <1>6, <1>8, <2>2, <3>2
    <3>4. s \in DOMAIN event.siblings => event.siblings[s] = cards[s].buriedUntil
      BY DEF Reviewed
    <3> QED
      BY <1>2, <3>2, <3>3, <3>4
  <2> QED
    BY <2>3, <2>4
<1> QED
  BY <1>7, <1>8
\* What is done to review a card c.
Reviewing(c, rating, kind, device, planned, h, reschedule) ==
    /\ c \in Cards /\ Present(c) /\ rating \in Ratings
    /\ kind \in {"review", "preview"} /\ device \in {"own", "other", "shared"}
    /\ planned \in BOOLEAN /\ reschedule \in BOOLEAN /\ (reschedule <=> kind = "review")
    /\ h = IF kind = "review" THEN Append(cards[c].history, [rating |-> rating, at |-> now])
           ELSE cards[c].history
    /\ planned => kind = "review" /\ device = "own"
    /\ Recognized => device # "shared"
    /\ device = "other" /\ ~Entangled => \A i \in Undoable : reviews[i].card # c
    /\ Log(Event(kind, c, rating, device, planned, 0, SiblingChanges(c, reschedule)))
    /\ cards' = CardsAfter(c, h, reschedule) /\ Replans /\ UNCHANGED <<now, changes, place>>

\* A review of a card of the application, or one made elsewhere.
LEMMA ReviewIsReviewed ==
    ASSUME TypeInv, BurialTimes, NEW c, NEW rating, NEW kind, NEW device, NEW planned, NEW h,
           NEW reschedule, Reviewing(c, rating, kind, device, planned, h, reschedule)
    PROVE  \E event : /\ Reviewed(event) /\ event.card = c /\ event.planned = planned
                      /\ event.device = device /\ event.kind = kind
<1> USE DEF Reviewing
<1>1. SiblingChanges(c, reschedule) \in SUBSET Cards
  BY DEF SiblingChanges, Siblings
<1>2. PICK siblings \in SUBSET Cards : siblings = SiblingChanges(c, reschedule)
  BY <1>1
<1>3. PICK event \in Events :
              /\ event = Event(kind, c, rating, device, planned, 0, siblings)
              /\ event.kind = kind /\ event.card = c /\ event.rating = rating /\ event.at = now
              /\ event.device = device /\ event.planned = planned /\ event.reverses = 0
              /\ event.prev = cards[c]
              /\ DOMAIN event.siblings = siblings
              /\ \A s \in siblings : event.siblings[s] = cards[s].buriedUntil
  <2>1. 0 \in Nat /\ kind \in {"review", "preview", "reversal"}
    OBVIOUS
  <2> QED
    BY <2>1, EventHolds
<1>4. reviews' = Append(reviews, event) /\ Bounded
  BY <1>2, <1>3 DEF Log
<1>5. h \in Histories
  <2>1. cards[c].history \in Histories
    BY CardParts
  <2>2. [rating |-> rating, at |-> now] \in [rating : Ratings, at : Nat]
    BY DEF TypeInv
  <2>3. Append(cards[c].history, [rating |-> rating, at |-> now]) \in Histories
    BY <2>1, <2>2 DEF Histories
  <2> QED
    BY <2>1, <2>3
<1>6. /\ cards' \in [Cards -> CardStates]
      /\ cards'[c].history = h
      /\ \A x \in Cards \ {c} : cards'[x].history = cards[x].history
      /\ \A x \in Cards : /\ cards[x].buriedUntil <= cards'[x].buriedUntil
                          /\ cards'[x].buriedUntil <= NextDay(now)
      /\ reschedule /\ BurySiblings => \A s \in Mates(c) : cards'[s].buriedUntil = NextDay(now)
  BY <1>5, CardsAfterHolds
<1>7. plannedAt' = now
  BY DEF Replans
<1>8. Reviewed(event)
  BY <1>3, <1>4, <1>6, <1>7 DEF Reviewed
<1> QED
  BY <1>3, <1>8

\* The types of what a review changes.
LEMMA ReviewedType ==
    ASSUME TypeInv, LogInv, NEW event, Reviewed(event), SessionType', PageType'
    PROVE  TypeInv'
<1>1. /\ event \in Events /\ event.reverses = 0 /\ reviews' = Append(reviews, event)
      /\ cards' \in [Cards -> CardStates] /\ Bounded /\ plannedAt' = now /\ UNCHANGED <<now, changes, place>>
  BY DEF Reviewed
<1>2. reviews' \in Seq(Events) /\ Len(reviews') = Len(reviews) + 1 /\ Len(reviews) \in Nat
  <2>1. event.reverses \in 0 .. Len(reviews)
    BY <1>1 DEF TypeInv
  <2> QED
    BY <1>1, <2>1, LogGrows
<1>3. Len(reviews') + changes' <= MaxSteps
  <2>1. Len(reviews) + changes < MaxSteps /\ changes \in Nat /\ MaxSteps \in Nat
    BY <1>1, BoundAssumption DEF Bounded, TypeInv
  <2> QED
    BY <1>1, <1>2, <2>1
<1>4. plannedAt' \in 0 .. now' /\ now' \in 0 .. MaxTime
  BY <1>1 DEF TypeInv
<1>5. changes' \in Nat /\ place' \in [Notes -> Places]
  BY <1>1 DEF TypeInv
<1> QED
  BY <1>1, <1>2, <1>3, <1>4, <1>5 DEF TypeInv

\* A grade reviews the card on the page.
LEMMA GradeReviews ==
    ASSUME TypeInv, BurialTimes, Grade
    PROVE  /\ page.open /\ page.index \in 1 .. Len(session.queue) /\ session' = session
           /\ session.queue[page.index] \in Cards
           /\ page' = [page EXCEPT !.index =
                            Min(Upcoming(session.queue[page.index]) \cup {Len(session.queue) + 1}),
                                   !.answered = Append(@, page.index)]
           /\ \E event : /\ Reviewed(event) /\ event.card = session.queue[page.index]
                         /\ event.planned = (session.kind = "planned") /\ event.device = "own"
<1>1. SessionType /\ PageType
  BY DEF TypeInv
<1>2. /\ session.queue \in Seq(Cards) /\ session.reschedule \in BOOLEAN
      /\ session.kind = "planned" => session.reschedule
  BY <1>1 DEF SessionType
<1>3. page.index \in 1 .. Len(session.queue) + 1 /\ page.index <= Len(session.queue)
  BY <1>1 DEF Grade, PageType
<1>4. page.index \in 1 .. Len(session.queue) /\ session.queue[page.index] \in Cards
  BY <1>2, <1>3
<1>5. PICK c \in Cards : c = session.queue[page.index]
  BY <1>4
<1>6. /\ page.open /\ Present(c) /\ UNCHANGED <<now, changes, place, session>>
      /\ page' = [page EXCEPT !.index = Min(Upcoming(c) \cup {Len(session.queue) + 1}),
                              !.answered = Append(@, page.index)]
  BY <1>5 DEF Grade
<1>7. PICK rating \in Ratings : ReviewCard(c, rating)
  BY <1>5 DEF Grade, Ratings
<1>8. PICK kind \in {"review", "preview"} : kind = IF session.reschedule THEN "review" ELSE "preview"
  OBVIOUS
<1>9. PICK planned \in BOOLEAN : planned = (session.kind = "planned")
  OBVIOUS
<1>10. PICK h : h = IF kind = "review" THEN Append(cards[c].history, [rating |-> rating, at |-> now])
                    ELSE cards[c].history
  OBVIOUS
<1>11. session.reschedule <=> kind = "review"
  BY <1>2, <1>8
<1>12. /\ Log(Event(kind, c, rating, "own", planned, 0, SiblingChanges(c, session.reschedule)))
       /\ cards' = CardsAfter(c, h, session.reschedule) /\ Replans
  <2>1. Log(Event(kind, c, rating, "own", planned, 0, SiblingChanges(c, session.reschedule)))
    BY <1>7, <1>8, <1>9 DEF ReviewCard
  <2>2. h = IF session.reschedule THEN Append(cards[c].history, [rating |-> rating, at |-> now])
            ELSE cards[c].history
    BY <1>10, <1>11
  <2>3. cards' = CardsAfter(c, h, session.reschedule)
    BY <1>7, <2>2 DEF ReviewCard
  <2>4. Replans
    BY <1>7 DEF ReviewCard
  <2> QED
    BY <2>1, <2>3, <2>4
<1>13. planned => kind = "review"
  BY <1>2, <1>9, <1>11
<1>14. \E event : /\ Reviewed(event) /\ event.card = c /\ event.planned = planned
                  /\ event.device = "own" /\ event.kind = kind
  <2>1. PICK device \in {"own", "other", "shared"} : device = "own"
    OBVIOUS
  <2>2. /\ planned => kind = "review" /\ device = "own"
        /\ Recognized => device # "shared"
        /\ device = "other" /\ ~Entangled => \A i \in Undoable : reviews[i].card # c
    BY <1>13, <2>1
  <2>3. PICK reschedule \in BOOLEAN : reschedule = session.reschedule
    BY <1>2
  <2>4. /\ Log(Event(kind, c, rating, device, planned, 0, SiblingChanges(c, reschedule)))
        /\ cards' = CardsAfter(c, h, reschedule) /\ Replans
        /\ reschedule <=> kind = "review"
    BY <1>11, <1>12, <2>1, <2>3
  <2>5. \E event : /\ Reviewed(event) /\ event.card = c /\ event.planned = planned
                   /\ event.device = device /\ event.kind = kind
    <3>1. Reviewing(c, rating, kind, device, planned, h, reschedule)
      BY <1>6, <1>10, <2>2, <2>4 DEF Reviewing
    <3> QED
      BY <3>1, ReviewIsReviewed
  <2> QED
    BY <2>1, <2>5
<1> QED
  BY <1>4, <1>5, <1>6, <1>9, <1>14

\* A review made elsewhere is not of a plan of this device.
LEMMA ReceiveReviews ==
    ASSUME TypeInv, BurialTimes, ReceiveReview
    PROVE  /\ UNCHANGED <<session, page>>
           /\ \E event : Reviewed(event) /\ ~event.planned /\ event.device # "own"
<1>1. PICK c \in Cards, rating \in Ratings, device \in {"own", "other", "shared"} :
            /\ device = (IF Recognized THEN "other" ELSE "shared")
            /\ Present(c)
            /\ Entangled \/ \A i \in Undoable : reviews[i].card # c
            /\ Log(Event("review", c, rating, device, FALSE, 0, SiblingChanges(c, TRUE)))
            /\ cards' = CardsAfter(c, Append(cards[c].history, [rating |-> rating, at |-> now]), TRUE)
            /\ Replans
            /\ UNCHANGED <<now, changes, place, session, page>>
  <2>1. PICK device \in {"own", "other", "shared"} : device = (IF Recognized THEN "other" ELSE "shared")
    OBVIOUS
  <2> QED
    BY <2>1 DEF ReceiveReview, Ratings
<1>2. device # "own" /\ (Recognized => device # "shared")
  BY <1>1
<1>3. PICK kind, planned, reschedule, h :
            /\ kind \in {"review", "preview"} /\ planned \in BOOLEAN /\ reschedule \in BOOLEAN
            /\ kind = "review" /\ planned = FALSE /\ reschedule = TRUE
            /\ h = Append(cards[c].history, [rating |-> rating, at |-> now])
  OBVIOUS
<1>4. /\ reschedule <=> kind = "review"
      /\ h = IF kind = "review" THEN Append(cards[c].history, [rating |-> rating, at |-> now])
             ELSE cards[c].history
      /\ planned => kind = "review" /\ device = "own"
      /\ device = "other" /\ ~Entangled => \A i \in Undoable : reviews[i].card # c
      /\ Log(Event(kind, c, rating, device, planned, 0, SiblingChanges(c, reschedule)))
      /\ cards' = CardsAfter(c, h, reschedule)
  BY <1>1, <1>3
<1>5. \E event : /\ Reviewed(event) /\ event.card = c /\ event.planned = planned
                 /\ event.device = device /\ event.kind = kind
  <2>1. Reviewing(c, rating, kind, device, planned, h, reschedule)
    BY <1>1, <1>2, <1>3, <1>4 DEF Reviewing
  <2> QED
    BY <2>1, ReviewIsReviewed
<1> QED
  BY <1>1, <1>2, <1>3, <1>5
-----------------------------------------------------------------------------
(* Grades *)

\* The card on the page is graded, and the page goes on.
Graded(event) ==
    /\ Reviewed(event) /\ event.card = session.queue[page.index]
    /\ event.planned = (session.kind = "planned") /\ event.device = "own"
    /\ page.open /\ page.index \in 1 .. Len(session.queue) /\ session' = session
    /\ page'.open /\ page'.answered = Append(page.answered, page.index)
    /\ page'.index \in Upcoming(session.queue[page.index]) \cup {Len(session.queue) + 1}

\* A grade is one.
LEMMA GradeGrades ==
    ASSUME TypeInv, BurialTimes, Grade
    PROVE  SessionType' /\ PageType' /\ \E event : Graded(event)
<1>1. /\ page.open /\ page.index \in 1 .. Len(session.queue) /\ session' = session
      /\ page' = [page EXCEPT !.index =
                      Min(Upcoming(session.queue[page.index]) \cup {Len(session.queue) + 1}),
                              !.answered = Append(@, page.index)]
  BY GradeReviews
<1>2. SessionType /\ PageType /\ now' = now
  BY DEF TypeInv, Grade
<1>3. SessionType'
  BY <1>1, <1>2 DEF SessionType
<1>4. PICK m \in Nat : m = Len(session.queue)
  BY <1>2 DEF SessionType
<1>5. PICK T : T = Upcoming(session.queue[page.index]) \cup {m + 1}
  OBVIOUS
<1>6. T \in SUBSET (1 .. m + 1) /\ m + 1 \in T
  <2>1. page.index \in Nat
    BY <1>2 DEF PageType
  <2>2. \A i \in page.index + 1 .. m : i \in 1 .. m + 1
    BY <2>1
  <2> QED
    BY <1>4, <1>5, <2>2 DEF Upcoming
<1>7. PICK i \in 1 .. m + 1 : i = Min(T) /\ i \in T
  <2>1. T \in SUBSET Nat /\ T # {}
    BY <1>6
  <2> QED
    BY <1>6, <2>1, MinIsLeast
<1>8. PICK old \in [open : BOOLEAN, index : Nat, answered : Seq(Nat)] : old = page
  BY <1>2 DEF PageType
<1>9. PICK a \in Seq(Nat) : a = Append(old.answered, old.index)
  <2>1. old.answered \in Seq(Nat)
    OBVIOUS
  <2>2. old.index \in Nat
    OBVIOUS
  <2>3. Append(old.answered, old.index) \in Seq(Nat)
    BY <2>1, <2>2, AppendProperties
  <2> QED
    BY <2>3
<1>10. page' = [old EXCEPT !.index = i, !.answered = Append(@, old.index)]
  BY <1>1, <1>4, <1>5, <1>7, <1>8
<1>11. page' = [[old EXCEPT !.index = i] EXCEPT !.answered = a]
  BY <1>9, <1>10
<1>12. PICK middle \in [open : BOOLEAN, index : Nat, answered : Seq(Nat)] : middle = [old EXCEPT !.index = i]
  <2>1. i \in Nat
    BY <1>4
  <2> QED
    BY <2>1
<1>13. middle.index = i /\ middle.open = old.open
  BY <1>12
<1>14. page' = [middle EXCEPT !.answered = a]
  BY <1>11, <1>12
<1>15. /\ page' \in [open : BOOLEAN, index : Nat, answered : Seq(Nat)]
       /\ page'.answered = a /\ page'.index = i /\ page'.open = old.open
  BY <1>13, <1>14
<1>16. PICK l \in Nat : l = Len(old.answered)
  OBVIOUS
<1>17. /\ Len(a) = l + 1 /\ a[l + 1] = page.index /\ a # <<>>
       /\ \A k \in 1 .. l : a[k] = page.answered[k]
  BY <1>8, <1>9, <1>16
<1>18. \A k \in 1 .. l + 1 : k \in 1 .. l \/ k = l + 1
  OBVIOUS
<1>19. \A k \in 1 .. l + 1 : a[k] \in 1 .. m
  BY <1>1, <1>2, <1>4, <1>8, <1>16, <1>17, <1>18 DEF PageType
<1>20. a[1] = 1
  <2>1. CASE page.answered = <<>>
    <3>1. l = 0 /\ page.index = 1
      BY <1>2, <1>8, <1>16, <2>1 DEF PageType
    <3> QED
      BY <1>17, <3>1
  <2>2. CASE page.answered # <<>>
    <3>1. 1 \in 1 .. l /\ page.answered[1] = 1
      BY <1>2, <1>8, <1>16, <2>2 DEF PageType
    <3> QED
      BY <1>17, <3>1
  <2> QED
    BY <2>1, <2>2
<1>21. PageType'
  <2>1. page'.index \in 1 .. Len(session'.queue) + 1
    BY <1>1, <1>4, <1>15
  <2>2. \A k \in 1 .. Len(page'.answered) : page'.answered[k] \in 1 .. Len(session'.queue)
    BY <1>1, <1>4, <1>15, <1>17, <1>19
  <2>3. session'.kind # "none"
    BY <1>1, <1>2 DEF PageType
  <2>4. page'.open /\ page'.answered # <<>> /\ page'.answered[1] = 1
    BY <1>1, <1>8, <1>15, <1>17, <1>20
  <2> QED
    BY <1>15, <2>1, <2>2, <2>3, <2>4 DEF PageType
<1>22. PICK event : /\ Reviewed(event) /\ event.card = session.queue[page.index]
                    /\ event.planned = (session.kind = "planned") /\ event.device = "own"
  BY GradeReviews
<1>23. Graded(event)
  BY <1>1, <1>4, <1>5, <1>7, <1>8, <1>9, <1>15, <1>22 DEF Graded
<1> QED
  BY <1>3, <1>21, <1>23

\* The new review answers the page.
LEMMA GradedAnswers ==
    ASSUME TypeInv, LogInv, NEW event, Graded(event), NEW e \in Answers, NEW n \in Nat, n = Len(reviews)
    PROVE  \E a \in Answers' : \A k \in 1 .. Len(page'.answered) :
              \/ k \in 1 .. Len(page.answered) /\ a[k] = e[k]
              \/ a[k] = n + 1
<1>1. /\ event \in Events /\ event.reverses = 0 /\ event.kind \in {"review", "preview"} /\ event.at = now
      /\ reviews' = Append(reviews, event) /\ event.card = session.queue[page.index]
      /\ event.planned = (session.kind = "planned") /\ event.device = "own" /\ Present(event.card)
      /\ place' = place /\ session' = session /\ page'.answered = Append(page.answered, page.index)
  BY DEF Graded, Reviewed
<1>2. /\ Len(reviews') = n + 1
      /\ \A i \in 1 .. n : reviews'[i] = reviews[i]
      /\ reviews'[n + 1] = event
  <2>1. event.reverses \in 0 .. Len(reviews)
    BY <1>1
  <2> QED
    BY <1>1, <2>1, LogGrows
<1>3. Undoable' = Undoable \cup {n + 1}
  <2>1. event.device # "other"
    BY <1>1
  <2> QED
    BY <1>1, <2>1, ReviewGrows
<1>4. PICK l \in Nat : l = Len(page.answered) /\ page.answered \in Seq(Nat)
  BY DEF TypeInv, PageType
<1>5. /\ Len(page'.answered) = l + 1 /\ page'.answered[l + 1] = page.index
      /\ \A k \in 1 .. l : page'.answered[k] = page.answered[k]
  <2>1. page.index \in Nat
    BY DEF TypeInv, PageType
  <2> QED
    BY <1>1, <1>4, <2>1
<1>6. e \in [1 .. l -> 1 .. n]
  BY <1>4 DEF Answers
<1>7. PICK a : a = [k \in 1 .. l + 1 |-> IF k = l + 1 THEN n + 1 ELSE e[k]]
  OBVIOUS
<1>8. /\ a[l + 1] = n + 1 /\ \A k \in 1 .. l : a[k] = e[k] /\ e[k] \in 1 .. n
      /\ \A k \in 1 .. l : k \in 1 .. l + 1 /\ k < l + 1
      /\ \A k \in 1 .. l + 1 : k \in 1 .. l \/ k = l + 1
      /\ l + 1 \in 1 .. l + 1
      /\ \A i \in 1 .. n : i \in 1 .. n + 1 /\ i < n + 1
      /\ n + 1 \in 1 .. n + 1
  BY <1>6, <1>7
<1>9. a \in [1 .. l + 1 -> 1 .. n + 1]
  <2>1. \A k \in 1 .. l + 1 : a[k] \in 1 .. n + 1
    BY <1>8
  <2> QED
    BY <1>7, <2>1
<1>10. ASSUME NEW k \in 1 .. l + 1, NEW j \in 1 .. l + 1, k < j PROVE a[k] < a[j]
  <2>1. k \in 1 .. l
    <3>1. k # l + 1
      BY <1>10
    <3> QED
      BY <1>8, <3>1
  <2>2. CASE j \in 1 .. l
    BY <1>4, <1>8, <1>10, <2>1, <2>2 DEF Answers
  <2>3. CASE j = l + 1
    BY <1>8, <2>1, <2>3
  <2> QED
    BY <1>8, <2>2, <2>3
<1>11. ASSUME NEW k \in 1 .. l + 1
       PROVE  /\ a[k] \in Undoable'
              /\ reviews'[a[k]].card = session'.queue[page'.answered[k]]
              /\ \A c : c = reviews'[a[k]].card => Present(c)'
              /\ reviews'[a[k]].at >= session'.since
              /\ reviews'[a[k]].planned = (session'.kind = "planned")
              /\ \A i \in Undoable' : i > a[k] => \E j \in 1 .. l + 1 : i = a[j]
  <2>1. \A c : Present(c)' <=> Present(c)
    BY <1>1 DEF Present
  <2>2. CASE k \in 1 .. l
    <3>1. /\ e[k] \in Undoable
          /\ reviews[e[k]].card = session.queue[page.answered[k]]
          /\ Present(reviews[e[k]].card)
          /\ reviews[e[k]].at >= session.since
          /\ reviews[e[k]].planned = (session.kind = "planned")
          /\ \A i \in Undoable : i > e[k] => \E j \in 1 .. l : i = e[j]
      BY <1>4, <2>2 DEF Answers
    <3>2. a[k] = e[k] /\ reviews'[a[k]] = reviews[e[k]]
      BY <1>2, <1>8, <2>2
    <3>3. \A i \in Undoable' : i > a[k] => \E j \in 1 .. l + 1 : i = a[j]
      BY <1>3, <1>8, <3>1, <3>2
    <3>4. \A c : c = reviews'[a[k]].card => Present(c)'
      BY <2>1, <3>1, <3>2
    <3> QED
      BY <1>1, <1>3, <1>5, <2>2, <3>1, <3>2, <3>3, <3>4
  <2>3. CASE k = l + 1
    <3>1. a[k] = n + 1 /\ reviews'[a[k]] = event
      BY <1>2, <1>8, <2>3
    <3>2. event.at >= session.since
      BY <1>1 DEF TypeInv, SessionType
    <3>3. \A i \in Undoable' : ~(i > a[k])
      <4>1. Undoable \subseteq 1 .. n
        BY DEF TypeInv, Undoable
      <4> QED
        BY <1>3, <1>8, <3>1, <4>1
    <3>4. \A c : c = reviews'[a[k]].card => Present(c)'
      BY <1>1, <2>1, <3>1
    <3> QED
      BY <1>1, <1>3, <1>5, <2>3, <3>1, <3>2, <3>3, <3>4
  <2> QED
    BY <1>8, <2>2, <2>3
<1>12. a \in Answers'
  <2>1. \A i, c : c = reviews'[a[i]].card /\ Present(c)' => Present(reviews[a[i]].card)'
    BY DEF Present
  <2> QED
    BY <1>2, <1>5, <1>9, <1>10, <1>11, <2>1 DEF Answers
<1> QED
  BY <1>4, <1>5, <1>8, <1>12

\* What has to hold after a step of the card on the page.
LEMMA SeatNext ==
    ASSUME BurySiblings /\ Recognized /\ ~Overnight /\ session'.kind = "planned" =>
              /\ page'.open /\ page'.index <= Len(session'.queue) =>
                    \A d : d = Day(now') =>
                    \A i \in Own(d)' : session'.queue[page'.index] \notin Mates(reviews'[i].card)
              /\ session'.queue # <<>> =>
                    \A d : d = Day(session'.since) =>
                    \A i \in Own(d)' : session'.queue[1] \notin Mates(reviews'[i].card)
    PROVE  SeatInv'
<1>1. \A m : Mates(reviews[m].card)' = Mates(reviews'[m].card)
  BY DEF Mates
<1> QED
  BY <1>1, OwnNext DEF SeatInv

\* What has to hold after a step of the cards of a note.
LEMMA ApartNext ==
    ASSUME BurySiblings /\ Recognized /\ ~Overnight =>
              \A d : \A i, j \in Own(d)' :
                 NoteOf[reviews'[i].card] = NoteOf[reviews'[j].card] => reviews'[i].card = reviews'[j].card
    PROVE  ApartInv'
BY DEF ApartInv, SiblingsApart

\* What has to hold after a step of the new cards.
LEMMA LimitNext ==
    ASSUME Recognized /\ ~Entangled =>
              /\ \A d : \A i, j \in Introduced(d)' : reviews'[i].card = reviews'[j].card => i = j
              /\ \A m : m = Day(now') => \A d \in 0 .. m : Cardinality(Introduced(d)') <= NewLimit
              /\ session'.kind = "planned" => \E new \in SUBSET Cards : NewOnes(new)'
    PROVE  LimitInv'
<1>1. \A d : Introduced(d)' = {i \in Own(d)' : reviews'[i].prev.history = <<>>
                                      /\ place'[NoteOf[reviews'[i].card]] = "library"}
  BY DEF Introduced
<1>2. (0 .. Day(now))' = 0 .. Day(now')
  BY DEF Day
<1> QED
  BY <1>1, <1>2 DEF LimitInv, IntroducedOnce, NewLimitHonoured

\* There is still room.
LEMMA RoomNext ==
    ASSUME NEW new, NEW d, d = Day(now'), NEW before \in SUBSET Introduced(d)',
           Cardinality(before) + Cardinality(new) <= NewLimit,
           \A i \in Introduced(d)' : i \notin before => reviews'[i].card \in new
    PROVE  Room(new)'
<1>1. Introduced(Day(now))' = Introduced(d)'
  BY DEF Introduced, Own, Day
<1> QED
  BY <1>1 DEF Room

\* A review of a plan is a review of today.
LEMMA GradedOwn ==
    ASSUME TypeInv, LogInv, NEW event, Graded(event), NEW n \in Nat, n = Len(reviews)
    PROVE  /\ \A i \in 1 .. n : reviews'[i] = reviews[i]
           /\ reviews'[n + 1] = event
           /\ \A d : Own(d)' = Own(d) \cup
                (IF event.planned /\ Day(now) = d THEN {n + 1} ELSE {})
           /\ \A d : \A i \in Own(d) : i \in 1 .. n /\ reviews'[i] = reviews[i]
<1>1. /\ event \in Events /\ event.reverses = 0 /\ event.kind \in {"review", "preview"} /\ event.at = now
      /\ reviews' = Append(reviews, event)
      /\ event.planned => event.kind = "review"
  BY DEF Graded, Reviewed
<1>2. /\ \A i \in 1 .. n : reviews'[i] = reviews[i]
      /\ reviews'[n + 1] = event
  <2>1. event.reverses \in 0 .. Len(reviews)
    BY <1>1
  <2> QED
    BY <1>1, <2>1, LogGrows
<1>3. \A d : Own(d)' = Own(d) \cup
                (IF event.planned /\ event.kind = "review" /\ Day(event.at) = d THEN {n + 1} ELSE {})
  <2>1. /\ event.reverses = 0 /\ event.kind \in {"review", "preview"}
        /\ reviews' = Append(reviews, event) /\ event \in Events
    BY <1>1
  <2> QED
    BY <2>1, ReviewGrows
<1>4. \A d : Own(d)' = Own(d) \cup (IF event.planned /\ Day(now) = d THEN {n + 1} ELSE {})
  BY <1>1, <1>3
<1>5. \A d : \A i \in Own(d) : i \in 1 .. n
  BY OwnParts
<1> QED
  BY <1>2, <1>4, <1>5

\* The first answer of a page that is a review of today.
LEMMA FirstAnswer ==
    ASSUME TypeInv, LogInv, PageInv, Recognized, session.kind = "planned", page.answered # <<>>,
           Day(session.since) = Day(now)
    PROVE  \E i \in Own(Day(now)) : reviews[i].card = session.queue[1]
<1>1. PICK e : e \in Answers
  BY DEF PageInv
<1>2. 1 \in 1 .. Len(page.answered) /\ page.answered[1] = 1
  BY DEF TypeInv, PageType
<1>3. /\ e[1] \in 1 .. Len(reviews) /\ e[1] \in Undoable
      /\ reviews[e[1]].card = session.queue[1] /\ reviews[e[1]].at >= session.since
      /\ reviews[e[1]].planned
  BY <1>1, <1>2 DEF Answers
<1>4. reviews[e[1]].kind = "review"
  BY <1>3 DEF LogInv
<1>5. Surviving(e[1]) /\ e[1] \in DOMAIN reviews
  BY <1>3, <1>4 DEF Undoable, Surviving
<1>6. session.since \in Nat /\ session.since <= now
  BY DEF TypeInv, SessionType
<1>7. Day(reviews[e[1]].at) = Day(now)
  <2>1. reviews[e[1]].at \in Nat /\ reviews[e[1]].at <= now /\ Day(reviews[e[1]].at) \in Nat
        /\ Day(now) \in Nat /\ now \in Nat /\ Day(reviews[e[1]].at) <= Day(now)
    BY <1>3, EventParts
  <2>2. Day(session.since) <= Day(reviews[e[1]].at)
    BY <1>3, <1>6, <2>1, DaysAreOrdered
  <2> QED
    BY <2>1, <2>2
<1> QED
  BY <1>3, <1>5, <1>7 DEF Own

\* The page goes on to a card that is no sibling of one studied today.
LEMMA GradedSeat ==
    ASSUME TypeInv, LogInv, PageInv, BurialInv, SeatInv, NEW event, Graded(event), PageType'
    PROVE  SeatInv'
<1> SUFFICES ASSUME BurySiblings, Recognized, ~Overnight, session'.kind = "planned"
             PROVE  /\ page'.index <= Len(session'.queue) =>
                          \A d : d = Day(now') =>
                          \A i \in Own(d)' : session'.queue[page'.index] \notin Mates(reviews'[i].card)
                    /\ session'.queue # <<>> =>
                          \A d : d = Day(session'.since) =>
                          \A i \in Own(d)' : session'.queue[1] \notin Mates(reviews'[i].card)
  BY SeatNext
<1>1. PICK n \in Nat : n = Len(reviews)
  BY DEF TypeInv
<1>2. /\ event.card = session.queue[page.index] /\ event.planned /\ Present(event.card)
      /\ page.open /\ page.index \in 1 .. Len(session.queue) /\ session' = session /\ now' = now
      /\ event.card \in Cards /\ event.at = now
      /\ page'.index \in Upcoming(event.card) \cup {Len(session.queue) + 1}
  BY DEF Graded, Reviewed, Events
<1>3. /\ \A d : Own(d)' = Own(d) \cup (IF Day(now) = d THEN {n + 1} ELSE {})
      /\ \A d : \A i \in Own(d) : reviews'[i] = reviews[i]
      /\ reviews'[n + 1] = event
  BY <1>1, <1>2, GradedOwn
<1>4. session.queue \in Seq(Cards)
  BY DEF TypeInv, SessionType
<1>5. ASSUME page'.index <= Len(session'.queue), NEW d, d = Day(now'), NEW i \in Own(d)'
      PROVE  session'.queue[page'.index] \notin Mates(reviews'[i].card)
  <2>1. page'.index \in Upcoming(event.card)
    <3>1. page'.index # Len(session.queue) + 1
      <4>1. Len(session.queue) \in Nat
        BY <1>4
      <4> QED
        BY <1>2, <1>5, <4>1
    <3> QED
      BY <1>2, <3>1
  <2>2. PICK s : s = session.queue[page'.index]
    OBVIOUS
  <2>3. Active(s, now) /\ s \notin Siblings(event.card)
    BY <2>1, <2>2 DEF Upcoming
  <2>4. s \notin Mates(event.card)
    BY <1>2, <2>3, MatesArePresent
  <2>5. ASSUME i \in Own(d), s \in Mates(reviews[i].card) PROVE FALSE
    <3>1. cards[s].buriedUntil >= NextDay(now) /\ s \in Cards
      BY <1>2, <1>5, <2>5 DEF BurialInv, Mates
    <3>2. cards[s].buriedUntil \in Nat
      BY <3>1, CardParts
    <3>4. now \in Nat /\ now < NextDay(now) /\ NextDay(now) \in Nat
      <4>1. now \in Nat
        BY DEF TypeInv
      <4> QED
        BY <4>1, NextDayIsLater
    <3>3. ~(cards[s].buriedUntil > now)
      BY <2>3 DEF Active, Buried
    <3> QED
      BY <3>1, <3>2, <3>3, <3>4
  <2>6. session'.queue[page'.index] = s
    BY <1>2, <2>2
  <2>7. CASE i \in Own(d)
    BY <1>3, <2>5, <2>6, <2>7
  <2>8. CASE i \notin Own(d)
    <3>1. i = n + 1
      BY <1>3, <1>5, <2>8
    <3> QED
      BY <1>3, <2>4, <2>6, <3>1
  <2> QED
    BY <2>7, <2>8
<1>6. ASSUME session'.queue # <<>>, NEW d, d = Day(session'.since), NEW i \in Own(d)'
      PROVE  session'.queue[1] \notin Mates(reviews'[i].card)
  <2>1. CASE i \in Own(d)
    <3>1. session.queue[1] \notin Mates(reviews[i].card)
      BY <1>2, <1>6, <2>1 DEF SeatInv
    <3> QED
      BY <1>2, <1>3, <2>1, <3>1
  <2>2. CASE i \notin Own(d)
    <3>1. i = n + 1 /\ Day(session.since) = Day(now) /\ reviews'[i] = event
      BY <1>2, <1>3, <1>6, <2>2
    <3>2. CASE page.answered = <<>>
      <4>1. page.index = 1
        BY <3>2 DEF TypeInv, PageType
      <4> QED
        BY <1>2, <3>1, <4>1 DEF Mates
    <3>3. CASE page.answered # <<>>
      <4>1. PICK j \in Own(Day(now)) : reviews[j].card = session.queue[1]
        BY <1>2, <3>1, <3>3, FirstAnswer
      <4>2. event.card \notin Mates(session.queue[1])
        BY <1>2, <4>1 DEF SeatInv
      <4>3. 1 \in 1 .. Len(session.queue)
        BY <1>2, <1>4
      <4>4. session.queue[1] \in Cards
        BY <1>4, <4>3
      <4>5. session.queue[1] \notin Mates(event.card)
        BY <1>2, <4>2, <4>4 DEF Mates
      <4> QED
        BY <1>2, <3>1, <4>5
    <3> QED
      BY <3>2, <3>3
  <2> QED
    BY <2>1, <2>2
<1> QED
  BY <1>5, <1>6

\* The card that is graded has no sibling among those studied today.
LEMMA GradedApart ==
    ASSUME TypeInv, LogInv, SeatInv, ApartInv, NEW event, Graded(event)
    PROVE  ApartInv'
<1> SUFFICES ASSUME BurySiblings, Recognized, ~Overnight, NEW d, NEW i \in Own(d)', NEW j \in Own(d)',
                    NoteOf[reviews'[i].card] = NoteOf[reviews'[j].card]
             PROVE  reviews'[i].card = reviews'[j].card
  BY ApartNext
<1>1. PICK n \in Nat : n = Len(reviews)
  BY DEF TypeInv
<1>2. /\ event.card = session.queue[page.index] /\ event.planned = (session.kind = "planned")
      /\ page.open /\ page.index \in 1 .. Len(session.queue) /\ event.card \in Cards
  BY DEF Graded, Reviewed, Events
<1>3. /\ \A D : Own(D)' = Own(D) \cup (IF event.planned /\ Day(now) = D THEN {n + 1} ELSE {})
      /\ \A D : \A k \in Own(D) : reviews'[k] = reviews[k]
      /\ reviews'[n + 1] = event
  BY <1>1, GradedOwn
<1>4. ASSUME NEW k \in Own(d), Day(now) = d, event.planned, NoteOf[reviews[k].card] = NoteOf[event.card]
      PROVE  reviews[k].card = event.card
  <2>1. page.index <= Len(session.queue)
    BY <1>2
  <2>2. event.card \notin Mates(reviews[k].card)
    BY <1>2, <1>4, <2>1 DEF SeatInv
  <2> QED
    BY <1>2, <1>4, <2>2 DEF Mates
<1>5. CASE i \in Own(d) /\ j \in Own(d)
  <2>1. d \in 0 .. Day(now)
    BY <1>5, OwnParts
  <2>2. reviews'[i] = reviews[i] /\ reviews'[j] = reviews[j]
    BY <1>3, <1>5
  <2> QED
    BY <1>5, <2>1, <2>2 DEF ApartInv, SiblingsApart
<1>6. CASE i \notin Own(d) \/ j \notin Own(d)
  <2>1. event.planned /\ Day(now) = d
    BY <1>3, <1>6
  <2>2. \A k \in Own(d)' : k \in Own(d) \/ k = n + 1
    BY <1>3
  <2> QED
    BY <1>3, <1>4, <1>6, <2>1, <2>2
<1> QED
  BY <1>5, <1>6

\* No history becomes empty in a review.
LEMMA HistoriesGrow ==
    ASSUME TypeInv, NEW event, Reviewed(event)
    PROVE  /\ \A c \in Cards : cards[c].history # <<>> => cards'[c].history # <<>>
           /\ event.kind = "review" => cards'[event.card].history # <<>>
<1>1. event.card \in Cards
  BY DEF Reviewed, Events
<1>2. PICK h \in Histories : h = cards[event.card].history
  BY <1>1, CardParts
<1>3. PICK x \in [rating : Ratings, at : Nat] : x = [rating |-> event.rating, at |-> event.at]
  BY DEF Reviewed, Events
<1>4. Append(h, x) # <<>>
  BY DEF Histories
<1>5. event.kind = "review" => cards'[event.card].history # <<>>
  BY <1>2, <1>3, <1>4 DEF Reviewed
<1>6. event.kind # "review" => cards'[event.card].history = cards[event.card].history
  BY DEF Reviewed
<1>7. \A c \in Cards \ {event.card} : cards'[c].history = cards[c].history
  BY DEF Reviewed
<1> QED
  BY <1>5, <1>6, <1>7

\* A new card of the library that is graded is introduced.
LEMMA GradedIntroduced ==
    ASSUME TypeInv, LogInv, NEW event, Graded(event), NEW n \in Nat, n = Len(reviews)
    PROVE  \A d : Introduced(d)' = Introduced(d) \cup
              (IF event.planned /\ Day(now) = d /\ cards[event.card].history = <<>>
                  /\ place[NoteOf[event.card]] = "library"
               THEN {n + 1} ELSE {})
<1> SUFFICES ASSUME NEW d
             PROVE  Introduced(d)' = Introduced(d) \cup
              (IF event.planned /\ Day(now) = d /\ cards[event.card].history = <<>>
                  /\ place[NoteOf[event.card]] = "library"
               THEN {n + 1} ELSE {})
  OBVIOUS
<1>1. /\ reviews'[n + 1] = event
      /\ Own(d)' = Own(d) \cup (IF event.planned /\ Day(now) = d THEN {n + 1} ELSE {})
      /\ \A i \in Own(d) : i \in 1 .. n /\ reviews'[i] = reviews[i]
  BY GradedOwn
<1>2. place' = place /\ event.prev = cards[event.card]
  BY DEF Graded, Reviewed
<1>3. n + 1 \notin Own(d)
  <2>1. n + 1 \notin 1 .. n
    OBVIOUS
  <2> QED
    BY <1>1, <2>1
<1>4. Introduced(d)' = {i \in Own(d)' : reviews'[i].prev.history = <<>>
                                      /\ place'[NoteOf[reviews'[i].card]] = "library"}
  BY DEF Introduced
<1>5. \A i \in Own(d) : i \in Introduced(d)' <=> i \in Introduced(d)
  BY <1>1, <1>2, <1>4 DEF Introduced
<1>6. n + 1 \in Introduced(d)' <=> event.planned /\ Day(now) = d /\ cards[event.card].history = <<>>
                                    /\ place[NoteOf[event.card]] = "library"
  BY <1>1, <1>2, <1>3, <1>4
<1>7. Introduced(d) \subseteq Own(d) /\ Introduced(d)' \subseteq Own(d)'
  BY <1>4 DEF Introduced
<1> QED
  BY <1>1, <1>5, <1>6, <1>7

\* A card that has no history has not been introduced.
LEMMA NotIntroduced ==
    ASSUME TypeInv, LogInv, HistoryInv, ~Entangled, NEW c \in Cards, cards[c].history = <<>>, NEW d,
           NEW i \in Own(d)
    PROVE  reviews[i].card # c
<1> SUFFICES ASSUME reviews[i].card = c PROVE FALSE
  OBVIOUS
<1>1. PICK n \in Nat : n = Len(reviews) /\ n \in 0 .. Len(reviews) /\ reviews \in Seq(Events)
  BY DEF TypeInv
<1>2. Told(c, n) = <<>>
  BY <1>1 DEF HistoryInv, ScheduleIsHistory
<1>3. Recited(reviews, Reversed, c, n) = <<>>
  BY <1>2, ToldIsRecited
<1>4. i \in 1 .. n /\ Surviving(i)
  BY <1>1, OwnParts
<1>5. ~Counts(reviews, Reversed, c, i)
  BY <1>1, <1>3, <1>4, NothingRecited
<1> QED
  BY <1>4, <1>5 DEF Counts, Surviving

\* Cards that are introduced once can be counted by their reviews.
LEMMA FewIntroduced ==
    ASSUME NEW I, NEW B, NEW new \in SUBSET Cards, NEW f, IsFiniteSet(B), B \in SUBSET I,
           \A i \in I : i \notin B => f[i] \in new,
           \A i, j \in I : f[i] = f[j] => i = j
    PROVE  IsFiniteSet(I) /\ Cardinality(I) <= Cardinality(B) + Cardinality(new)
<1> DEFINE R == I \ B
           g == [i \in R |-> f[i]]
<1>1. g \in Injection(R, new)
  <2>1. g \in [R -> new]
    OBVIOUS
  <2>2. \A i, j \in R : g[i] = g[j] => i = j
    OBVIOUS
  <2> QED
    BY <2>1, <2>2 DEF Injection, IsInjective
<1>2. IsFiniteSet(new)
  BY CardAssumption, FS_Subset
<1>3. IsFiniteSet(R) /\ Cardinality(R) <= Cardinality(new)
  BY <1>1, <1>2, FS_Injection
<1>4. IsFiniteSet(B \cup R) /\ Cardinality(B \cup R) = Cardinality(B) + Cardinality(R) - Cardinality(B \cap R)
  <2> HIDE DEF R
  <2> QED
    BY <1>3, FS_Union
<1>5. B \cup R = I /\ B \cap R = {}
  OBVIOUS
<1>6. Cardinality({}) = 0
  BY FS_EmptySet
<1>7. Cardinality(B) \in Nat /\ Cardinality(R) \in Nat /\ Cardinality(new) \in Nat
  <2> HIDE DEF R
  <2> QED
    BY <1>2, <1>3, FS_CardinalityType
<1> HIDE DEF R
<1>8. IsFiniteSet(I) /\ Cardinality(I) = Cardinality(B) + Cardinality(R) - 0
  BY <1>4, <1>5, <1>6
<1> QED
  BY <1>3, <1>7, <1>8

\* A grade keeps the limit.
LEMMA GradedLimit ==
    ASSUME TypeInv, LogInv, HistoryInv, LimitInv, NEW event, Graded(event), PageType', SessionType'
    PROVE  LimitInv'
<1> SUFFICES ASSUME Recognized, ~Entangled
             PROVE  /\ \A d : \A i, j \in Introduced(d)' : reviews'[i].card = reviews'[j].card => i = j
                    /\ \A m : m = Day(now') => \A d \in 0 .. m : Cardinality(Introduced(d)') <= NewLimit
                    /\ session'.kind = "planned" => \E new \in SUBSET Cards : NewOnes(new)'
  BY LimitNext
<1>1. PICK n \in Nat : n = Len(reviews)
  BY DEF TypeInv
<1>2. PICK c \in Cards : c = event.card /\ c = session.queue[page.index]
  BY DEF Graded, Reviewed, Events
<1>3. /\ session' = session /\ now' = now /\ event.planned = (session.kind = "planned")
      /\ page.index \in 1 .. Len(session.queue) /\ event.prev = cards[c] /\ place' = place
  BY <1>2 DEF Graded, Reviewed
<1>4. /\ \A i \in 1 .. n : reviews'[i] = reviews[i]
      /\ reviews'[n + 1] = event
      /\ \A d : \A i \in Own(d) : i \in 1 .. n /\ reviews'[i] = reviews[i]
  BY <1>1, GradedOwn
<1>5. PICK grows \in BOOLEAN : grows <=> event.planned /\ cards[c].history = <<>> /\ place[NoteOf[c]] = "library"
  OBVIOUS
<1>6. \A d : Introduced(d)' = Introduced(d) \cup (IF grows /\ Day(now) = d THEN {n + 1} ELSE {})
  <2>1. \A d : Introduced(d)' = Introduced(d) \cup
              (IF event.planned /\ Day(now) = d /\ cards[event.card].history = <<>>
                  /\ place[NoteOf[event.card]] = "library"
               THEN {n + 1} ELSE {})
    BY <1>1, GradedIntroduced
  <2> QED
    BY <1>2, <1>5, <2>1
<1>7. \A d : \A i \in Introduced(d) : i \in Own(d) /\ i \in 1 .. n /\ reviews'[i] = reviews[i]
  BY <1>4 DEF Introduced
<1>8. \A d : d \in 0 .. Day(now) => d \in Nat /\ Cardinality(Introduced(d)) <= NewLimit
  BY DEF LimitInv, NewLimitHonoured, Introduced
<1>9. \A d : Introduced(d) # {} => d \in Nat
  <2>1. \A d : Own(d) # {} => d \in Nat
    <3> SUFFICES ASSUME NEW d, NEW i \in Own(d) PROVE d \in Nat
      OBVIOUS
    <3>1. d \in 0 .. Day(now)
      BY OwnParts
    <3> QED
      BY <3>1
  <2> QED
    BY <2>1 DEF Introduced
<1>10. ASSUME NEW d, NEW i \in Introduced(d)', NEW j \in Introduced(d)', reviews'[i].card = reviews'[j].card
       PROVE  i = j
  <2>1. ASSUME grows, NEW k \in Introduced(d), reviews'[k].card = c PROVE FALSE
    <3>1. k \in Own(d) /\ reviews[k].card = c /\ cards[c].history = <<>>
      BY <1>5, <1>7, <2>1
    <3> QED
      BY <3>1, NotIntroduced
  <2>2. CASE i \in Introduced(d) /\ j \in Introduced(d)
    <3>1. d \in Nat /\ reviews[i].card = reviews[j].card
      BY <1>7, <1>9, <1>10, <2>2
    <3> QED
      BY <2>2, <3>1 DEF LimitInv, IntroducedOnce
  <2>3. CASE i \notin Introduced(d) \/ j \notin Introduced(d)
    <3>1. grows /\ \A k \in Introduced(d)' : k \in Introduced(d) \/ k = n + 1
      BY <1>6, <2>3
    <3> QED
      BY <1>2, <1>4, <1>10, <2>1, <2>3, <3>1
  <2> QED
    BY <2>2, <2>3
<1>11. ASSUME session.kind = "planned"
       PROVE  \E new \in SUBSET Cards : \E before \in SUBSET Introduced(Day(now)) :
                 /\ NewOnes(new) /\ (grows => c \in new)
                 /\ Cardinality(before) + Cardinality(new) <= NewLimit
                 /\ \A i \in Introduced(Day(now)) : i \notin before => reviews'[i].card \in new
  <2>1. PICK new \in SUBSET Cards : NewOnes(new)
    BY <1>11 DEF LimitInv
  <2>2. PICK before \in SUBSET Introduced(Day(now)) :
            /\ Cardinality(before) + Cardinality(new) <= NewLimit
            /\ \A i \in Introduced(Day(now)) \ before : reviews[i].card \in new
    BY <2>1 DEF NewOnes, Room
  <2>3. grows => c \in new
    BY <1>2, <1>3, <1>5, <2>1 DEF NewOnes
  <2>4. \A i \in Introduced(Day(now)) : i \notin before => reviews'[i].card \in new
    BY <1>7, <2>2
  <2> QED
    BY <2>1, <2>2, <2>3, <2>4
<1>12. ASSUME NEW m, m = Day(now'), NEW d \in 0 .. m PROVE Cardinality(Introduced(d)') <= NewLimit
  <2>1. m = Day(now) /\ Cardinality(Introduced(d)) <= NewLimit
    BY <1>3, <1>8, <1>12
  <2>2. CASE ~grows \/ Day(now) # d
    <3>1. Introduced(d)' = Introduced(d)
      BY <1>6, <2>2
    <3> QED
      BY <2>1, <3>1
  <2>3. CASE grows /\ Day(now) = d
    <3>1. PICK new, before :
              /\ new \in SUBSET Cards /\ before \in SUBSET Introduced(d) /\ c \in new
              /\ Cardinality(before) + Cardinality(new) <= NewLimit
              /\ \A i \in Introduced(d) : i \notin before => reviews'[i].card \in new
      BY <1>3, <1>5, <1>11, <2>3
    <3>2. PICK I : I = Introduced(d)'
      OBVIOUS
    <3>3. PICK f : f = [i \in I |-> reviews'[i].card]
      OBVIOUS
    <3>4. before \in SUBSET I /\ \A i \in I : i \notin before => f[i] \in new
      BY <1>2, <1>4, <1>6, <2>3, <3>1, <3>2, <3>3
    <3>5. \A i, j \in I : f[i] = f[j] => i = j
      BY <1>10, <3>2, <3>3
    <3>6. IsFiniteSet(before) /\ Cardinality(before) \in Nat
      BY <3>1, IntroducedIsFinite
    <3>7. IsFiniteSet(I) /\ Cardinality(I) <= Cardinality(before) + Cardinality(new)
      BY <3>1, <3>4, <3>5, <3>6, FewIntroduced
    <3>8. Cardinality(I) \in Nat /\ Cardinality(new) \in Nat /\ NewLimit \in Nat
      <4>1. IsFiniteSet(new)
        BY <3>1, CardAssumption, FS_Subset
      <4> QED
        BY <3>7, <4>1, FS_CardinalityType, LimitAssumption
    <3> QED
      BY <3>1, <3>2, <3>6, <3>7, <3>8
  <2> QED
    BY <2>2, <2>3
<1>13. ASSUME session'.kind = "planned" PROVE \E new \in SUBSET Cards : NewOnes(new)'
  <2>1. PICK new, before :
              /\ new \in SUBSET Cards /\ before \in SUBSET Introduced(Day(now)) /\ NewOnes(new) /\ (grows => c \in new)
              /\ Cardinality(before) + Cardinality(new) <= NewLimit
              /\ \A i \in Introduced(Day(now)) : i \notin before => reviews'[i].card \in new
    BY <1>3, <1>11, <1>13
  <2>2. Room(new)'
    <3>1. PICK d : d = Day(now) /\ d = Day(now')
      BY <1>3
    <3>2. before \in SUBSET Introduced(d)'
      BY <1>6, <2>1, <3>1
    <3>3. \A i \in Introduced(d)' : i \notin before => reviews'[i].card \in new
      BY <1>2, <1>4, <1>6, <2>1, <3>1
    <3> QED
      BY <2>1, <3>1, <3>2, <3>3, RoomNext
  <2>3. Reviewed(event)
    BY DEF Graded
  <2>4. ASSUME NEW k \in 1 .. Len(session'.queue), session'.queue[k] \notin new
        PROVE  cards'[session'.queue[k]].history # <<>>
    <3>1. session.queue[k] \in Cards /\ cards[session.queue[k]].history # <<>>
      BY <1>3, <2>1, <2>4 DEF NewOnes, TypeInv, SessionType
    <3> QED
      BY <1>3, <2>3, <3>1, HistoriesGrow
  <2>5. \E a \in Answers' : \A k \in 1 .. Len(page'.answered) :
            reviews'[a[k]].prev.history = <<>> => reviews'[a[k]].card \in new
    <3>1. PICK e \in Answers : \A k \in 1 .. Len(page.answered) :
              reviews[e[k]].prev.history = <<>> => reviews[e[k]].card \in new
      BY <2>1 DEF NewOnes
    <3>2. PICK a \in Answers' : \A k \in 1 .. Len(page'.answered) :
              \/ k \in 1 .. Len(page.answered) /\ a[k] = e[k]
              \/ a[k] = n + 1
      BY <1>1, GradedAnswers
    <3>3. ASSUME NEW k \in 1 .. Len(page'.answered), reviews'[a[k]].prev.history = <<>>
          PROVE  reviews'[a[k]].card \in new
      <4>1. CASE k \in 1 .. Len(page.answered) /\ a[k] = e[k]
        <5>1. e[k] \in 1 .. n
          BY <1>1, <4>1 DEF Answers
        <5> QED
          BY <1>4, <3>1, <3>3, <4>1, <5>1
      <4>2. CASE a[k] = n + 1
        <5>1. cards[c].history = <<>> /\ reviews'[a[k]].card = c
          BY <1>2, <1>3, <1>4, <3>3, <4>2
        <5>2. c \in new
          BY <1>2, <1>3, <2>1, <5>1 DEF NewOnes
        <5> QED
          BY <5>1, <5>2
      <4> QED
        BY <3>2, <4>1, <4>2
    <3> QED
      BY <3>2, <3>3
  <2>6. NewOnes(new)'
    BY <2>2, <2>4, <2>5 DEF NewOnes
  <2> QED
    BY <2>1, <2>6
<1> QED
  BY <1>10, <1>12, <1>13

\* A card is graded.
LEMMA GradeOrder == ASSUME StudyOrder, Grade PROVE StudyOrder'
<1>1. TypeInv /\ LogInv /\ BurialTimes /\ HistoryInv /\ PageInv /\ BurialInv /\ SeatInv /\ ApartInv /\ LimitInv
  BY DEF StudyOrder
<1>2. SessionType' /\ PageType'
  BY <1>1, GradeGrades
<1>3. PICK event : Graded(event)
  BY <1>1, GradeGrades
<1>4. Reviewed(event)
  BY <1>3 DEF Graded
<1>5. TypeInv'
  BY <1>1, <1>2, <1>4, ReviewedType
<1>6. LogInv' /\ BurialTimes' /\ HistoryInv'
  BY <1>1, <1>4, ReviewedLog
<1>7. PageInv'
  <2>1. PICK n \in Nat : n = Len(reviews)
    BY <1>1 DEF TypeInv
  <2>2. ASSUME NEW e \in Answers PROVE Answers' # {}
    BY <1>1, <1>3, <2>1, GradedAnswers
  <2> QED
    BY <1>1, <2>2 DEF PageInv
<1>8. BurialInv'
  BY <1>1, <1>4, ReviewedBurial
<1>9. SeatInv' /\ ApartInv'
  BY <1>1, <1>2, <1>3, GradedSeat, GradedApart
<1>10. LimitInv'
  BY <1>1, <1>2, <1>3, GradedLimit
<1> QED
  BY <1>5, <1>6, <1>7, <1>8, <1>9, <1>10 DEF StudyOrder
-----------------------------------------------------------------------------
(* Reviews made elsewhere *)

\* Where no review of a plan is added the cards of a note stay apart.
LEMMA FewerApart ==
    ASSUME TypeInv, LogInv, ApartInv,
           \A d : \A i \in Own(d)' : i \in Own(d) /\ reviews'[i].card = reviews[i].card
    PROVE  ApartInv'
<1> SUFFICES ASSUME BurySiblings, Recognized, ~Overnight, NEW d, NEW i \in Own(d)', NEW j \in Own(d)',
                    NoteOf[reviews'[i].card] = NoteOf[reviews'[j].card]
             PROVE  reviews'[i].card = reviews'[j].card
  BY ApartNext
<1>1. /\ i \in Own(d) /\ reviews'[i].card = reviews[i].card
      /\ j \in Own(d) /\ reviews'[j].card = reviews[j].card
  OBVIOUS
<1>2. d \in 0 .. Day(now)
  BY <1>1, OwnParts
<1> QED
  BY <1>1, <1>2 DEF ApartInv, SiblingsApart

\* Where no new card is introduced the limit stays kept.
LEMMA FewerLimit ==
    ASSUME TypeInv, LogInv, LimitInv, Recognized, ~Entangled, now' = now,
           \A d : \A i \in Introduced(d)' : i \in Introduced(d) /\ reviews'[i].card = reviews[i].card
    PROVE  /\ \A d : \A i, j \in Introduced(d)' : reviews'[i].card = reviews'[j].card => i = j
           /\ \A m : m = Day(now') => \A d \in 0 .. m : Cardinality(Introduced(d)') <= NewLimit
           /\ \A new \in SUBSET Cards : Room(new) => Room(new)'
<1>1. \A d : Introduced(d)' \in SUBSET Introduced(d)
  OBVIOUS
<1>2. ASSUME NEW d, NEW i \in Introduced(d)', NEW j \in Introduced(d)', reviews'[i].card = reviews'[j].card
      PROVE  i = j
  <2>1. i \in Introduced(d) /\ j \in Introduced(d) /\ reviews[i].card = reviews[j].card
    BY <1>2
  <2>2. d \in 0 .. Day(now)
    BY <2>1, OwnParts DEF Introduced
  <2>3. d \in Nat
    BY <2>2
  <2> QED
    BY <2>1, <2>3 DEF LimitInv, IntroducedOnce
<1>3. ASSUME NEW d \in 0 .. Day(now) PROVE Cardinality(Introduced(d)') <= NewLimit
  <2>1. Cardinality(Introduced(d)) <= NewLimit
    BY DEF LimitInv, NewLimitHonoured, Introduced
  <2>2. IsFiniteSet(Introduced(d)) /\ Cardinality(Introduced(d)) \in Nat
    BY IntroducedIsFinite
  <2>3. Cardinality(Introduced(d)') <= Cardinality(Introduced(d)) /\ Cardinality(Introduced(d)') \in Nat
    BY <1>1, <2>2, FS_Subset, FS_CardinalityType
  <2>4. NewLimit \in Nat
    BY LimitAssumption
  <2> QED
    BY <2>1, <2>2, <2>3, <2>4
<1>4. ASSUME NEW new \in SUBSET Cards, Room(new) PROVE Room(new)'
  <2>1. PICK before \in SUBSET Introduced(Day(now)) :
            /\ Cardinality(before) + Cardinality(new) <= NewLimit
            /\ \A i \in Introduced(Day(now)) \ before : reviews[i].card \in new
    BY <1>4 DEF Room
  <2>2. PICK d : d = Day(now) /\ d = Day(now')
    OBVIOUS
  <2>3. PICK B : B = before \cap Introduced(d)'
    OBVIOUS
  <2>4. Cardinality(B) + Cardinality(new) <= NewLimit
    <3>1. IsFiniteSet(before) /\ B \in SUBSET before /\ Cardinality(before) \in Nat
      BY <2>3, IntroducedIsFinite
    <3>2. Cardinality(B) <= Cardinality(before) /\ IsFiniteSet(B)
      BY <3>1, FS_Subset
    <3>3. Cardinality(B) \in Nat /\ Cardinality(new) \in Nat
      <4>1. IsFiniteSet(new)
        BY CardAssumption, FS_Subset
      <4> QED
        BY <3>2, <4>1, FS_CardinalityType
    <3>4. NewLimit \in Nat
      BY LimitAssumption
    <3> QED
      BY <2>1, <3>1, <3>2, <3>3, <3>4
  <2>5. \A i \in Introduced(d)' : i \notin B => reviews'[i].card \in new
    BY <2>1, <2>2, <2>3
  <2>6. B \in SUBSET Introduced(d)'
    BY <2>3
  <2> QED
    BY <2>2, <2>4, <2>5, <2>6, RoomNext
<1> QED
  BY <1>2, <1>3, <1>4

\* A review made elsewhere arrives.
LEMMA ReceiveOrder == ASSUME StudyOrder, ReceiveReview PROVE StudyOrder'
<1>1. TypeInv /\ LogInv /\ BurialTimes /\ HistoryInv /\ PageInv /\ BurialInv /\ SeatInv /\ ApartInv /\ LimitInv
  BY DEF StudyOrder
<1>2. PICK event : Reviewed(event) /\ ~event.planned /\ event.device # "own"
  BY <1>1, ReceiveReviews
<1>3. /\ session' = session /\ page' = page /\ now' = now /\ place' = place
      /\ event \in Events /\ event.reverses = 0 /\ event.kind \in {"review", "preview"}
      /\ reviews' = Append(reviews, event)
  BY <1>1, <1>2, ReceiveReviews DEF Reviewed
<1>4. PICK n \in Nat : n = Len(reviews)
  BY <1>1 DEF TypeInv
<1>5. /\ Len(reviews') = n + 1
      /\ \A i \in 1 .. n : reviews'[i] = reviews[i]
  <2>1. event.reverses \in 0 .. Len(reviews)
    BY <1>3, <1>4
  <2> QED
    BY <1>1, <1>3, <1>4, <2>1, LogGrows
<1>6. /\ Undoable' = Undoable \cup (IF event.device = "other" THEN {} ELSE {n + 1})
      /\ \A d : Own(d)' = Own(d) \cup
            (IF event.planned /\ event.kind = "review" /\ Day(event.at) = d THEN {n + 1} ELSE {})
  BY <1>1, <1>3, <1>4, ReviewGrows
<1>7. \A d : Own(d)' = Own(d)
  BY <1>2, <1>6
<1>8. \A d : \A i \in Own(d) : i \in 1 .. n /\ reviews'[i] = reviews[i]
  <2>1. \A d : \A i \in Own(d) : i \in 1 .. n
    BY <1>1, <1>4, OwnParts
  <2> QED
    BY <1>5, <2>1
<1>9. TypeInv'
  <2>1. SessionType' /\ PageType'
    BY <1>1, <1>3 DEF TypeInv, SessionType, PageType
  <2> QED
    BY <1>1, <1>2, <2>1, ReviewedType
<1>10. LogInv' /\ BurialTimes' /\ HistoryInv' /\ BurialInv'
  BY <1>1, <1>2, ReviewedLog, ReviewedBurial
<1>11. ApartInv'
  BY <1>1, <1>7, <1>8, FewerApart
<1>12. SeatInv'
  <2>1. ASSUME BurySiblings, Recognized, ~Overnight, session.kind = "planned",
               page.open, page.index <= Len(session.queue), NEW i \in Own(Day(now))
        PROVE  session.queue[page.index] \notin Mates(reviews'[i].card)
    BY <1>1, <1>8, <2>1 DEF SeatInv
  <2>2. ASSUME BurySiblings, Recognized, ~Overnight, session.kind = "planned",
               session.queue # <<>>, NEW i \in Own(Day(session.since))
        PROVE  session.queue[1] \notin Mates(reviews'[i].card)
    BY <1>1, <1>8, <2>2 DEF SeatInv
  <2> QED
    BY <1>3, <1>7, <2>1, <2>2, SeatNext
<1>13. Recognized => Answers \subseteq Answers'
  <2> SUFFICES ASSUME Recognized, NEW e \in Answers PROVE e \in Answers'
    OBVIOUS
  <2>1. Undoable' = Undoable
    <3>1. event.device = "other"
      BY <1>2, <1>3 DEF Reviewed, Events
    <3> QED
      BY <1>6, <3>1
  <2>2. e \in [1 .. Len(page.answered) -> 1 .. n]
    BY <1>4 DEF Answers
  <2>3. \A k \in 1 .. n : k \in 1 .. n + 1
    OBVIOUS
  <2>4. e \in [1 .. Len(page.answered) -> 1 .. n + 1]
    BY <2>2, <2>3
  <2>5. \A k \in 1 .. Len(page.answered) : reviews'[e[k]] = reviews[e[k]]
    BY <1>5, <2>2
  <2>6. ASSUME NEW k \in 1 .. Len(page.answered)
        PROVE  /\ e[k] \in Undoable
               /\ reviews'[e[k]].card = session.queue[page.answered[k]]
               /\ place[NoteOf[reviews'[e[k]].card]] \in {"library", "restored"}
               /\ reviews'[e[k]].at >= session.since
               /\ reviews'[e[k]].planned = (session.kind = "planned")
               /\ \A i \in Undoable : i > e[k] => \E l \in 1 .. Len(page.answered) : i = e[l]
    BY <2>5 DEF Answers, Present
  <2>7. \A k, l \in 1 .. Len(page.answered) : k < l => e[k] < e[l]
    BY DEF Answers
  <2>8. /\ e \in [1 .. Len(page'.answered) -> 1 .. Len(reviews')]
        /\ \A k, l \in 1 .. Len(page'.answered) : k < l => e[k] < e[l]
    BY <1>3, <1>5, <2>4, <2>7
  <2>9. ASSUME NEW k \in 1 .. Len(page'.answered)
        PROVE  /\ e[k] \in Undoable'
               /\ reviews'[e[k]].card = session'.queue[page'.answered[k]]
               /\ place'[NoteOf[reviews'[e[k]].card]] \in {"library", "restored"}
               /\ reviews'[e[k]].at >= session'.since
               /\ reviews'[e[k]].planned = (session'.kind = "planned")
               /\ \A i \in Undoable' : i > e[k] => \E l \in 1 .. Len(page'.answered) : i = e[l]
    BY <1>3, <2>1, <2>6
  <2> QED
    BY <2>8, <2>9 DEF Answers, Present
<1>14. PageInv'
  BY <1>1, <1>13 DEF PageInv
<1>15. \A d : \A i \in Introduced(d)' : i \in Introduced(d) /\ reviews'[i].card = reviews[i].card
  <2> SUFFICES ASSUME NEW d, NEW i \in Introduced(d)'
               PROVE  i \in Introduced(d) /\ reviews'[i].card = reviews[i].card
    OBVIOUS
  <2>1. i \in Own(d)' /\ reviews'[i].prev.history = <<>> /\ place'[NoteOf[reviews'[i].card]] = "library"
    BY DEF Introduced
  <2> QED
    BY <1>3, <1>7, <1>8, <2>1 DEF Introduced
<1>16. LimitInv'
  <2>1. ASSUME Recognized, ~Entangled, session'.kind = "planned" PROVE \E new \in SUBSET Cards : NewOnes(new)'
    <3>1. PICK new \in SUBSET Cards : NewOnes(new)
      BY <1>1, <1>3, <2>1 DEF LimitInv
    <3>2. Room(new)'
      BY <1>1, <1>3, <1>15, <2>1, <3>1, FewerLimit DEF NewOnes
    <3>3. ASSUME NEW k \in 1 .. Len(session'.queue), session'.queue[k] \notin new
          PROVE  cards'[session'.queue[k]].history # <<>>
      <4>1. session.queue[k] \in Cards /\ cards[session.queue[k]].history # <<>>
        BY <1>1, <1>3, <3>1, <3>3 DEF NewOnes, TypeInv, SessionType
      <4> QED
        BY <1>1, <1>2, <1>3, <4>1, HistoriesGrow
    <3>4. \E e \in Answers' : \A k \in 1 .. Len(page'.answered) :
              reviews'[e[k]].prev.history = <<>> => reviews'[e[k]].card \in new
      <4>1. PICK e \in Answers : \A k \in 1 .. Len(page.answered) :
                reviews[e[k]].prev.history = <<>> => reviews[e[k]].card \in new
        BY <3>1 DEF NewOnes
      <4>2. \A k \in 1 .. Len(page.answered) : reviews'[e[k]] = reviews[e[k]]
        BY <1>4, <1>5 DEF Answers
      <4> QED
        BY <1>3, <1>13, <2>1, <4>1, <4>2
    <3>5. NewOnes(new)'
      BY <3>2, <3>3, <3>4 DEF NewOnes
    <3> QED
      BY <3>1, <3>5
  <2>2. ASSUME Recognized, ~Entangled
        PROVE  /\ \A d : \A i, j \in Introduced(d)' : reviews'[i].card = reviews'[j].card => i = j
               /\ \A m : m = Day(now') => \A d \in 0 .. m : Cardinality(Introduced(d)') <= NewLimit
    BY <1>1, <1>3, <1>15, <2>2, FewerLimit
  <2> QED
    BY <2>1, <2>2, LimitNext
<1> QED
  BY <1>9, <1>10, <1>11, <1>12, <1>14, <1>16 DEF StudyOrder
-----------------------------------------------------------------------------
(* Undos *)

\* The newest review of the device, r, is taken back.
Undone(r, event) ==
    /\ r \in Undoable /\ \A i \in Undoable : i <= r
    /\ Present(reviews[r].card)
    /\ event \in Events /\ event.kind = "reversal" /\ event.reverses = r /\ ~event.planned
    /\ event.at = now /\ event.device = "own" /\ event.card \in Cards /\ event.prev = cards[event.card]
    /\ DOMAIN event.siblings = {}
    /\ reviews' = Append(reviews, event)
    /\ cards' \in [Cards -> CardStates]
    /\ cards'[reviews[r].card] = reviews[r].prev
    /\ \A x \in Cards \ {reviews[r].card} :
          /\ cards'[x].history = cards[x].history
          /\ \/ cards'[x].buriedUntil = cards[x].buriedUntil
             \/ x \in DOMAIN reviews[r].siblings /\ cards'[x].buriedUntil = reviews[r].siblings[x]
    /\ Bounded /\ plannedAt' = now /\ UNCHANGED <<now, changes, place, session>>

\* The restored states of the siblings have their types.
LEMMA UndoneCards ==
    ASSUME TypeInv, LogInv, NEW r \in 1 .. Len(reviews), NEW after,
           after = [x \in Cards |->
                    IF x = reviews[r].card THEN reviews[r].prev
                    ELSE IF x \in DOMAIN reviews[r].siblings /\ Present(x)
                    THEN [cards[x] EXCEPT !.buriedUntil = reviews[r].siblings[x]]
                    ELSE cards[x]]
    PROVE  /\ after \in [Cards -> CardStates]
           /\ after[reviews[r].card] = reviews[r].prev
           /\ \A x \in Cards \ {reviews[r].card} :
                 /\ after[x].history = cards[x].history
                 /\ \/ after[x].buriedUntil = cards[x].buriedUntil
                    \/ x \in DOMAIN reviews[r].siblings /\ after[x].buriedUntil = reviews[r].siblings[x]
<1>1. PICK event \in Events : event = reviews[r]
  BY EventParts
<1>2. event.card \in Cards /\ event.prev \in CardStates /\ event.siblings \in Burials
  BY DEF Events
<1>3. PICK S \in SUBSET Cards : event.siblings \in [S -> Nat]
  BY <1>2 DEF Burials
<1>4. after[event.card] = event.prev
  BY <1>1, <1>2
<1>5. ASSUME NEW x \in Cards \ {event.card}
      PROVE  /\ after[x] \in CardStates /\ after[x].history = cards[x].history
             /\ \/ after[x].buriedUntil = cards[x].buriedUntil
                \/ x \in DOMAIN event.siblings /\ after[x].buriedUntil = event.siblings[x]
  <2>1. PICK k \in CardStates : k = cards[x]
    BY CardParts
  <2>2. CASE x \in DOMAIN event.siblings /\ Present(x)
    <3>1. PICK t \in Nat : t = event.siblings[x]
      BY <1>3, <2>2
    <3>2. after[x] = [k EXCEPT !.buriedUntil = t]
      BY <1>1, <2>1, <2>2, <3>1
    <3>3. [k EXCEPT !.buriedUntil = t] \in CardStates
      BY DEF CardStates
    <3>4. /\ [k EXCEPT !.buriedUntil = t].history = k.history
          /\ [k EXCEPT !.buriedUntil = t].buriedUntil = t
      BY DEF CardStates
    <3> QED
      BY <2>1, <2>2, <3>1, <3>2, <3>3, <3>4
  <2>3. CASE ~(x \in DOMAIN event.siblings /\ Present(x))
    <3>1. after[x] = k
      BY <1>1, <2>1, <2>3
    <3> QED
      BY <2>1, <3>1
  <2> QED
    BY <2>2, <2>3
<1>6. \A x \in Cards : after[x] \in CardStates
  BY <1>2, <1>4, <1>5
<1>7. DOMAIN after = Cards /\ after = [x \in Cards |-> after[x]]
  OBVIOUS
<1>8. after \in [Cards -> CardStates]
  BY <1>6, <1>7
<1> QED
  BY <1>1, <1>4, <1>5, <1>8

\* An undo takes back the newest review, or nothing when its card is gone.
LEMMA UndoUndoes ==
    ASSUME TypeInv, LogInv, Undo
    PROVE  \/ \E r, event : Undone(r, event)
           \/ /\ UNCHANGED <<now, changes, place, session, cards, reviews, plannedAt>>
              /\ Undoable = {} \/ \E r \in Undoable : (\A i \in Undoable : i <= r) /\ ~Present(reviews[r].card)
<1>1. UndoLastReview /\ UNCHANGED <<now, changes, place, session>>
  BY DEF Undo
<1>2. CASE Undoable = {}
  BY <1>1, <1>2 DEF UndoLastReview
<1>3. CASE Undoable # {}
  <2>1. PICK n \in Nat : n = Len(reviews) /\ DOMAIN reviews = 1 .. n
    BY DEF TypeInv
  <2>2. PICK r : r = Max(Undoable) /\ r \in Undoable /\ \A i \in Undoable : i <= r
    <3>1. Undoable \in SUBSET (0 .. n)
      BY <2>1 DEF Undoable
    <3>2. Max(Undoable) \in Undoable /\ \A i \in Undoable : Max(Undoable) >= i
      BY <1>3, <3>1, MaxIsGreatest
    <3>3. \A i \in Undoable : i <= Max(Undoable)
      BY <3>1, <3>2
    <3> QED
      BY <3>2, <3>3
  <2>3. UndoReview(r)
    BY <1>1, <1>3, <2>2 DEF UndoLastReview
  <2>4. r \in 1 .. n
    BY <2>1, <2>2 DEF Undoable
  <2>5. CASE ~Present(reviews[r].card)
    BY <1>1, <2>2, <2>3, <2>5 DEF UndoReview
  <2>6. CASE Present(reviews[r].card)
    <3>1. /\ Log(Event("reversal", reviews[r].card, reviews[r].rating, "own", FALSE, r, {}))
          /\ cards' = [x \in Cards |->
                    IF x = reviews[r].card THEN reviews[r].prev
                    ELSE IF x \in DOMAIN reviews[r].siblings /\ Present(x)
                    THEN [cards[x] EXCEPT !.buriedUntil = reviews[r].siblings[x]]
                    ELSE cards[x]]
          /\ Replans
      BY <2>3, <2>6 DEF UndoReview
    <3>2. PICK kind, c, rating, device, planned, reverses, siblings :
              /\ kind = "reversal" /\ c = reviews[r].card /\ rating = reviews[r].rating /\ device = "own"
              /\ planned = FALSE /\ reverses = r /\ siblings = {}
      OBVIOUS
    <3>3. /\ kind \in {"review", "preview", "reversal"} /\ c \in Cards /\ rating \in Ratings
          /\ device \in {"own", "other", "shared"} /\ planned \in BOOLEAN /\ reverses \in Nat
          /\ siblings \in SUBSET Cards
      BY <2>1, <2>4, <3>2, EventParts
    <3>4. PICK event \in Events :
              /\ event = Event(kind, c, rating, device, planned, reverses, siblings)
              /\ event.kind = kind /\ event.card = c /\ event.at = now
              /\ event.device = device /\ event.planned = planned /\ event.reverses = reverses
              /\ event.prev = cards[c] /\ DOMAIN event.siblings = siblings
      BY <3>3, EventHolds
    <3>5. reviews' = Append(reviews, event) /\ Bounded /\ plannedAt' = now
      BY <3>1, <3>2, <3>4 DEF Log, Replans
    <3>6. /\ cards' \in [Cards -> CardStates]
          /\ cards'[reviews[r].card] = reviews[r].prev
          /\ \A x \in Cards \ {reviews[r].card} :
                /\ cards'[x].history = cards[x].history
                /\ \/ cards'[x].buriedUntil = cards[x].buriedUntil
                   \/ x \in DOMAIN reviews[r].siblings /\ cards'[x].buriedUntil = reviews[r].siblings[x]
      <4>1. PICK after : after = cards'
        OBVIOUS
      <4> QED
        BY <2>1, <2>4, <3>1, <4>1, UndoneCards
    <3>7. Undone(r, event)
      BY <1>1, <2>2, <2>6, <3>2, <3>3, <3>4, <3>5, <3>6 DEF Undone
    <3> QED
      BY <3>7
  <2> QED
    BY <2>5, <2>6
<1> QED
  BY <1>2, <1>3

\* The page goes back to its last answer.
LEMMA UndoPage ==
    ASSUME TypeInv, Undo
    PROVE  /\ SessionType' /\ PageType' /\ session' = session /\ page.answered # <<>> /\ page.open
           /\ Len(page.answered) \in Nat /\ Len(page.answered) \in 1 .. Len(page.answered)
           /\ page'.index = page.answered[Len(page.answered)]
           /\ Len(page'.answered) = Len(page.answered) - 1
           /\ \A k \in 1 .. Len(page.answered) - 1 : page'.answered[k] = page.answered[k]
<1>1. /\ page.open /\ page.answered # <<>> /\ session' = session /\ now' = now
      /\ page' = [page EXCEPT !.index = Last(page.answered), !.answered = Front(@)]
  BY DEF Undo
<1>2. SessionType /\ PageType
  BY DEF TypeInv
<1>3. SessionType'
  BY <1>1, <1>2 DEF SessionType
<1>4. PICK old \in [open : BOOLEAN, index : Nat, answered : Seq(Nat)] : old = page
  BY <1>2 DEF PageType
<1>5. PICK m \in Nat : m = Len(session.queue)
  BY <1>2 DEF SessionType
<1>6. PICK s \in Seq(Nat) : s = page.answered /\ s # <<>>
  <2>1. old.answered \in Seq(Nat)
    OBVIOUS
  <2> QED
    BY <1>1, <1>4, <2>1
<1>7. PICK l \in Nat : l = Len(s) /\ l # 0
  BY <1>6, EmptySeq
<1>8. PICK i \in Nat : i = Last(s) /\ i = s[l]
  <2>1. l \in 1 .. l
    BY <1>7
  <2>2. Last(s) = s[l]
    BY <1>7 DEF Last
  <2>3. s[l] \in Nat
    BY <1>7, <2>1
  <2> QED
    BY <2>2, <2>3
<1>9. PICK a \in Seq(Nat) : /\ a = Front(s) /\ Len(a) = l - 1
                            /\ \A k \in 1 .. l - 1 : a[k] = s[k]
  <2>1. 1 \in Int /\ l - 1 \in Int /\ l - 1 <= l /\ 1 >= 1
    OBVIOUS
  <2>2. /\ SubSeq(s, 1, l - 1) \in Seq(Nat) /\ Len(SubSeq(s, 1, l - 1)) = l - 1
        /\ \A k \in 1 .. l - 1 : SubSeq(s, 1, l - 1)[k] = s[k]
    BY <1>7
  <2> QED
    BY <1>7, <2>2 DEF Front
<1>10. page' = [[old EXCEPT !.index = i] EXCEPT !.answered = a]
  BY <1>1, <1>4, <1>6, <1>8, <1>9
<1>11. PICK middle \in [open : BOOLEAN, index : Nat, answered : Seq(Nat)] : middle = [old EXCEPT !.index = i]
  OBVIOUS
<1>12. middle.index = i /\ middle.open = old.open
  BY <1>11
<1>13. /\ page' \in [open : BOOLEAN, index : Nat, answered : Seq(Nat)]
       /\ page'.answered = a /\ page'.index = i /\ page'.open = old.open
  BY <1>10, <1>11, <1>12
<1>14. \A k \in 1 .. l : s[k] \in 1 .. m
  BY <1>2, <1>5, <1>6, <1>7 DEF PageType
<1>15. \A k \in 1 .. l - 1 : k \in 1 .. l
  OBVIOUS
<1>16. i \in 1 .. m + 1
  <2>1. l \in 1 .. l
    BY <1>7
  <2>2. i \in 1 .. m
    BY <1>8, <1>14, <2>1
  <2> QED
    BY <2>2
<1>17. s[1] = 1
  BY <1>2, <1>6 DEF PageType
<1>18. CASE l = 1
  <2>1. i = 1 /\ Len(a) = 0
    BY <1>8, <1>9, <1>17, <1>18
  <2>2. a = <<>>
    BY <2>1, EmptySeq
  <2>3. PageType'
    <3>1. \A k \in 1 .. Len(page'.answered) : page'.answered[k] \in 1 .. Len(session'.queue)
      BY <1>13, <2>1
    <3>2. page'.index \in 1 .. Len(session'.queue) + 1 /\ session'.kind # "none"
      BY <1>1, <1>2, <1>5, <1>13, <1>16 DEF PageType
    <3> QED
      BY <1>13, <2>1, <2>2, <3>1, <3>2 DEF PageType
  <2> QED
    BY <1>1, <1>3, <1>6, <1>7, <1>8, <1>9, <1>13, <2>3
<1>19. CASE l # 1
  <2>1. 1 \in 1 .. l - 1
    BY <1>7, <1>19
  <2>2. a[1] = 1 /\ a # <<>>
    <3>1. Len(a) # 0
      BY <1>9, <2>1
    <3> QED
      BY <1>9, <1>17, <2>1, <3>1, EmptySeq
  <2>3. PageType'
    <3>1. \A k \in 1 .. Len(page'.answered) : page'.answered[k] \in 1 .. Len(session'.queue)
      BY <1>1, <1>5, <1>9, <1>13, <1>14, <1>15
    <3>2. page'.index \in 1 .. Len(session'.queue) + 1 /\ session'.kind # "none"
      BY <1>1, <1>2, <1>5, <1>13, <1>16 DEF PageType
    <3>3. page'.open
      BY <1>1, <1>4, <1>13
    <3> QED
      BY <1>13, <2>2, <3>1, <3>2, <3>3 DEF PageType
  <2>4. l \in 1 .. l
    BY <1>7
  <2> QED
    BY <1>1, <1>3, <1>6, <1>7, <1>8, <1>9, <1>13, <2>3, <2>4
<1> QED
  BY <1>18, <1>19

\* What an undo leaves of the log.
LEMMA UndoneGrows ==
    ASSUME TypeInv, LogInv, NEW r, NEW event, Undone(r, event), NEW n \in Nat, n = Len(reviews)
    PROVE  /\ r \in 1 .. n /\ Len(reviews') = n + 1 /\ reviews' \in Seq(Events)
           /\ \A i \in 1 .. n : reviews'[i] = reviews[i]
           /\ reviews'[n + 1] = event
           /\ \A i \in 1 .. n : Surviving(i)' <=> Surviving(i) /\ i # r
           /\ ~Surviving(n + 1)'
           /\ Undoable' = Undoable \ {r} /\ Undoable \subseteq 1 .. n
           /\ \A d : Own(d)' = Own(d) \ {r}
           /\ \A d : \A i \in Own(d) : i \in 1 .. n /\ reviews'[i] = reviews[i]
           /\ \A c : \A k \in 0 .. r - 1 : Told(c, k)' = Told(c, k)
           /\ \A c : reviews[r].card # c => Told(c, n + 1)' = Told(c, n)
           /\ \A c : (\A i \in r + 1 .. n : reviews[i].card = c => ~Surviving(i))
                     => Told(c, n + 1)' = Told(c, r - 1)
<1>1. /\ event \in Events /\ event.kind = "reversal" /\ event.reverses = r /\ ~event.planned
      /\ reviews' = Append(reviews, event) /\ r \in Undoable
  BY DEF Undone
<1>2. Undoable \subseteq 1 .. n
  BY DEF TypeInv, Undoable
<1>3. r \in 1 .. n
  BY <1>1, <1>2
<1>4. /\ Len(reviews') = n + 1 /\ reviews' \in Seq(Events)
      /\ \A i \in 1 .. n : reviews'[i] = reviews[i]
      /\ reviews'[n + 1] = event
  <2>1. event.reverses \in 0 .. Len(reviews)
    BY <1>1, <1>3
  <2> QED
    BY <1>1, <2>1, LogGrows
<1>5. \A d : \A i \in Own(d) : i \in 1 .. n
  BY OwnParts
<1>6. /\ \A i \in 1 .. n : Surviving(i)' <=> Surviving(i) /\ i # r
      /\ ~Surviving(n + 1)'
      /\ Undoable' = Undoable \ {r}
      /\ \A d : Own(d)' = Own(d) \ {r}
      /\ \A c : \A k \in 0 .. r - 1 : Told(c, k)' = Told(c, k)
      /\ \A c : reviews[r].card # c => Told(c, n + 1)' = Told(c, n)
      /\ \A c : (\A i \in r + 1 .. n : reviews[i].card = c => ~Surviving(i))
                => Told(c, n + 1)' = Told(c, r - 1)
  BY <1>1, <1>3, ReversalGrows
<1> QED
  BY <1>2, <1>3, <1>4, <1>5, <1>6

\* The types of what an undo changes.
LEMMA UndoneType ==
    ASSUME TypeInv, LogInv, NEW r, NEW event, Undone(r, event), SessionType', PageType'
    PROVE  TypeInv'
<1>1. /\ cards' \in [Cards -> CardStates] /\ Bounded /\ plannedAt' = now /\ UNCHANGED <<now, changes, place>>
  BY DEF Undone
<1>2. reviews' \in Seq(Events) /\ Len(reviews') = Len(reviews) + 1 /\ Len(reviews) \in Nat
  <2>1. PICK n \in Nat : n = Len(reviews)
    BY DEF TypeInv
  <2> QED
    BY <2>1, UndoneGrows
<1>3. Len(reviews') + changes' <= MaxSteps
  <2>1. Len(reviews) + changes < MaxSteps /\ changes \in Nat /\ MaxSteps \in Nat
    BY <1>1, BoundAssumption DEF Bounded, TypeInv
  <2> QED
    BY <1>1, <1>2, <2>1
<1>4. plannedAt' \in 0 .. now' /\ now' \in 0 .. MaxTime
  BY <1>1 DEF TypeInv
<1>5. changes' \in Nat /\ place' \in [Notes -> Places]
  BY <1>1 DEF TypeInv
<1> QED
  BY <1>1, <1>2, <1>3, <1>4, <1>5 DEF TypeInv

\* The card has the history it had before the review.
LEMMA UndoneHistory ==
    ASSUME TypeInv, LogInv, HistoryInv, NEW r, NEW event, Undone(r, event)
    PROVE  HistoryInv'
<1>1. PICK n \in Nat : n = Len(reviews)
  BY DEF TypeInv
<1>2. /\ r \in 1 .. n /\ Len(reviews') = n + 1
      /\ \A i \in 1 .. n : reviews'[i] = reviews[i]
      /\ \A i \in 1 .. n : Surviving(i)' <=> Surviving(i) /\ i # r
      /\ ~Surviving(n + 1)'
      /\ Undoable' = Undoable \ {r} /\ Undoable \subseteq 1 .. n
      /\ \A c : \A k \in 0 .. r - 1 : Told(c, k)' = Told(c, k)
      /\ \A c : reviews[r].card # c => Told(c, n + 1)' = Told(c, n)
  BY <1>1, UndoneGrows
<1>3. \A c : (\A i \in r + 1 .. n : reviews[i].card = c => ~Surviving(i))
                => Told(c, n + 1)' = Told(c, r - 1)
  BY <1>1, UndoneGrows
<1>4. /\ r \in Undoable /\ \A i \in Undoable : i <= r
      /\ cards'[reviews[r].card] = reviews[r].prev
      /\ \A x \in Cards \ {reviews[r].card} : cards'[x].history = cards[x].history
  BY DEF Undone
<1>5. ASSUME ~Entangled, NEW c \in Cards PROVE cards'[c].history = Told(c, n + 1)'
  <2>1. CASE c # reviews[r].card
    <3>1. cards[c].history = Told(c, n)
      BY <1>1, <1>5 DEF HistoryInv, ScheduleIsHistory
    <3> QED
      BY <1>2, <1>4, <2>1, <3>1
  <2>2. CASE c = reviews[r].card
    <3>1. ASSUME NEW i \in r + 1 .. n, reviews[i].card = c, Surviving(i) PROVE FALSE
      <4>1. i \in 1 .. n /\ i > r /\ ~(i <= r)
        BY <1>2
      <4>2. i \in Undoable
        BY <1>1, <1>4, <1>5, <2>2, <3>1, <4>1 DEF HistoryInv
      <4> QED
        BY <1>4, <4>1, <4>2
    <3>2. Told(c, n + 1)' = Told(c, r - 1)
      BY <1>3, <3>1
    <3>3. reviews[r].prev.history = Told(c, r - 1)
      BY <1>4, <1>5, <2>2 DEF HistoryInv
    <3> QED
      BY <1>4, <2>2, <3>2, <3>3
  <2> QED
    BY <2>1, <2>2
<1>6. ASSUME ~Entangled, NEW i \in Undoable', NEW c, c = reviews'[i].card
      PROVE  /\ reviews'[i].prev.history = Told(c, i - 1)'
             /\ \A j \in 1 .. n + 1 : j > i /\ reviews'[j].card = c /\ Surviving(j)' => j \in Undoable'
  <2>1. i \in Undoable /\ i # r /\ i \in 1 .. n /\ i <= r /\ reviews'[i] = reviews[i]
    BY <1>2, <1>4
  <2>2. PICK k \in 0 .. r - 1 : k = i - 1
    BY <1>2, <2>1
  <2>3. reviews[i].prev.history = Told(c, k) /\ Told(c, k)' = Told(c, k)
    BY <1>2, <1>6, <2>1, <2>2 DEF HistoryInv
  <2>4. ASSUME NEW j \in 1 .. n + 1, j > i, reviews'[j].card = c, Surviving(j)' PROVE j \in Undoable'
    <3>1. j \in 1 .. n
      <4>1. j # n + 1
        BY <1>2, <2>4
      <4> QED
        BY <4>1
    <3>2. Surviving(j) /\ j # r /\ reviews[j].card = reviews[i].card
      BY <1>2, <1>6, <2>1, <2>4, <3>1
    <3>3. j \in Undoable
      BY <1>1, <1>6, <2>1, <2>4, <3>1, <3>2 DEF HistoryInv
    <3> QED
      BY <1>2, <3>2, <3>3
  <2> QED
    BY <2>1, <2>2, <2>3, <2>4
<1> QED
  BY <1>2, <1>5, <1>6, HistoryNext

\* The log stays in order, and nothing is buried for long.
LEMMA UndoneLog ==
    ASSUME TypeInv, LogInv, BurialTimes, NEW r, NEW event, Undone(r, event)
    PROVE  LogInv' /\ BurialTimes'
<1>1. PICK n \in Nat : n = Len(reviews)
  BY DEF TypeInv
<1>2. /\ r \in 1 .. n /\ Len(reviews') = n + 1
      /\ \A i \in 1 .. n : reviews'[i] = reviews[i]
      /\ reviews'[n + 1] = event
  BY <1>1, UndoneGrows
<1>3. /\ event.at = now /\ event.device = "own" /\ ~event.planned /\ event.reverses = r
      /\ event.card \in Cards /\ event.prev = cards[event.card] /\ DOMAIN event.siblings = {}
      /\ plannedAt' = now /\ now' = now /\ now \in Nat
      /\ cards'[reviews[r].card] = reviews[r].prev
      /\ cards' \in [Cards -> CardStates]
  BY DEF Undone, TypeInv
<1>4. \A i \in 1 .. n + 1 : i \in 1 .. n \/ i = n + 1
  OBVIOUS
<1>5. \A i \in 1 .. n : /\ reviews[i].at \in Nat /\ reviews[i].at <= plannedAt /\ reviews[i].at <= now
                        /\ reviews[i].reverses < i
                        /\ \A j \in 1 .. i : reviews[j].at <= reviews[i].at /\ j \in 1 .. n
                        /\ reviews[i].planned => reviews[i].kind = "review" /\ reviews[i].device = "own"
                        /\ Recognized => reviews[i].device # "shared"
  <2> TAKE i \in 1 .. n
  <2>1. \A j \in 1 .. i : j \in 1 .. n
    OBVIOUS
  <2> QED
    BY <1>1, <2>1, EventParts DEF LogInv
<1>6. LogInv'
  <2> SUFFICES ASSUME NEW i \in 1 .. n + 1
               PROVE  /\ reviews'[i].at <= now
                      /\ reviews'[i].reverses < i
                      /\ \A j \in 1 .. i : reviews'[j].at <= reviews'[i].at
                      /\ reviews'[i].planned => reviews'[i].kind = "review" /\ reviews'[i].device = "own"
                      /\ Recognized => reviews'[i].device # "shared"
    BY <1>2, <1>3 DEF LogInv
  <2>1. CASE i \in 1 .. n
    BY <1>2, <1>5, <2>1
  <2>2. CASE i = n + 1
    <3>1. reviews'[i] = event
      BY <1>2, <2>2
    <3>2. now <= now /\ r < i
      BY <1>2, <1>3, <2>2
    <3>3. \A j \in 1 .. i : reviews'[j].at <= now
      BY <1>2, <1>3, <1>4, <1>5, <2>2, <3>1, <3>2
    <3> QED
      BY <1>3, <3>1, <3>2, <3>3
  <2> QED
    BY <1>4, <2>1, <2>2
<1>7. NextDay(reviews[r].at) <= NextDay(now) /\ NextDay(reviews[r].at) \in Nat /\ NextDay(now) \in Nat
  <2>1. reviews[r].at \in Nat /\ reviews[r].at <= now
    BY <1>2, <1>5
  <2> QED
    BY <1>3, <2>1, DaysAreOrdered, NextDayIsLater
<1>8. ASSUME NEW x \in Cards PROVE cards'[x].buriedUntil <= NextDay(now)
  <2>1. cards'[x] \in CardStates
    BY <1>3
  <2>2. cards'[x].buriedUntil \in Nat
    BY <2>1 DEF CardStates
  <2>3. CASE x = reviews[r].card
    <3>1. reviews[r].prev.buriedUntil <= NextDay(reviews[r].at)
      BY <1>1, <1>2 DEF BurialTimes
    <3> QED
      BY <1>3, <1>7, <2>2, <2>3, <3>1
  <2>4. CASE x # reviews[r].card
    <3>1. \/ cards'[x].buriedUntil = cards[x].buriedUntil
          \/ x \in DOMAIN reviews[r].siblings /\ cards'[x].buriedUntil = reviews[r].siblings[x]
      BY <2>4 DEF Undone
    <3>2. CASE cards'[x].buriedUntil = cards[x].buriedUntil
      BY <3>2 DEF BurialTimes
    <3>3. CASE x \in DOMAIN reviews[r].siblings /\ cards'[x].buriedUntil = reviews[r].siblings[x]
      <4>1. reviews[r].siblings[x] <= NextDay(reviews[r].at)
        BY <1>1, <1>2, <3>3 DEF BurialTimes
      <4> QED
        BY <1>7, <2>2, <3>3, <4>1
    <3> QED
      BY <3>1, <3>2, <3>3
  <2> QED
    BY <2>3, <2>4
<1>9. BurialTimes'
  <2>1. ASSUME NEW i \in 1 .. n + 1
        PROVE  /\ reviews'[i].prev.buriedUntil <= NextDay(reviews'[i].at)
               /\ \A s \in DOMAIN reviews'[i].siblings : reviews'[i].siblings[s] <= NextDay(reviews'[i].at)
    <3>1. CASE i \in 1 .. n
      BY <1>1, <1>2, <3>1 DEF BurialTimes
    <3>2. CASE i = n + 1
      <4>1. reviews'[i] = event
        BY <1>2, <3>2
      <4>2. event.prev.buriedUntil <= NextDay(event.at)
        BY <1>3 DEF BurialTimes
      <4> QED
        BY <1>3, <4>1, <4>2
    <3> QED
      BY <1>4, <3>1, <3>2
  <2>2. \A c \in Cards : cards'[c].buriedUntil <= NextDay(now')
    BY <1>3, <1>8
  <2> QED
    BY <1>2, <2>1, <2>2 DEF BurialTimes, NextDay, Day
<1> QED
  BY <1>6, <1>9

\* A review of today that is older than the newest one is of the day of the newest one.
LEMMA UndoneToday ==
    ASSUME TypeInv, LogInv, NEW r, NEW event, Undone(r, event), NEW i \in Own(Day(now)), i # r
    PROVE  /\ i < r /\ r \in 1 .. Len(reviews) /\ reviews[r].at \in Nat
           /\ Day(reviews[r].at) = Day(now) /\ NextDay(reviews[r].at) = NextDay(now)
<1>1. PICK n \in Nat : n = Len(reviews)
  BY DEF TypeInv
<1>2. r \in 1 .. n /\ r \in Undoable /\ \A j \in Undoable : j <= r
  BY <1>1, UndoneGrows DEF Undone
<1>3. i \in 1 .. n /\ i \in Undoable /\ Day(reviews[i].at) = Day(now)
  BY <1>1, OwnParts
<1>4. i < r
  BY <1>2, <1>3
<1>5. i \in 1 .. r
  BY <1>2, <1>3, <1>4
<1>6. reviews[i].at <= reviews[r].at
  BY <1>1, <1>2, <1>5 DEF LogInv
<1>7. /\ reviews[i].at \in Nat /\ reviews[r].at \in Nat /\ Day(reviews[r].at) \in Nat /\ Day(now) \in Nat
      /\ Day(reviews[r].at) <= Day(now)
  BY <1>1, <1>2, <1>3, EventParts
<1>8. Day(reviews[i].at) <= Day(reviews[r].at)
  BY <1>6, <1>7, DaysAreOrdered
<1>9. Day(reviews[r].at) = Day(now)
  BY <1>3, <1>7, <1>8
<1> QED
  BY <1>1, <1>2, <1>4, <1>7, <1>9 DEF NextDay

\* The siblings of what was studied before stay buried.
LEMMA UndoneBurial ==
    ASSUME TypeInv, LogInv, BurialInv, NEW r, NEW event, Undone(r, event)
    PROVE  BurialInv'
<1> SUFFICES ASSUME BurySiblings, Recognized
             PROVE  /\ \A d : d = Day(now') => \A i \in Own(d)' : \A s \in Mates(reviews'[i].card) :
                          cards'[s].buriedUntil >= NextDay(now')
                    /\ \A m \in Undoable' : \A d : d = Day(reviews'[m].at) =>
                          \A i \in Own(d)' : i < m =>
                          \A s \in Mates(reviews'[i].card) :
                             /\ s = reviews'[m].card => reviews'[m].prev.buriedUntil >= NextDay(reviews'[m].at)
                             /\ s \in DOMAIN reviews'[m].siblings =>
                                   reviews'[m].siblings[s] >= NextDay(reviews'[m].at)
  BY BurialNext
<1>1. PICK n \in Nat : n = Len(reviews)
  BY DEF TypeInv
<1>2. /\ r \in 1 .. n
      /\ \A i \in 1 .. n : reviews'[i] = reviews[i]
      /\ Undoable' = Undoable \ {r} /\ Undoable \subseteq 1 .. n
      /\ \A d : Own(d)' = Own(d) \ {r}
      /\ \A d : \A i \in Own(d) : i \in 1 .. n /\ reviews'[i] = reviews[i]
  BY <1>1, UndoneGrows
<1>3. /\ r \in Undoable /\ now' = now
      /\ cards'[reviews[r].card] = reviews[r].prev
  BY DEF Undone
<1>4. ASSUME NEW d, d = Day(now'), NEW i \in Own(d)', NEW s \in Mates(reviews'[i].card)
      PROVE  cards'[s].buriedUntil >= NextDay(now')
  <2>1. i \in Own(Day(now)) /\ i # r /\ reviews'[i] = reviews[i] /\ s \in Mates(reviews[i].card)
    BY <1>2, <1>3, <1>4
  <2>2. i < r /\ Day(reviews[r].at) = Day(now) /\ NextDay(reviews[r].at) = NextDay(now)
    BY <2>1, UndoneToday
  <2>3. i \in Own(Day(reviews[r].at))
    BY <2>1, <2>2
  <2>4. /\ s = reviews[r].card => reviews[r].prev.buriedUntil >= NextDay(now)
        /\ s \in DOMAIN reviews[r].siblings => reviews[r].siblings[s] >= NextDay(now)
    BY <1>3, <2>1, <2>2, <2>3 DEF BurialInv
  <2>5. cards[s].buriedUntil >= NextDay(now) /\ s \in Cards
    BY <2>1 DEF BurialInv, Mates
  <2>6. CASE s = reviews[r].card
    BY <1>3, <2>4, <2>6
  <2>7. CASE s # reviews[r].card
    <3>1. \/ cards'[s].buriedUntil = cards[s].buriedUntil
          \/ s \in DOMAIN reviews[r].siblings /\ cards'[s].buriedUntil = reviews[r].siblings[s]
      BY <2>5, <2>7 DEF Undone
    <3> QED
      BY <1>3, <2>4, <2>5, <3>1
  <2> QED
    BY <2>6, <2>7
<1>5. ASSUME NEW m \in Undoable', NEW d, d = Day(reviews'[m].at), NEW i \in Own(d)', i < m,
             NEW s \in Mates(reviews'[i].card)
      PROVE  /\ s = reviews'[m].card => reviews'[m].prev.buriedUntil >= NextDay(reviews'[m].at)
             /\ s \in DOMAIN reviews'[m].siblings =>
                   reviews'[m].siblings[s] >= NextDay(reviews'[m].at)
  <2>1. m \in Undoable /\ reviews'[m] = reviews[m]
    BY <1>2
  <2>2. i \in Own(Day(reviews[m].at)) /\ reviews'[i] = reviews[i]
    BY <1>2, <1>5, <2>1
  <2>3. s \in Mates(reviews[i].card)
    BY <2>2
  <2> QED
    BY <1>5, <2>1, <2>2, <2>3 DEF BurialInv
<1> QED
  BY <1>4, <1>5

\* The last answer of the page is the newest review.
LEMMA LastAnswer ==
    ASSUME TypeInv, NEW e \in Answers, page.answered # <<>>, NEW r \in Undoable, \A i \in Undoable : i <= r,
           NEW l \in Nat, l = Len(page.answered)
    PROVE  l \in 1 .. l /\ e[l] = r
<1>1. l \in 1 .. l
  <2>1. page.answered \in Seq(Nat)
    BY DEF TypeInv, PageType
  <2>2. l # 0
    BY <2>1, EmptySeq
  <2> QED
    BY <2>2
<1>2. /\ e[l] \in Undoable
      /\ \A i \in Undoable : i > e[l] => \E k \in 1 .. l : i = e[k]
      /\ \A k \in 1 .. l : k < l => e[k] < e[l]
  BY <1>1 DEF Answers
<1>3. \A i \in Undoable : i \in Nat
  BY DEF TypeInv, Undoable
<1>4. ASSUME r > e[l] PROVE FALSE
  <2>1. PICK k \in 1 .. l : r = e[k]
    BY <1>2, <1>4
  <2>2. e[l] \in Nat /\ r \in Nat
    BY <1>2, <1>3
  <2>3. CASE k = l
    BY <1>4, <2>1, <2>2, <2>3
  <2>4. CASE k # l
    <3>1. k < l
      BY <2>4
    <3>2. e[k] < e[l]
      BY <1>2, <3>1
    <3> QED
      BY <1>4, <2>1, <2>2, <3>2
  <2> QED
    BY <2>3, <2>4
<1>5. e[l] <= r /\ e[l] \in Nat /\ r \in Nat
  BY <1>2, <1>3
<1> QED
  BY <1>1, <1>4, <1>5

\* The page keeps the answers before the last one.
LEMMA UndoneAnswers ==
    ASSUME TypeInv, LogInv, NEW r, NEW event, Undone(r, event), Undo, NEW e \in Answers
    PROVE  \E a \in Answers' : \A k \in 1 .. Len(page'.answered) :
              k \in 1 .. Len(page.answered) /\ a[k] = e[k]
<1>1. PICK n \in Nat : n = Len(reviews)
  BY DEF TypeInv
<1>2. PICK l \in Nat : l = Len(page.answered)
  BY UndoPage
<1>3. /\ l \in 1 .. l /\ session' = session /\ page.answered # <<>>
      /\ Len(page'.answered) = l - 1
      /\ \A k \in 1 .. l - 1 : page'.answered[k] = page.answered[k]
  BY <1>2, UndoPage
<1>4. /\ r \in Undoable /\ \A i \in Undoable : i <= r
      /\ place' = place
  BY DEF Undone
<1>5. /\ r \in 1 .. n /\ Len(reviews') = n + 1
      /\ \A i \in 1 .. n : reviews'[i] = reviews[i]
      /\ Undoable' = Undoable \ {r} /\ Undoable \subseteq 1 .. n
  BY <1>1, UndoneGrows
<1>6. e[l] = r
  BY <1>2, <1>3, <1>4, LastAnswer
<1>7. e \in [1 .. l -> 1 .. n] /\ \A k, j \in 1 .. l : k < j => e[k] < e[j]
  BY <1>1, <1>2 DEF Answers
<1>8. PICK a : a = [k \in 1 .. l - 1 |-> e[k]]
  OBVIOUS
<1>9. /\ \A k \in 1 .. l - 1 : k \in 1 .. l /\ k < l /\ a[k] = e[k]
      /\ \A k \in 1 .. l : k \in 1 .. l - 1 \/ k = l
      /\ \A i \in 1 .. n : i \in 1 .. n + 1
  BY <1>8
<1>10. a \in [1 .. l - 1 -> 1 .. n + 1]
  <2>1. \A k \in 1 .. l - 1 : a[k] \in 1 .. n + 1
    BY <1>7, <1>9
  <2> QED
    BY <1>8, <2>1
<1>11. \A k, j \in 1 .. l - 1 : k < j => a[k] < a[j]
  BY <1>7, <1>9
<1>12. ASSUME NEW k \in 1 .. l - 1
       PROVE  /\ a[k] \in Undoable'
              /\ reviews'[a[k]].card = session'.queue[page'.answered[k]]
              /\ place'[NoteOf[reviews'[a[k]].card]] \in {"library", "restored"}
              /\ reviews'[a[k]].at >= session'.since
              /\ reviews'[a[k]].planned = (session'.kind = "planned")
              /\ \A i \in Undoable' : i > a[k] => \E j \in 1 .. l - 1 : i = a[j]
  <2>1. k \in 1 .. l /\ k < l /\ a[k] = e[k] /\ e[k] \in 1 .. n
    BY <1>7, <1>9
  <2>2. /\ e[k] \in Undoable
        /\ reviews[e[k]].card = session.queue[page.answered[k]]
        /\ place[NoteOf[reviews[e[k]].card]] \in {"library", "restored"}
        /\ reviews[e[k]].at >= session.since
        /\ reviews[e[k]].planned = (session.kind = "planned")
        /\ \A i \in Undoable : i > e[k] => \E j \in 1 .. l : i = e[j]
    BY <1>2, <2>1 DEF Answers, Present
  <2>3. a[k] # r
    <3>1. e[k] < e[l] /\ e[k] \in Nat
      BY <1>3, <1>7, <2>1
    <3> QED
      BY <1>5, <1>6, <2>1, <3>1
  <2>4. ASSUME NEW i \in Undoable', i > a[k] PROVE \E j \in 1 .. l - 1 : i = a[j]
    <3>1. i \in Undoable /\ i # r
      BY <1>5
    <3>2. PICK j \in 1 .. l : i = e[j]
      BY <2>1, <2>2, <2>4, <3>1
    <3>3. j # l
      BY <1>6, <3>1, <3>2
    <3> QED
      BY <1>9, <3>2, <3>3
  <2>5. reviews'[a[k]] = reviews[e[k]]
    BY <1>5, <2>1
  <2> QED
    BY <1>3, <1>4, <1>5, <2>1, <2>2, <2>3, <2>4, <2>5
<1>13. a \in Answers'
  <2>1. /\ a \in [1 .. Len(page'.answered) -> 1 .. Len(reviews')]
        /\ \A k, j \in 1 .. Len(page'.answered) : k < j => a[k] < a[j]
    BY <1>3, <1>5, <1>10, <1>11
  <2>2. ASSUME NEW k \in 1 .. Len(page'.answered)
        PROVE  /\ a[k] \in Undoable'
               /\ reviews'[a[k]].card = session'.queue[page'.answered[k]]
               /\ place'[NoteOf[reviews'[a[k]].card]] \in {"library", "restored"}
               /\ reviews'[a[k]].at >= session'.since
               /\ reviews'[a[k]].planned = (session'.kind = "planned")
               /\ \A i \in Undoable' : i > a[k] => \E j \in 1 .. Len(page'.answered) : i = a[j]
    BY <1>3, <1>12
  <2> QED
    BY <2>1, <2>2 DEF Answers, Present
<1> QED
  BY <1>2, <1>3, <1>9, <1>13

\* The page goes back to a card whose siblings were not studied.
LEMMA UndoneSeat ==
    ASSUME TypeInv, LogInv, PageInv, SeatInv, ApartInv, NEW r, NEW event, Undone(r, event), Undo
    PROVE  SeatInv'
<1> SUFFICES ASSUME BurySiblings, Recognized, ~Overnight, session'.kind = "planned"
             PROVE  /\ \A d : d = Day(now') =>
                          \A i \in Own(d)' : session'.queue[page'.index] \notin Mates(reviews'[i].card)
                    /\ session'.queue # <<>> =>
                          \A d : d = Day(session'.since) =>
                          \A i \in Own(d)' : session'.queue[1] \notin Mates(reviews'[i].card)
  BY SeatNext
<1>1. PICK n \in Nat : n = Len(reviews)
  BY DEF TypeInv
<1>2. /\ r \in 1 .. n
      /\ \A d : Own(d)' = Own(d) \ {r}
      /\ \A d : \A i \in Own(d) : i \in 1 .. n /\ reviews'[i] = reviews[i]
  BY <1>1, UndoneGrows
<1>3. PICK l \in Nat : l = Len(page.answered)
  BY UndoPage
<1>4. /\ session' = session /\ page.answered # <<>> /\ page'.index = page.answered[l]
  BY <1>3, UndoPage
<1>5. r \in Undoable /\ (\A i \in Undoable : i <= r) /\ now' = now
  BY DEF Undone
<1>6. PICK e : e \in Answers
  BY DEF PageInv
<1>7. e[l] = r /\ l \in 1 .. l
  BY <1>3, <1>4, <1>5, <1>6, LastAnswer
<1>8. reviews[r].card = session.queue[page'.index] /\ reviews[r].planned
  BY <1>3, <1>4, <1>6, <1>7 DEF Answers
<1>9. ASSUME NEW d, d = Day(now'), NEW i \in Own(d)'
      PROVE  session'.queue[page'.index] \notin Mates(reviews'[i].card)
  <2>1. i \in Own(Day(now)) /\ i # r /\ reviews'[i] = reviews[i]
    BY <1>2, <1>5, <1>9
  <2>2. Day(reviews[r].at) = Day(now)
    BY <2>1, UndoneToday
  <2>3. reviews[r].kind = "review"
    BY <1>1, <1>2, <1>8 DEF LogInv
  <2>4. r \in Own(Day(now))
    BY <1>5, <1>8, <2>2, <2>3 DEF Own, Undoable, Surviving
  <2>5. Day(now) \in 0 .. Day(now)
    BY <2>1, OwnParts
  <2>6. NoteOf[reviews[r].card] = NoteOf[reviews[i].card] => reviews[r].card = reviews[i].card
    BY <2>1, <2>4, <2>5 DEF ApartInv, SiblingsApart
  <2> QED
    BY <1>4, <1>8, <2>1, <2>6 DEF Mates
<1>10. ASSUME session'.queue # <<>>, NEW d, d = Day(session'.since), NEW i \in Own(d)'
       PROVE  session'.queue[1] \notin Mates(reviews'[i].card)
  <2>1. i \in Own(Day(session.since)) /\ reviews'[i] = reviews[i]
    BY <1>2, <1>4, <1>10
  <2> QED
    BY <1>4, <1>10, <2>1 DEF SeatInv
<1> QED
  BY <1>9, <1>10

\* An undo keeps the limit: a card that is new again was one of the session's.
LEMMA UndoneLimit ==
    ASSUME TypeInv, LogInv, LimitInv, NEW r, NEW event, Undone(r, event), Undo
    PROVE  LimitInv'
<1>1. PICK n \in Nat : n = Len(reviews)
  BY DEF TypeInv
<1>2. /\ r \in 1 .. n
      /\ \A i \in 1 .. n : reviews'[i] = reviews[i]
      /\ \A d : Own(d)' = Own(d) \ {r}
      /\ \A d : \A i \in Own(d) : i \in 1 .. n /\ reviews'[i] = reviews[i]
  BY <1>1, UndoneGrows
<1>3. /\ now' = now /\ place' = place /\ session' = session
      /\ r \in Undoable /\ \A i \in Undoable : i <= r
      /\ cards'[reviews[r].card] = reviews[r].prev
      /\ \A x \in Cards \ {reviews[r].card} : cards'[x].history = cards[x].history
  BY DEF Undone
<1>4. \A d : \A i \in Introduced(d)' : i \in Introduced(d) /\ reviews'[i].card = reviews[i].card
  <2> SUFFICES ASSUME NEW d, NEW i \in Introduced(d)'
               PROVE  i \in Introduced(d) /\ reviews'[i].card = reviews[i].card
    OBVIOUS
  <2>1. i \in Own(d)' /\ reviews'[i].prev.history = <<>> /\ place'[NoteOf[reviews'[i].card]] = "library"
    BY DEF Introduced
  <2>2. i \in Own(d) /\ reviews'[i] = reviews[i]
    BY <1>2, <2>1
  <2> QED
    BY <1>3, <2>1, <2>2 DEF Introduced
<1>5. ASSUME Recognized, ~Entangled, session'.kind = "planned" PROVE \E new \in SUBSET Cards : NewOnes(new)'
  <2>1. PICK new \in SUBSET Cards : NewOnes(new)
    BY <1>3, <1>5 DEF LimitInv
  <2>2. Room(new)'
    BY <1>3, <1>4, <1>5, <2>1, FewerLimit DEF NewOnes
  <2>3. PICK e \in Answers : \A k \in 1 .. Len(page.answered) :
            reviews[e[k]].prev.history = <<>> => reviews[e[k]].card \in new
    BY <2>1 DEF NewOnes
  <2>4. PICK l \in Nat : l = Len(page.answered)
    BY UndoPage
  <2>5. e[l] = r /\ l \in 1 .. l
    BY <1>3, <2>4, UndoPage, LastAnswer
  <2>6. reviews[r].prev.history = <<>> => reviews[r].card \in new
    BY <2>3, <2>4, <2>5
  <2>7. ASSUME NEW k \in 1 .. Len(session'.queue), session'.queue[k] \notin new
        PROVE  cards'[session'.queue[k]].history # <<>>
    <3>1. session.queue[k] \in Cards /\ cards[session.queue[k]].history # <<>>
      BY <1>3, <2>1, <2>7 DEF NewOnes, TypeInv, SessionType
    <3> QED
      BY <1>3, <2>6, <2>7, <3>1
  <2>8. \E a \in Answers' : \A k \in 1 .. Len(page'.answered) :
            reviews'[a[k]].prev.history = <<>> => reviews'[a[k]].card \in new
    <3>1. PICK a \in Answers' : \A k \in 1 .. Len(page'.answered) :
              k \in 1 .. Len(page.answered) /\ a[k] = e[k]
      BY UndoneAnswers
    <3>2. \A k \in 1 .. Len(page.answered) : reviews'[e[k]] = reviews[e[k]]
      BY <1>1, <1>2 DEF Answers
    <3> QED
      BY <2>3, <3>1, <3>2
  <2>9. NewOnes(new)'
    BY <2>2, <2>7, <2>8 DEF NewOnes
  <2> QED
    BY <2>1, <2>9
<1>6. ASSUME Recognized, ~Entangled
      PROVE  /\ \A d : \A i, j \in Introduced(d)' : reviews'[i].card = reviews'[j].card => i = j
             /\ \A m : m = Day(now') => \A d \in 0 .. m : Cardinality(Introduced(d)') <= NewLimit
  BY <1>3, <1>4, <1>6, FewerLimit
<1> QED
  BY <1>5, <1>6, LimitNext

\* Where the reviews of others are recognized there is an answer to take back.
LEMMA AnswerIsUndone ==
    ASSUME TypeInv, LogInv, PageInv, Recognized, Undo
    PROVE  \E r, event : Undone(r, event) /\ reviews[r].card = session.queue[page'.index]
<1>1. PICK e : e \in Answers
  BY DEF PageInv
<1>2. PICK l \in Nat : l = Len(page.answered)
  BY UndoPage
<1>3. /\ l \in 1 .. l /\ page.answered # <<>> /\ page'.index = page.answered[l]
  BY <1>2, UndoPage
<1>4. /\ e[l] \in Undoable /\ Present(reviews[e[l]].card)
      /\ reviews[e[l]].card = session.queue[page'.index]
  BY <1>1, <1>2, <1>3 DEF Answers
<1>5. \A r \in Undoable : (\A i \in Undoable : i <= r) => e[l] = r
  BY <1>1, <1>2, <1>3, LastAnswer
<1>6. PICK r, event : Undone(r, event)
  BY <1>4, <1>5, UndoUndoes
<1>7. r \in Undoable /\ \A i \in Undoable : i <= r
  BY <1>6 DEF Undone
<1> QED
  BY <1>4, <1>5, <1>6, <1>7

\* The last answer is undone.
LEMMA UndoOrder == ASSUME StudyOrder, Undo PROVE StudyOrder'
<1>1. TypeInv /\ LogInv /\ BurialTimes /\ HistoryInv /\ PageInv /\ BurialInv /\ SeatInv /\ ApartInv /\ LimitInv
  BY DEF StudyOrder
<1>2. SessionType' /\ PageType' /\ session' = session
  BY <1>1, UndoPage
<1>3. ASSUME NEW r, NEW event, Undone(r, event) PROVE StudyOrder'
  <2>1. TypeInv'
    BY <1>1, <1>2, <1>3, UndoneType
  <2>2. LogInv' /\ BurialTimes' /\ HistoryInv' /\ BurialInv'
    BY <1>1, <1>3, UndoneLog, UndoneHistory, UndoneBurial
  <2>3. PageInv'
    <3>1. ASSUME NEW e \in Answers PROVE Answers' # {}
      BY <1>1, <1>3, UndoneAnswers
    <3> QED
      BY <1>1, <3>1 DEF PageInv
  <2>4. SeatInv' /\ LimitInv'
    BY <1>1, <1>3, UndoneSeat, UndoneLimit
  <2>5. ApartInv'
    <3>1. PICK n \in Nat : n = Len(reviews)
      BY <1>1 DEF TypeInv
    <3>2. \A d : Own(d)' = Own(d) \ {r}
      BY <1>1, <1>3, <3>1, UndoneGrows
    <3>3. \A d : \A i \in Own(d) : reviews'[i] = reviews[i]
      BY <1>1, <1>3, <3>1, UndoneGrows
    <3>4. \A d : \A i \in Own(d)' : i \in Own(d) /\ reviews'[i].card = reviews[i].card
      BY <3>2, <3>3
    <3> QED
      BY <1>1, <3>4, FewerApart
  <2> QED
    BY <2>1, <2>2, <2>3, <2>4, <2>5 DEF StudyOrder
<1>4. ASSUME UNCHANGED <<now, changes, place, session, cards, reviews, plannedAt>>, ~Recognized
      PROVE  StudyOrder'
  <2>1. TypeInv'
    BY <1>1, <1>2, <1>4 DEF TypeInv
  <2>2. Quiet
    BY <1>1, <1>4, QuietLibrary
  <2>3. PageInv' /\ SeatInv'
    BY <1>4 DEF PageInv, SeatInv
  <2> QED
    BY <1>4, <2>1, <2>2, <2>3, QuietOrder
<1>5. CASE Recognized
  BY <1>1, <1>3, <1>5, AnswerIsUndone
<1>6. CASE ~Recognized
  BY <1>1, <1>3, <1>4, <1>6, UndoUndoes
<1> QED
  BY <1>5, <1>6

-----------------------------------------------------------------------------
(* The theorems *)

\* At first nothing is studied.
LEMMA InitTypes == ASSUME Init PROVE TypeInv
<1>1. /\ now = 0 /\ cards = [c \in Cards |-> NewCard] /\ place = [n \in Notes |-> "library"]
      /\ reviews = <<>> /\ changes = 0 /\ plannedAt = 0 /\ session = NoSession /\ page = Closed
  BY DEF Init
<1>2. MaxTime \in Nat /\ MaxSteps \in Nat
  BY BoundAssumption
<1>3. now \in 0 .. MaxTime /\ plannedAt \in 0 .. now
  BY <1>1, <1>2
<1>4. cards \in [Cards -> CardStates]
  <2>1. <<>> \in Histories
    BY DEF Histories
  <2>2. NewCard \in CardStates
    BY <2>1 DEF NewCard, CardStates
  <2> QED
    BY <1>1, <2>2
<1>5. place \in [Notes -> Places]
  BY <1>1 DEF Places
<1>6. reviews \in Seq(Events) /\ changes \in Nat /\ Len(reviews) + changes <= MaxSteps
  BY <1>1, <1>2
<1>7. /\ session = [kind |-> "none", reschedule |-> TRUE, queue |-> <<>>, since |-> 0]
      /\ page = [open |-> FALSE, index |-> 1, answered |-> <<>>]
  BY <1>1 DEF NoSession, Closed
<1>8. <<>> \in Seq(Cards) /\ <<>> \in Seq(Nat) /\ Len(<<>>) = 0 /\ IsInjective(<<>>)
  BY DEF IsInjective
<1>9. /\ session.queue = <<>> /\ session.kind = "none" /\ session.since = 0
      /\ page.open = FALSE /\ page.index = 1 /\ page.answered = <<>>
  BY <1>7
<1>10. SessionType
  <2>1. session \in [kind : {"none", "planned", "custom"}, reschedule : BOOLEAN,
                     queue : Seq(Cards), since : Nat]
    BY <1>7, <1>8
  <2>2. session.since <= now
    BY <1>1, <1>9
  <2>3. IsInjective(session.queue)
    BY <1>8, <1>9
  <2>4. session.kind # "planned" /\ session = NoSession
    BY <1>1, <1>9
  <2> QED
    BY <2>1, <2>2, <2>3, <2>4 DEF SessionType
<1>11. PageType
  <2>1. page \in [open : BOOLEAN, index : Nat, answered : Seq(Nat)]
    BY <1>7, <1>8
  <2>2. page.index \in 1 .. Len(session.queue) + 1
    BY <1>8, <1>9
  <2>3. \A k \in 1 .. Len(page.answered) : page.answered[k] \in 1 .. Len(session.queue)
    BY <1>8, <1>9
  <2> QED
    BY <1>9, <2>1, <2>2, <2>3 DEF PageType
<1> QED
  BY <1>3, <1>4, <1>5, <1>6, <1>10, <1>11 DEF TypeInv

\* Nothing is undone, buried or answered.
LEMMA InitOrder == ASSUME Init PROVE StudyOrder
<1>1. TypeInv
  BY InitTypes
<1>2. /\ now = 0 /\ cards = [c \in Cards |-> NewCard] /\ reviews = <<>> /\ session = NoSession
      /\ page = Closed
  BY DEF Init
<1>3. Len(reviews) = 0 /\ DOMAIN reviews = {}
  BY <1>2
<1>4. session.kind = "none" /\ page.answered = <<>>
  BY <1>2 DEF NoSession, Closed
<1>5. Undoable = {} /\ \A d : Own(d) = {} /\ Introduced(d) = {}
  BY <1>3 DEF Undoable, Own, Introduced
<1>6. LogInv
  BY <1>3 DEF LogInv
<1>7. BurialTimes
  <2>1. NextDay(now) \in Nat
    BY <1>1, NextDayIsLater DEF TypeInv
  <2>2. \A c \in Cards : cards[c].buriedUntil = 0
    BY <1>2 DEF NewCard
  <2>3. \A c \in Cards : cards[c].buriedUntil <= NextDay(now)
    BY <2>1, <2>2
  <2> QED
    BY <1>3, <2>3 DEF BurialTimes
<1>8. HistoryInv
  <2>1. ASSUME NEW c \in Cards PROVE cards[c].history = Told(c, Len(reviews))
    <3>1. cards[c].history = <<>>
      BY <1>2 DEF NewCard
    <3>2. Told(c, 0) = <<>>
      BY ToldIsRecited, RecitedStarts
    <3> QED
      BY <1>3, <3>1, <3>2
  <2> QED
    BY <1>5, <2>1 DEF HistoryInv, ScheduleIsHistory
<1>9. PageInv
  <2> DEFINE e == [k \in 1 .. 0 |-> 0]
  <2>1. Len(page.answered) = 0 /\ 1 .. 0 = {}
    BY <1>4
  <2>2. e \in [1 .. Len(page.answered) -> 1 .. Len(reviews)]
    BY <2>1
  <2>3. e \in Answers
    BY <2>1, <2>2 DEF Answers
  <2> QED
    BY <2>3 DEF PageInv
<1>10. BurialInv
  BY <1>5 DEF BurialInv
<1>11. SeatInv
  BY <1>4 DEF SeatInv
<1>12. ApartInv
  BY <1>5 DEF ApartInv, SiblingsApart
<1>13. LimitInv
  <2>1. NewLimitHonoured
    <3>1. NewLimit \in Nat /\ Cardinality({}) = 0
      BY LimitAssumption, FS_EmptySet
    <3>2. ASSUME NEW day PROVE Cardinality({i \in Own(day) : reviews[i].prev.history = <<>>
                                    /\ place[NoteOf[reviews[i].card]] = "library"}) <= NewLimit
      <4>1. {i \in Own(day) : reviews[i].prev.history = <<>>
                                    /\ place[NoteOf[reviews[i].card]] = "library"} = {}
        BY <1>5
      <4> QED
        BY <3>1, <4>1
    <3> QED
      BY <3>2 DEF NewLimitHonoured
  <2>2. IntroducedOnce
    BY <1>5 DEF IntroducedOnce
  <2> QED
    BY <1>4, <2>1, <2>2 DEF LimitInv
<1> QED
  BY <1>1, <1>6, <1>7, <1>8, <1>9, <1>10, <1>11, <1>12, <1>13 DEF StudyOrder

\* Nothing happens.
LEMMA IdleOrder == ASSUME StudyOrder, UNCHANGED vars PROVE StudyOrder'
<1>1. UNCHANGED <<now, cards, place, reviews, changes, plannedAt, session, page>>
  BY DEF vars
<1>2. TypeInv /\ BurialTimes
  BY DEF StudyOrder
<1>3. TypeInv'
  BY <1>1, <1>2 DEF TypeInv, SessionType, PageType
<1>4. Quiet
  BY <1>1, <1>2, QuietLibrary
<1> QED
  BY <1>1, <1>3, <1>4, QuietSession

\* Every step keeps the invariant.
LEMMA StepOrder == StudyOrder /\ [Next]_vars => StudyOrder'
<1> SUFFICES ASSUME StudyOrder, [Next]_vars PROVE StudyOrder'
  OBVIOUS
<1>1. CASE TimePasses
  BY <1>1, TimeOrder
<1>2. CASE Reopen \/ EndSession \/ Leave
  BY <1>2, CloseOrder
<1>3. CASE StartSession
  BY <1>3, PlannedOrder
<1>4. CASE StartCustomSession
  BY <1>4, CustomOrder
<1>5. CASE Return
  BY <1>5, ReturnOrder
<1>6. CASE Grade
  BY <1>6, GradeOrder
<1>7. CASE Undo
  BY <1>7, UndoOrder
<1>8. CASE ReceiveReview
  BY <1>8, ReceiveOrder
<1>9. CASE ToggleSuspend \/ Bury \/ DeleteItem \/ RestoreItem \/ PurgeItem
  BY <1>9, LibraryOrder
<1>10. CASE UNCHANGED vars
  BY <1>10, IdleOrder
<1> QED
  BY <1>1, <1>2, <1>3, <1>4, <1>5, <1>6, <1>7, <1>8, <1>9, <1>10 DEF Next

\* Whatever is studied, undone, received or changed in the library, the log, the
\* schedules, the page and the day's sessions stay in order.
THEOREM StudyOrderInvariance == Spec => []StudyOrder
<1>1. Init => StudyOrder
  BY InitOrder
<1> QED
  BY <1>1, StepOrder, PTL DEF Spec

\* The state has its types.
LEMMA OrderTypes == ASSUME StudyOrder PROVE StudyTypeOK
<1>1. TypeInv /\ BurialTimes
  BY DEF StudyOrder
<1>2. SessionType /\ PageType /\ now \in 0 .. MaxTime /\ MaxTime \in Nat /\ now \in Nat /\ now <= MaxTime
  BY <1>1, BoundAssumption DEF TypeInv
<1>3. ASSUME NEW c \in Cards
      PROVE  cards[c].buriedUntil \in 0 .. NextDay(MaxTime) /\ cards[c].suspended \in BOOLEAN
  <2>1. cards[c].buriedUntil \in Nat /\ cards[c].suspended \in BOOLEAN
    BY <1>1, CardParts
  <2>2. cards[c].buriedUntil <= NextDay(now)
    BY <1>1 DEF BurialTimes
  <2>3. NextDay(now) <= NextDay(MaxTime) /\ NextDay(now) \in Nat /\ NextDay(MaxTime) \in Nat
    BY <1>2, DaysAreOrdered, NextDayIsLater
  <2>4. cards[c].buriedUntil \in 0 .. NextDay(MaxTime)
    BY <2>1, <2>2, <2>3
  <2> QED
    BY <2>1, <2>4
<1>4. page.open => session # NoSession
  <2>1. NoSession.kind = "none"
    BY DEF NoSession
  <2> QED
    BY <1>2, <2>1 DEF PageType
<1>5. \A n \in Notes : place[n] \in {"library", "restored", "trash", "purged"}
  BY <1>1 DEF TypeInv, Places
<1>6. page.index \in 1 .. Len(session.queue) + 1
  BY <1>2 DEF PageType
<1>7. session.kind \in {"none", "planned", "custom"} /\ IsInjective(session.queue)
  BY <1>2 DEF SessionType
<1>8. plannedAt \in 0 .. now /\ Len(reviews) + changes <= MaxSteps
  BY <1>1 DEF TypeInv
<1> QED
  BY <1>2, <1>3, <1>4, <1>5, <1>6, <1>7, <1>8 DEF StudyTypeOK

\* Where no other device reviews a card whose last review can be undone here, what
\* the scheduler knows of every card is what its surviving reviews say.
THEOREM StudyInvariance == ~Entangled => (Spec => []StudyInv)
<1> SUFFICES ASSUME ~Entangled PROVE Spec => []StudyInv
  OBVIOUS
<1>1. StudyOrder => StudyInv
  BY OrderTypes DEF StudyOrder, HistoryInv, StudyInv
<1> QED
  BY <1>1, StudyOrderInvariance, PTL

\* What is undone was not, and was reviewed here.
LEMMA UndoneIsNew ==
    ASSUME TypeInv, LogInv, Recognized, NEW r, NEW event, Undone(r, event)
    PROVE  r \in DOMAIN reviews /\ r \in Reversed' \ Reversed /\ reviews[r].device = "own"
<1>1. PICK n \in Nat : n = Len(reviews)
  BY DEF TypeInv
<1>2. r \in 1 .. Len(reviews)
  BY <1>1, UndoneGrows
<1>3. /\ event \in Events /\ event.reverses = r /\ reviews' = Append(reviews, event) /\ r \in Undoable
  BY DEF Undone
<1>4. r \notin Reversed /\ reviews[r].device # "other" /\ r \in DOMAIN reviews
  BY <1>3 DEF Undoable
<1>5. r \in Reversed'
  <2>1. event.reverses \in 0 .. Len(reviews)
    BY <1>2, <1>3
  <2>2. Reversed' = Reversed \cup {event.reverses}
    BY <1>3, <2>1, LogGrows
  <2> QED
    BY <1>3, <2>2
<1>6. reviews[r].device = "own"
  <2>1. reviews[r].device \in {"own", "other", "shared"}
    BY <1>2, EventParts DEF Events
  <2>2. reviews[r].device # "shared"
    BY <1>2 DEF LogInv
  <2> QED
    BY <1>4, <2>1, <2>2
<1> QED
  BY <1>4, <1>5, <1>6

\* Where the device tells its own reviews from those of others, an undo takes back
\* the answer the page returns to.
THEOREM UndoTakesBackTheAnswer == Recognized => (Spec => UndoFollowsPage)
<1> SUFFICES ASSUME Recognized PROVE Spec => UndoFollowsPage
  OBVIOUS
<1>1. ASSUME StudyOrder, Undo
      PROVE  \E i \in DOMAIN reviews :
                /\ i \in Reversed' \ Reversed
                /\ reviews[i].card = session.queue[page'.index]
                /\ reviews[i].device = "own"
  <2>1. TypeInv /\ LogInv /\ PageInv
    BY <1>1 DEF StudyOrder
  <2>2. PICK r, event : Undone(r, event) /\ reviews[r].card = session.queue[page'.index]
    BY <1>1, <2>1, AnswerIsUndone
  <2> QED
    BY <2>1, <2>2, UndoneIsNew
<1>2. StudyOrder => [Undo => \E i \in DOMAIN reviews :
            /\ i \in Reversed' \ Reversed
            /\ reviews[i].card = session.queue[page'.index]
            /\ reviews[i].device = "own"]_vars
  BY <1>1
<1> QED
  BY <1>2, StudyOrderInvariance, PTL DEF UndoFollowsPage

\* Where sessions are not returned to on a later day, and the reviews of others are
\* recognized and leave alone what can be undone here, the sessions of a day keep
\* its limit of new cards and the cards of a note apart.
THEOREM StudyGoesAsPlanned ==
    Recognized /\ ~Entangled /\ ~Overnight => (Spec => []StudyAsPlanned)
<1> SUFFICES ASSUME Recognized, ~Entangled, ~Overnight PROVE Spec => []StudyAsPlanned
  OBVIOUS
<1>1. StudyOrder => StudyAsPlanned
  BY DEF StudyOrder, LimitInv, ApartInv, StudyAsPlanned, SiblingsApart
<1> QED
  BY <1>1, StudyOrderInvariance, PTL
=============================================================================
