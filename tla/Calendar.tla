------------------------------ MODULE Calendar -------------------------------
(***************************************************************************)
(* The journal page: a month of days, tinted by mood, and the card of the  *)
(* day that is selected (internal/web/journal.go, journalmood.go and        *)
(* internal/store/journal_calendar.go), while the journal is built, days    *)
(* are scored, and messages come.  The page is put together from several    *)
(* reads of the database, between which others write.                      *)
(*                                                                         *)
(* A day is <<year, month, day of the month>>.                             *)
(***************************************************************************)
EXTENDS Absent, Integers, Sequences, FiniteSets, SequencesExt, FiniteSetsExt

CONSTANTS
  Date,       \* the days that may have messages
  Asked,      \* what a request may ask for: [day, year, month]
  Moods,      \* journal.Moods
  Feeling,    \* what a digest or a fold of scores may say of a day
  ScoreModel, \* the generations of sentiment scores
  MaxWrites   \* bound

VARIABLES
  journalDays, \* journal_days, day -> message count
  digests,     \* journal_digests, day -> [mood, count]
  dayScores,   \* the fold of each generation's scores, generation -> day -> mood
  lastScored,  \* the generation that was scored last, or None
  configured,  \* the generation of the configured model
  calendar,    \* the page: its request, what is rendered, and the step it is at
  writes

calendarVars == <<journalDays, digests, dayScores, lastScored, configured, calendar, writes>>

-----------------------------------------------------------------------------
(* Go's calendar (package time).                                           *)

\* The number of a day, counted so that a Sunday's is 6 modulo 7.
DayNumber(date) ==
  LET a == (14 - date[2]) \div 12
      y == date[1] + 4800 - a
      m == date[2] + 12 * a - 3
  IN date[3] + (153 * m + 2) \div 5 + 365 * y + y \div 4 - y \div 100 + y \div 400 - 32045

Weekday(date) == (DayNumber(date) + 1) % 7

\* The month that is some months away.
AddMonths(year, month, delta) ==
  LET n == year * 12 + month - 1 + delta IN <<n \div 12, (n % 12) + 1>>

FirstOf(year, month) == <<year, month, 1>>
DaysIn(year, month) ==
  LET next == AddMonths(year, month, 1)
  IN DayNumber(FirstOf(next[1], next[2])) - DayNumber(FirstOf(year, month))

-----------------------------------------------------------------------------
(* Days and requests are dates of the calendar.                            *)

IsDate(d) == d \in Nat \X (1 .. 12) \X Nat /\ d[3] \in 1 .. DaysIn(d[1], d[2])

ASSUME DateAssumption ==
  /\ None \notin Nat \X Nat \X Nat
  /\ \A d \in Date : IsDate(d)
  /\ \A asked \in Asked :
       /\ asked.day = None \/ IsDate(asked.day)
       /\ asked.year \in Int \union {None} /\ asked.month \in Int \union {None}

-----------------------------------------------------------------------------
(* Reading the journal.                                                    *)

\* Days are texts, which are ordered as the days are: ORDER BY day.
Earlier(a, b) ==
  \/ a[1] < b[1]
  \/ a[1] = b[1] /\ (a[2] < b[2] \/ (a[2] = b[2] /\ a[3] < b[3]))

\* The days in their order: the i-th is the one that i - 1 come before.
Chronological(days) ==
  [i \in 1 .. Cardinality(days) |-> CHOOSE d \in days : Cardinality({e \in days : Earlier(e, d)}) = i - 1]

Latest(days) == CHOOSE d \in days : \A e \in days : ~Earlier(d, e)

InYear(year) == {d \in DOMAIN journalDays : d[1] = year}
JournalMonth(year, month) == {d \in InYear(year) : d[2] = month}

moodClass(mood) == IF mood \in Moods THEN mood ELSE None

DigestMood(day) == IF day \in DOMAIN digests THEN digests[day].mood ELSE None

\* A digest that does not say how many messages it was made of is never stale.
DigestStale(day) ==
  /\ day \in DOMAIN digests
  /\ digests[day].count > 0
  /\ digests[day].count # journalDays[day]

\* The longest run of days, each of which is the one after the last.
longestStreak(days) ==
  LET run[i \in 1 .. Len(days)] ==
        IF i > 1 /\ DayNumber(days[i]) = DayNumber(days[i - 1]) + 1 THEN run[i - 1] + 1 ELSE 1
  IN Max({run[i] : i \in 1 .. Len(days)} \union {0})

JournalStats(year) ==
  [days |-> Cardinality(InYear(year)), streak |-> longestStreak(Chronological(InYear(year)))]

\* The generation that ran last, whatever is configured now.
monthSentimentMoods(year, month) ==
  IF lastScored = None THEN <<>>
  ELSE [d \in {e \in DOMAIN dayScores[lastScored] : e[1] = year /\ e[2] = month} |->
          dayScores[lastScored][d]]

Inferred(moods, day) == IF day \in DOMAIN moods THEN moods[day] ELSE None

-----------------------------------------------------------------------------
(* The page.                                                               *)

\* The day that a request selects: the one it names, the newest, the newest of
\* the year it names; with a month, none.
SelectedDay(asked) ==
  CASE asked.day # None -> asked.day
    [] asked.day = None /\ asked.year = None -> Latest(DOMAIN journalDays)
    [] asked.day = None /\ asked.year # None /\ asked.month = None /\ InYear(asked.year) # {} ->
         Latest(InYear(asked.year))
    [] OTHER -> None

\* The month of the selected day, the one that the request names, or the newest.
journalContext(day, yearQ, monthQ, latest) ==
  CASE day # None -> <<day[1], day[2]>>
    [] day = None /\ yearQ # None /\ yearQ \in 1970 .. 9999 ->
         <<yearQ, IF monthQ # None /\ monthQ \in 1 .. 12 THEN monthQ ELSE 1>>
    [] OTHER -> <<latest[1], latest[2]>>

\* The tint of a cell: the digest's mood, or else the mood of the scores, or none;
\* a mood that is not known is none.
cellTint(digestMood, inferred) ==
  CASE moodClass(digestMood) # None -> [mood |-> moodClass(digestMood), inferred |-> FALSE]
    [] moodClass(digestMood) = None /\ moodClass(inferred) # None ->
         [mood |-> moodClass(inferred), inferred |-> TRUE]
    [] OTHER -> [mood |-> None, inferred |-> FALSE]

\* Mutant: a digest's mood is printed whether it is known or not.
cardTintUnchecked(digestMood, inferred) ==
  IF digestMood # None THEN [mood |-> digestMood, inferred |-> FALSE]
  ELSE [mood |-> moodClass(inferred), inferred |-> moodClass(inferred) # None]

\* The chip of a card.
cardTint(digestMood, inferred) ==
  IF moodClass(digestMood) # None THEN [mood |-> digestMood, inferred |-> FALSE]
  ELSE [mood |-> moodClass(inferred), inferred |-> moodClass(inferred) # None]

BlankCell == [dom |-> 0]

\* A cell for every day of the month under its weekday, Sunday first, and blank
\* ones up to whole weeks.
buildMonthGrid(year, month, selected, moods) ==
  LET cell(dom) ==
        LET day == <<year, month, dom>>
            has == day \in DOMAIN journalDays
        IN [dom |-> dom, selected |-> day = selected,
            count |-> IF has THEN journalDays[day] ELSE 0,
            tint |-> IF has THEN cellTint(DigestMood(day), Inferred(moods, day)) ELSE None,
            stale |-> has /\ DigestStale(day)]
      leading == Weekday(FirstOf(year, month))
      all == [i \in 1 .. leading |-> BlankCell] \o [dom \in 1 .. DaysIn(year, month) |-> cell(dom)]
  IN all \o [i \in 1 .. (7 - (Len(all) % 7)) % 7 |-> BlankCell]

buildDayCard(day, moods) ==
  [day |-> day, count |-> journalDays[day],
   tint |-> cardTint(DigestMood(day), Inferred(moods, day)), stale |-> DigestStale(day)]

monthNavURL(year, month, delta) == AddMonths(year, month, delta)

NoPage == [step |-> "none", torn |-> FALSE]

CalendarInit ==
  /\ journalDays = <<>> /\ digests = <<>>
  /\ dayScores = [g \in ScoreModel |-> <<>>]
  /\ lastScored = None
  /\ configured \in ScoreModel
  /\ calendar = NoPage
  /\ writes = 0

\* What a write does to a page that is being put together.
Written ==
  /\ writes < MaxWrites
  /\ writes' = writes + 1
  /\ calendar.step # "done"
  /\ calendar' = [calendar EXCEPT !.torn = calendar.step = "grid"]

Put(f, x, value) == [y \in DOMAIN f \union {x} |-> IF y = x THEN value ELSE f[y]]

\* A rollup counts a day's messages, or finds that it has none any more; its
\* digest stays behind.
BuildJournalDay(day) ==
  /\ Written
  /\ \/ \E n \in 1 .. 2 : journalDays' = Put(journalDays, day, n)
     \/ journalDays' = [d \in DOMAIN journalDays \ {day} |-> journalDays[d]]
  /\ UNCHANGED <<digests, dayScores, lastScored, configured>>

\* A digest of the messages that are counted; old ones have no count.
PutJournalDigest(day) ==
  /\ Written
  /\ day \in DOMAIN journalDays
  /\ \E mood \in Feeling, count \in {0, journalDays[day]} :
       digests' = Put(digests, day, [mood |-> mood, count |-> count])
  /\ UNCHANGED <<journalDays, dayScores, lastScored, configured>>

\* Scores of the configured generation, whose cursor is the last one moved.
ScoreDay(day) ==
  /\ Written
  /\ \E mood \in Feeling : dayScores' = [dayScores EXCEPT ![configured] = Put(@, day, mood)]
  /\ lastScored' = configured
  /\ UNCHANGED <<journalDays, digests, configured>>

SwitchScoreModel ==
  /\ Written
  /\ \E g \in ScoreModel \ {configured} : configured' = g
  /\ UNCHANGED <<journalDays, digests, dayScores, lastScored>>

\* The month: which it is, its days, their numbers and moods.
renderJournalGrid(asked) ==
  /\ calendar.step = "none"
  /\ DOMAIN journalDays # {}
  /\ LET day == SelectedDay(asked)
         ym == journalContext(day, asked.year, asked.month, Latest(DOMAIN journalDays))
         moods == monthSentimentMoods(ym[1], ym[2])
     IN calendar' = [step |-> "grid", torn |-> FALSE, asked |-> asked, day |-> day, ym |-> ym,
                     moods |-> moods, grid |-> buildMonthGrid(ym[1], ym[2], day, moods),
                     stats |-> JournalStats(ym[1]), inYear |-> InYear(ym[1]),
                     prev |-> monthNavURL(ym[1], ym[2], -1), next |-> monthNavURL(ym[1], ym[2], 1),
                     card |-> None, strip |-> None]
  /\ UNCHANGED <<journalDays, digests, dayScores, lastScored, configured, writes>>

\* The card of the selected day, if there is such a day, with the moods that were
\* read for the month, and the strip of the configured generation's scores.
renderJournalCard ==
  /\ calendar.step = "grid"
  /\ calendar' =
       [calendar EXCEPT
         !.step = "done",
         !.card = IF calendar.day \in DOMAIN journalDays THEN buildDayCard(calendar.day, calendar.moods)
                  ELSE None,
         !.strip = IF calendar.day \in DOMAIN journalDays THEN Inferred(dayScores[configured], calendar.day)
                   ELSE None]
  /\ UNCHANGED <<journalDays, digests, dayScores, lastScored, configured, writes>>

CalendarNext ==
  \/ \E day \in Date : BuildJournalDay(day)
  \/ \E day \in Date : PutJournalDigest(day)
  \/ \E day \in Date : ScoreDay(day)
  \/ SwitchScoreModel
  \/ \E asked \in Asked : renderJournalGrid(asked)
  \/ renderJournalCard

CalendarSpec == CalendarInit /\ [][CalendarNext]_calendarVars

-----------------------------------------------------------------------------
\* The calendar is one: every day of the month is there once, under its weekday;
\* the selected day is in it, and no other is marked; its card says what its cell
\* says, mood, where the mood is from, number and staleness, unless the database
\* was written between the two reads; the strip agrees with them about a mood that
\* comes from the scores, unless the model was changed since; and from the next
\* month one comes back.
CalendarAgrees ==
  calendar.step = "done" =>
    LET grid == calendar.grid
        ym == calendar.ym
        cells(dom) == {i \in DOMAIN grid : grid[i].dom = dom}
        marked == {i \in DOMAIN grid : grid[i].dom # 0 /\ grid[i].selected}
        cell == grid[CHOOSE i \in marked : TRUE]
    IN /\ Len(grid) % 7 = 0
       /\ \A dom \in 1 .. DaysIn(ym[1], ym[2]) : \E i \in DOMAIN grid :
            cells(dom) = {i} /\ (i - 1) % 7 = Weekday(<<ym[1], ym[2], dom>>)
       /\ IF calendar.day = None THEN marked = {}
          ELSE Cardinality(marked) = 1 /\ cell.dom = calendar.day[3]
       /\ ~calendar.torn /\ calendar.card # None =>
            /\ cell.tint = calendar.card.tint
            /\ cell.stale = calendar.card.stale /\ cell.count = calendar.card.count
            /\ calendar.card.tint.inferred /\ configured = lastScored =>
                 calendar.strip = calendar.card.tint.mood
       /\ AddMonths(calendar.next[1], calendar.next[2], -2) = calendar.prev

\* The streak is the longest run of days on end that the year has.
StreakIsLongest ==
  calendar.step # "none" =>
    LET numbers == {DayNumber(d) : d \in calendar.inYear}
        runs == {n \in 0 .. Cardinality(numbers) :
                   n = 0 \/ \E x \in numbers : x .. x + n - 1 \subseteq numbers}
    IN calendar.stats.streak = Max(runs)

\* What the page shows of a month is true of it.
CalendarHolds == CalendarAgrees /\ StreakIsLongest
=============================================================================
