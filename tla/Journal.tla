------------------------------- MODULE Journal -------------------------------
(***************************************************************************)
(* The journal (internal/journal): a run counts every day's messages, then *)
(* has the model digest those days that have no current digest, newest     *)
(* first and no more than a cap.  A digest carries the count its run made, *)
(* and is taken for current while the day still has that count.            *)
(***************************************************************************)
EXTENDS Archive

CONSTANTS
  Writer,    \* processes that run the journal
  Prompt,    \* pairs of a model and a prompt version
  Hidden,    \* conversations the journal excludes
  MaxDays,   \* journal.max_days_per_run; 0 is no cap
  Shelf,     \* the archives an instance begins with
  Unset,
  MaxRuns,   \* bound: runs
  MaxTurns   \* bound: imports, faults and changes of the prompt together

ASSUME JournalAssumption ==
  /\ Day \subseteq Nat /\ IsFiniteSet(Day)
  /\ Hidden \subseteq Conv
  /\ MaxDays \in Nat
  /\ Shelf \subseteq SUBSET Msg
  /\ Unset \notin Prompt

VARIABLES
  prompt,   \* the model and prompt configured
  rollup,   \* journal_days.message_count; 0 is no row
  digest,   \* journal_digests: what was read, the count, the prompt; or Unset
  jrun,     \* each process's run
  turns,    \* what the bounds count
  shrunk    \* history: days that have lost a message

journalVars == <<messages, prompt, rollup, digest, jrun, turns, shrunk>>

Quiet == [pc |-> "idle", prompt |-> Unset, renew |-> FALSE, counts |-> <<>>,
          left |-> {}, todo |-> {}, day |-> Unset, lines |-> {}]

\* What a digest of day d is about: the same messages that are counted.
Lines(d) == {m \in Real(Dated(d)) : ConvOf[m] \notin Hidden}

\* The first days of S in the order of the run, as the cap allows.
Newest(S) ==
  IF MaxDays = 0 THEN S ELSE {d \in S : Cardinality({e \in S : e > d}) < MaxDays}
Oldest(S) ==
  IF MaxDays = 0 THEN S ELSE {d \in S : Cardinality({e \in S : e < d}) < MaxDays}

JournalStart ==
  /\ prompt \in Prompt
  /\ rollup = [d \in Day |-> 0]
  /\ digest = [d \in Day |-> Unset]
  /\ jrun = [w \in Writer |-> Quiet]
  /\ turns = [runs |-> 0, turns |-> 0]
  /\ shrunk = {}

JournalInit == messages \in Shelf /\ JournalStart

Does(w, e) == jrun' = [jrun EXCEPT ![w] = Changed(@, e)]
Within1(what, max) ==
  /\ turns[what] < max
  /\ turns' = [turns EXCEPT ![what] = @ + 1]

----------------------------------------------------------------------------
\* Build, Rebuild all, or the Rebuild of one day.
Begin(w) ==
  /\ jrun[w].pc = "idle"
  /\ Within1("runs", MaxRuns)
  /\ \E renew \in BOOLEAN, scope \in {Day} \union {{d} : d \in Day} :
       Does(w, [pc |-> "count", prompt |-> prompt, renew |-> renew, left |-> scope])
  /\ UNCHANGED <<messages, prompt, rollup, digest, shrunk>>

\* BuildJournalDays, BuildJournalDay: only days that have messages.
CountDays(w) ==
  /\ jrun[w].pc = "count"
  /\ LET days == {d \in jrun[w].left : Lines(d) # {}}
     IN Does(w, [pc |-> "put", left |-> days,
                 counts |-> [d \in days |-> Cardinality(Lines(d))]])
  /\ UNCHANGED <<messages, prompt, rollup, digest, turns, shrunk>>

\* PutJournalDay, one day after the other; the rows of other days stay.
PutDayCount(w) ==
  /\ jrun[w].pc = "put"
  /\ IF jrun[w].left = {}
     THEN /\ Does(w, [pc |-> "check", left |-> DOMAIN jrun[w].counts])
          /\ UNCHANGED rollup
     ELSE LET d == Greatest(jrun[w].left)
          IN /\ rollup' = [rollup EXCEPT ![d] = jrun[w].counts[d]]
             /\ Does(w, [left |-> jrun[w].left \ {d}])
  /\ UNCHANGED <<messages, prompt, digest, turns, shrunk>>

\* DigestStale: the count has changed since.
Stale(d) == digest[d].count # rollup[d]

\* digestCurrent; a Rebuild finds none current and deletes none.
DigestCurrent(w, d) ==
  /\ ~jrun[w].renew
  /\ digest[d] # Unset
  /\ digest[d].prompt = jrun[w].prompt
  /\ ~Stale(d)

Check(w) ==
  /\ jrun[w].pc = "check" /\ jrun[w].left # {}
  /\ \E d \in jrun[w].left :
       Does(w, [left |-> jrun[w].left \ {d},
                todo |-> IF DigestCurrent(w, d) THEN jrun[w].todo
                         ELSE jrun[w].todo \union {d}])
  /\ UNCHANGED <<messages, prompt, rollup, digest, turns, shrunk>>

\* The order (backfill is oldest first) and the cap.
Choose(w) ==
  /\ jrun[w].pc = "check" /\ jrun[w].left = {}
  /\ \E some \in {Newest(jrun[w].todo), Oldest(jrun[w].todo)} :
       Does(w, [pc |-> "next", todo |-> some])
  /\ UNCHANGED <<messages, prompt, rollup, digest, turns, shrunk>>

\* DayTranscript: nothing to digest if the messages have gone.
ReadTranscript(w) ==
  /\ jrun[w].pc = "next"
  /\ \E d \in jrun[w].todo :
       LET todo == jrun[w].todo \ {d}
       IN IF Lines(d) = {} THEN Does(w, [todo |-> todo])
          ELSE Does(w, [pc |-> "ask", todo |-> todo, day |-> d, lines |-> Lines(d)])
  /\ UNCHANGED <<messages, prompt, rollup, digest, turns, shrunk>>

\* Mutant: the digest takes the count that the table has now.
PutDayDigestRecount(w) ==
  /\ jrun[w].pc = "ask"
  /\ digest' = [digest EXCEPT ![jrun[w].day] =
       [read |-> jrun[w].lines, count |-> rollup[jrun[w].day], prompt |-> jrun[w].prompt]]
  /\ Does(w, [pc |-> "next", day |-> Unset, lines |-> {}])
  /\ UNCHANGED <<messages, prompt, rollup, turns, shrunk>>

\* PutDayDigest replaces a digest when there is another.  The count is the one
\* the run made when it began.
PutDayDigest(w) ==
  /\ jrun[w].pc = "ask"
  /\ digest' = [digest EXCEPT ![jrun[w].day] =
       [read |-> jrun[w].lines, count |-> jrun[w].counts[jrun[w].day],
        prompt |-> jrun[w].prompt]]
  /\ Does(w, [pc |-> "next", day |-> Unset, lines |-> {}])
  /\ UNCHANGED <<messages, prompt, rollup, turns, shrunk>>

\* An answer that is not a digest: the day waits for another run.
SkipDay(w) ==
  /\ jrun[w].pc = "ask"
  /\ Within1("turns", MaxTurns)
  /\ Does(w, [pc |-> "next", day |-> Unset, lines |-> {}])
  /\ UNCHANGED <<messages, prompt, rollup, digest, shrunk>>

JournalDone(w) ==
  /\ jrun[w].pc = "next" /\ jrun[w].todo = {}
  /\ jrun' = [jrun EXCEPT ![w] = Quiet]
  /\ UNCHANGED <<messages, prompt, rollup, digest, turns, shrunk>>

\* A transport error ends the run, as a cancellation, a kill or the store does.
JournalFails(w) ==
  /\ jrun[w].pc # "idle"
  /\ Within1("turns", MaxTurns)
  /\ jrun' = [jrun EXCEPT ![w] = Quiet]
  /\ UNCHANGED <<messages, prompt, rollup, digest, shrunk>>

----------------------------------------------------------------------------
ImportDay ==
  /\ Within1("turns", MaxTurns)
  /\ \E c \in Conv : \E S \in SUBSET {m \in Msg : ConvOf[m] = c} :
       /\ S # Within(c)
       /\ Replace(c, S)
       /\ shrunk' = shrunk \union {DayOf[m] : m \in Within(c) \ S}
  /\ UNCHANGED <<prompt, rollup, digest, jrun>>

ChangePrompt ==
  /\ Within1("turns", MaxTurns)
  /\ prompt' \in Prompt \ {prompt}
  /\ UNCHANGED <<messages, rollup, digest, jrun, shrunk>>

JournalStep(w) ==
  \/ CountDays(w) \/ PutDayCount(w) \/ Check(w) \/ Choose(w)
  \/ ReadTranscript(w) \/ PutDayDigest(w) \/ JournalDone(w)

JournalNext ==
  \/ \E w \in Writer : Begin(w) \/ JournalStep(w) \/ SkipDay(w) \/ JournalFails(w)
  \/ ImportDay \/ ChangePrompt

JournalFairness == \A w \in Writer : WF_journalVars(JournalStep(w))

JournalSpec == JournalInit /\ [][JournalNext]_journalVars /\ JournalFairness

----------------------------------------------------------------------------
(* Properties *)

JournalTypeOK ==
  /\ messages \subseteq Msg
  /\ rollup \in [Day -> 0 .. Cardinality(Msg)]
  /\ \A d \in Day : digest[d] # Unset =>
       digest[d] \in [read : SUBSET Msg, count : 1 .. Cardinality(Msg), prompt : Prompt]
  /\ \A w \in Writer : jrun[w].left \union jrun[w].todo \subseteq Day

\* A digest whose count is the day's count has read all of the day: the test of
\* DigestStale never passes an incomplete digest, although the transcript is read
\* long after the count and other runs write the same rows.  It may pass one of a
\* day that has lost a message and gained another.
CurrentMeansComplete ==
  \A d \in Day \ shrunk : digest[d] # Unset =>
    (digest[d].count = Cardinality(Lines(d)) => digest[d].read = Lines(d))

\* Every run of the journal ends.  (A part of RunsEnd.)
JournalRunsEnd == \A w \in Writer : []<>(jrun[w].pc = "idle")
=============================================================================
