------------------------------- MODULE Extract -------------------------------
(***************************************************************************)
(* The three pipelines that walk conversations behind a cursor: facts      *)
(* (internal/facts), sentiment scores (internal/sentiment) and spam        *)
(* findings (internal/spam).  They share a shape: list the conversations,  *)
(* resume each at the hash of the last message handled by the same         *)
(* generation (model and prompt, model and lexicon, or ruleset), read a    *)
(* page, derive rows from its real messages, store them and the cursor.    *)
(*                                                                         *)
(* A runner is a process that runs passes: the server or the CLI.  They    *)
(* share the database and no lock.  A behaviour is about one pipeline.     *)
(***************************************************************************)
EXTENDS Archive

CONSTANTS
  Runner,     \* processes that run passes
  Person,     \* contacts, of whom merges make fewer
  ContactOf,  \* the contact a conversation is linked to at first, or None
  Excluded,   \* conversations on journal.exclude_conversations
  Gen,        \* generations
  InitialGen, \* those configured at first
  Model,      \* the chat models of the provider
  ModelOf,    \* the chat model of a generation
  Stop,       \* outbound messages that a STOP rule matches
  PageSize,   \* messages a page holds
  Kind,       \* the pipelines an instance has
  Archived,   \* the archives an instance begins with
  None, Owner,
  MaxPasses,  \* bound: passes
  MaxEvents   \* bound: faults, imports and choices of the user together

ASSUME ExtractAssumption ==
  /\ ContactOf \in [Conv -> Person \union {None}]
  /\ Excluded \subseteq Conv
  /\ InitialGen \subseteq Gen
  /\ ModelOf \in [Gen -> Model]
  /\ Stop \subseteq Out \ System
  /\ PageSize \in Nat \ {0}
  /\ Kind \subseteq {"facts", "sentiment", "spam"}
  /\ Archived \subseteq SUBSET Msg
  /\ None \notin Person \union Gen /\ Owner \notin Person
  /\ None \notin Conv \X (Person \union {None})

VARIABLES
  kind,      \* the pipeline
  gen,       \* the configured generation
  contact,   \* conversations.contact_id
  state,     \* {fact,sentiment,spam}_state: a cursor for each conversation
  rows,      \* contact_facts, message_sentiment or spam_findings
  optedOut,  \* contact_sentiment_optout
  events,    \* spam_events of type stop_sent or notice_sent
  flagged,   \* spam_findings.is_after_optout
  run,       \* each runner's pass
  count,     \* what the bounds count
  missed,    \* history: messages, with generations, that no pass will derive
             \* from again
  declined,  \* history: conversations with a person who has opted out
  settled    \* history: the generation whose flags were computed last, unless
             \* a scan has been cut short since

extractVars == <<messages, kind, gen, contact, state, rows, optedOut, events,
                 flagged, run, count, missed, declined, settled>>

Idle == [pc |-> "idle", mode |-> None, about |-> None, gen |-> None, todo |-> {}, cur |-> None,
         pos |-> 0, page |-> {}, more |-> FALSE]

----------------------------------------------------------------------------
(* What the queries return *)

\* eligibleConversations and SpamConversations, with their contacts.
Eligible ==
  {<<c, contact[c]>> : c \in {d \in Conv \ Excluded :
     /\ Real(Within(d)) # {}
     /\ kind # "spam" => contact[d] # None}}

\* GetMessages: the first messages after the keyset position.
After(c, pos) == {m \in Within(c) : pos < m}
First(S)      == {m \in S : Cardinality({n \in S : n < m}) < PageSize}

\* The persisted cursor is anchored on the page's last real message, if any.
Anchor(page) == Greatest(IF Real(page) # {} THEN Real(page) ELSE page)

\* Facts are about the contact, scores about the sender, findings about a number.
RowOf(r, m) ==
  [msg |-> m, gen |-> run[r].gen,
   who |-> IF kind = "spam" \/ (kind = "sentiment" /\ m \in Out)
           THEN Owner ELSE run[r].cur[2]]

\* A fact that the contact already has is not inserted again.
Known(row) == kind = "facts" /\ \E f \in rows : f.msg = row.msg /\ f.who = row.who

\* Mutant: the opt-outs read when the pass began are believed to the end.
InsertedUnchecked(r, S) == {row \in {RowOf(r, m) : m \in S} : ~Known(row)}

\* The rows a transaction of runner r inserts for the messages S: none for a
\* contact who has opted out, as the insert itself checks.
Inserted(r, S) ==
  {row \in {RowOf(r, m) : m \in S} : row.who \notin optedOut /\ ~Known(row)}

Unwritten(r, S) ==
  {m \in S : RowOf(r, m).who \in optedOut} \X {run[r].gen}

\* What is_after_optout says: inbound, and later than the sender's first STOP.
AfterOptOut(row) ==
  /\ row.msg \notin Out
  /\ \E e \in events : e.conv = ConvOf[row.msg] /\ e.at < row.msg

\* Runner q walks conversation c: a day's pass has no position.
WalksIn(q, c) ==
  IF run[q].cur = None THEN FALSE ELSE run[q].cur[1] = c /\ run[q].mode # "day"

\* Where a cursor, or a pass under way, is in conversation c.
Reached(c) ==
  {state[c].anchor : x \in IF state[c] = None THEN {} ELSE {c}}
  \union UNION {run[r].page \union {run[r].pos} :
                  r \in {q \in Runner : WalksIn(q, c)}}

----------------------------------------------------------------------------
ExtractStart ==
  /\ kind \in Kind
  /\ gen \in InitialGen
  /\ contact = ContactOf
  /\ state = [c \in Conv |-> None]
  /\ rows = {} /\ optedOut = {} /\ events = {} /\ flagged = {}
  /\ run = [r \in Runner |-> Idle]
  /\ count = [passes |-> 0, events |-> 0]
  /\ missed = {} /\ declined = {} /\ settled = None

ExtractInit == messages \in Archived /\ ExtractStart

\* The pass of r goes on with the fields in e.
Goes(r, e) == run' = [run EXCEPT ![r] = Changed(@, e)]
Counted(what, max) ==
  /\ count[what] < max
  /\ count' = [count EXCEPT ![what] = @ + 1]

store    == <<messages, contact, state, rows, optedOut, events, flagged>>
history  == <<missed, declined, settled>>
settings == <<kind, gen>>

----------------------------------------------------------------------------
(* A pass *)

\* Run, RunDay, or `spam event add`, with the generation configured now.
Start(r) ==
  /\ run[r].pc = "idle"
  /\ Counted("passes", MaxPasses)
  /\ \/ /\ kind = "facts"
        /\ Goes(r, [pc |-> "reap", mode |-> "incremental", gen |-> gen])
     \/ /\ kind # "facts"
        /\ Goes(r, [pc |-> "list", mode |-> "incremental", gen |-> gen])
     \/ Goes(r, [pc |-> "reset", mode |-> "reset", gen |-> gen])
     \/ /\ kind = "sentiment"
        /\ \E d \in Day : Goes(r, [pc |-> "clear", mode |-> "day", about |-> d, gen |-> gen])
     \/ /\ kind = "spam"
        /\ \E c \in Conv : Goes(r, [pc |-> "event", mode |-> "event", about |-> c, gen |-> gen])
  /\ UNCHANGED <<store, history, settings>>

\* ReapOrphanFacts: facts that cite a message the store no longer has.  An
\* error is logged and the pass goes on.
Reap(r) ==
  /\ run[r].pc = "reap"
  /\ \/ /\ rows' = {f \in rows : f.msg \in messages}
        /\ UNCHANGED count
     \/ /\ Counted("events", MaxEvents)
        /\ UNCHANGED rows
  /\ Goes(r, [pc |-> "list"])
  /\ UNCHANGED <<messages, contact, state, optedOut, events, flagged, history, settings>>

\* The conversations that another pass has a position in, which a Reset does
\* not take from it.
Overtaken(r) == {c \in Conv : \E q \in Runner \ {r} : WalksIn(q, c)}

\* ResetFacts, ResetSentiment, ResetSpam: one transaction over the rows and the
\* cursors.  Opt-outs and the events recorded by hand are kept.
Reset(r) ==
  /\ run[r].pc = "reset"
  /\ rows' = {} /\ flagged' = {}
  /\ state' = [c \in Conv |-> None]
  /\ events' = {e \in events : e.origin = "manual"}
  /\ missed' = {m \in messages : ConvOf[m] \in Overtaken(r)} \X Gen
  /\ settled' = None
  /\ Goes(r, [pc |-> "list"])
  /\ UNCHANGED <<messages, contact, optedOut, count, declined, settings>>

\* FactConversations, SentimentConversations, SpamConversations.
List(r) ==
  /\ run[r].pc = "list"
  /\ Goes(r, [pc |-> IF kind = "sentiment" THEN "filter" ELSE "next",
              todo |-> Eligible])
  /\ UNCHANGED <<store, count, history, settings>>

\* Opt-outs are read once, before any message is.
Filter(r) ==
  /\ run[r].pc = "filter"
  /\ Goes(r, [pc |-> "next",
              todo |-> {p \in run[r].todo : p[2] \notin optedOut}])
  /\ UNCHANGED <<store, count, history, settings>>

\* A worker takes a conversation, and reads its cursor; it is no use if it is
\* another generation's.
Load(r) ==
  /\ run[r].pc = "next" /\ run[r].mode # "day"
  /\ \E p \in run[r].todo :
       LET s == state[p[1]]
           resumes == IF s = None THEN FALSE ELSE s.gen = run[r].gen
       IN Goes(r, [pc |-> IF resumes THEN "resolve" ELSE "page",
                   todo |-> run[r].todo \ {p}, cur |-> p, page |-> {},
                   pos |-> IF resumes THEN s.anchor ELSE 0])
  /\ UNCHANGED <<store, count, history, settings>>

\* ResolveCursor: from the top if the message has gone.
Resolve(r) ==
  /\ run[r].pc = "resolve"
  /\ Goes(r, [pc |-> "page",
              pos |-> IF run[r].pos \in Within(run[r].cur[1]) THEN run[r].pos ELSE 0])
  /\ UNCHANGED <<store, count, history, settings>>

Leaving    == [pc |-> "next", cur |-> None, pos |-> 0, page |-> {}, more |-> FALSE]
LeavingDay == [pc |-> "next", cur |-> None]

\* GetMessages.  A page without real messages asks nothing of the model; the
\* spam rules are applied in memory.
ReadPage(r) ==
  /\ run[r].pc = "page"
  /\ LET ahead == After(run[r].cur[1], run[r].pos)
         page  == First(ahead)
     IN Goes(r, IF page = {} THEN Leaving
                ELSE [pc |-> IF kind # "spam" /\ Real(page) # {} THEN "ask" ELSE "put",
                      page |-> page,
                      more |-> IF kind = "spam" THEN Cardinality(page) = PageSize
                               ELSE page # ahead])
  /\ UNCHANGED <<store, count, history, settings>>

\* The model that the request names.  Facts name their generation.
Requested(r) == IF kind = "facts" THEN run[r].gen ELSE ModelOf[run[r].gen]

\* The model answers with something for every message.
Answered(r) ==
  /\ run[r].pc = "ask"
  /\ Goes(r, [pc |-> "put"])
  /\ UNCHANGED <<store, count, history, settings>>

\* An answer that cannot be parsed: the page yields nothing, and is passed.  In
\* a day's pass it ends the conversation.
Unparseable(r) ==
  /\ run[r].pc = "ask"
  /\ Counted("events", MaxEvents)
  /\ missed' = missed \union (Real(run[r].page) \X {run[r].gen})
  /\ Goes(r, IF run[r].mode = "day" THEN LeavingDay ELSE [pc |-> "advance"])
  /\ UNCHANGED <<store, declined, settled, settings>>

\* Mutant: an error is taken for an answer without anything to derive.
RefusedPassed(r) ==
  /\ run[r].pc = "ask" /\ run[r].mode # "day"
  /\ Counted("events", MaxEvents)
  /\ Goes(r, [pc |-> "advance"])
  /\ UNCHANGED <<store, history, settings>>

\* A transport error: the cursor stays.  It ends the facts pass, but only the
\* conversation of a sentiment pass.
Refused(r) ==
  /\ run[r].pc = "ask"
  /\ Counted("events", MaxEvents)
  /\ run' = [run EXCEPT ![r] = 
              CASE kind = "facts" -> Idle
                [] run[r].mode = "day" -> Changed(@, LeavingDay)
                [] OTHER -> Changed(@, Leaving)]
  /\ UNCHANGED <<store, history, settings>>

Cursor(r) == [state EXCEPT ![run[r].cur[1]] =
                [anchor |-> Anchor(run[r].page), gen |-> run[r].gen]]

\* Mutant: the next page is read from where this one was.
NextPageAgain(r) ==
  IF run[r].more THEN Goes(r, [pc |-> "page", page |-> {}]) ELSE Goes(r, Leaving)

\* The in-memory position moves past the whole page.
NextPage(r) ==
  IF run[r].more
  THEN Goes(r, [pc |-> "page", pos |-> Greatest(run[r].page), page |-> {}])
  ELSE Goes(r, Leaving)

\* A contact exists: merges delete the contact whose conversations they move.
Exists(p) == \E c \in Conv : contact[c] = p

\* PutFactNearDupAware: each fact in a transaction of its own.
PutFact(r) ==
  /\ run[r].pc = "put" /\ kind = "facts"
  /\ Exists(run[r].cur[2])
  /\ \E row \in Inserted(r, Real(run[r].page)) : rows' = rows \union {row}
  /\ UNCHANGED <<messages, contact, state, optedOut, events, flagged, run, count,
                 history, settings>>

\* The foreign key refuses a fact about a contact merged away meanwhile.
FactRefused(r) ==
  /\ run[r].pc = "put" /\ kind = "facts"
  /\ ~Exists(run[r].cur[2]) /\ Real(run[r].page) # {}
  /\ run' = [run EXCEPT ![r] = Idle]
  /\ UNCHANGED <<store, count, history, settings>>

FactsPut(r) ==
  /\ run[r].pc = "put" /\ kind = "facts"
  /\ Inserted(r, Real(run[r].page)) = {}
  /\ Goes(r, [pc |-> "advance"])
  /\ UNCHANGED <<store, count, history, settings>>

\* SetFactState; for scores, the transaction of a page that yields none.
Advance(r) ==
  /\ run[r].pc = "advance"
  /\ state' = Cursor(r)
  /\ NextPage(r)
  /\ UNCHANGED <<messages, contact, rows, optedOut, events, flagged, count, history, settings>>

\* PutSentimentBatch, PutSpamBatch: rows, events and cursor in one transaction.
Commit(r) ==
  /\ run[r].pc = "put" /\ kind # "facts" /\ run[r].mode # "day"
  /\ rows' = rows \union Inserted(r, Real(run[r].page))
  /\ events' = events \union
       {[conv |-> ConvOf[m], at |-> m, origin |-> "scan"] :
          m \in IF kind = "spam" THEN run[r].page \intersect Stop ELSE {}}
  /\ state' = Cursor(r)
  /\ missed' = missed \union Unwritten(r, Real(run[r].page))
  /\ NextPage(r)
  /\ UNCHANGED <<messages, contact, optedOut, flagged, count, declined, settled, settings>>

----------------------------------------------------------------------------
(* The pass over one day's scores (RunDay): it has no cursor *)

\* DeleteSentimentForDay: the day's scores of this generation.
ClearDay(r) ==
  /\ run[r].pc = "clear"
  /\ rows' = {f \in rows : f.gen # run[r].gen \/ DayOf[f.msg] # run[r].about}
  /\ missed' = missed \union {<<f.msg, f.gen>> : f \in rows \ rows'}
  /\ Goes(r, [pc |-> "readDay"])
  /\ UNCHANGED <<messages, contact, state, optedOut, events, flagged, count,
                 declined, settled, settings>>

\* MessagesForDay, which leaves out who has opted out, and the conversations.
ReadDay(r) ==
  /\ run[r].pc = "readDay"
  /\ LET heard == {p \in Eligible : p[2] \notin optedOut}
         day   == {m \in Real(Dated(run[r].about)) : \E p \in heard : p[1] = ConvOf[m]}
     IN Goes(r, [pc |-> "next", page |-> day,
                 todo |-> {p \in Eligible : \E m \in day : ConvOf[m] = p[1]}])
  /\ UNCHANGED <<store, count, history, settings>>

\* The day's messages of one conversation go to the model.
AskDay(r) ==
  /\ run[r].pc = "next" /\ run[r].mode = "day"
  /\ \E p \in run[r].todo :
       Goes(r, [pc |-> "ask", cur |-> p, todo |-> run[r].todo \ {p}])
  /\ UNCHANGED <<store, count, history, settings>>

\* PutSentimentScores, with the same guard on opt-outs.
PutDay(r) ==
  /\ run[r].pc = "put" /\ run[r].mode = "day"
  /\ LET batch == {m \in run[r].page : ConvOf[m] = run[r].cur[1]}
     IN /\ rows' = rows \union Inserted(r, batch)
        /\ missed' = (missed \ (batch \X {run[r].gen})) \union Unwritten(r, batch)
  /\ Goes(r, LeavingDay)
  /\ UNCHANGED <<messages, contact, state, optedOut, events, flagged, count,
                 declined, settled, settings>>

----------------------------------------------------------------------------
(* The ends of a pass *)

\* Mutant: a manual event leaves the flags to the next scan.
AddEventOnly(r) ==
  /\ run[r].pc = "event"
  /\ \E at \in {m \in Msg : ConvOf[m] = run[r].about} :
       events' = events \union {[conv |-> run[r].about, at |-> at, origin |-> "manual"]}
  /\ run' = [run EXCEPT ![r] = Idle]
  /\ UNCHANGED <<messages, contact, state, rows, optedOut, flagged, count, history, settings>>

\* AddSpamEvent, then a recomputation in a statement of its own.
AddEvent(r) ==
  /\ run[r].pc = "event"
  /\ \E at \in {m \in Msg : ConvOf[m] = run[r].about} :
       events' = events \union {[conv |-> run[r].about, at |-> at, origin |-> "manual"]}
  /\ Goes(r, [pc |-> "next"])
  /\ UNCHANGED <<messages, contact, state, rows, optedOut, flagged, count, history, settings>>

\* RecomputeSpamAfterOptOut rewrites the flags of its generation.
Recompute(r) ==
  /\ run[r].pc = "next" /\ run[r].todo = {} /\ kind = "spam"
  /\ flagged' = {<<f.msg, f.gen>> : f \in {g \in rows :
                   IF g.gen = run[r].gen THEN AfterOptOut(g)
                   ELSE <<g.msg, g.gen>> \in flagged}}
  /\ settled' = run[r].gen
  /\ run' = [run EXCEPT ![r] = Idle]
  /\ UNCHANGED <<messages, contact, state, rows, optedOut, events, count, missed,
                 declined, settings>>

Finish(r) ==
  /\ run[r].pc = "next" /\ run[r].todo = {} /\ kind # "spam"
  /\ run' = [run EXCEPT ![r] = Idle]
  /\ UNCHANGED <<store, count, history, settings>>

\* Killed, cancelled, or an error of the store: what is committed stays.
CutShort(r) ==
  /\ run[r].pc # "idle"
  /\ Counted("events", MaxEvents)
  /\ run' = [run EXCEPT ![r] = Idle]
  /\ settled' = None
  /\ UNCHANGED <<store, missed, declined, settings>>

----------------------------------------------------------------------------
(* What others do meanwhile *)

\* An importer replaces a conversation's messages.  What it dates before a
\* position that has been reached is behind it.
Import ==
  /\ Counted("events", MaxEvents)
  /\ \E c \in Conv :
     \E S \in SUBSET {m \in Msg : ConvOf[m] = c} :
       /\ S # Within(c)
       /\ Replace(c, S)
       /\ missed' = missed \union
            ({m \in S \ Within(c) : \E n \in Reached(c) : m <= n} \X Gen)
  /\ UNCHANGED <<contact, state, rows, optedOut, events, flagged, run, declined,
                 settled, settings>>

\* Settings: another model, lexicon or ruleset.  A pass keeps the one it began with.
Configure ==
  /\ Counted("events", MaxEvents)
  /\ gen' \in Gen \ {gen}
  /\ UNCHANGED <<store, kind, run, history>>

\* SetSentimentOptOut: the scores go and the mark comes in one transaction.
OptOut ==
  /\ kind = "sentiment"
  /\ Counted("events", MaxEvents)
  /\ \E p \in {q \in Person \ optedOut : Exists(q)} :
       /\ optedOut' = optedOut \union {p}
       /\ rows' = {f \in rows : f.who # p}
       /\ missed' = missed \union {<<f.msg, f.gen>> : f \in rows \ rows'}
       /\ declined' = declined \union {c \in Conv : contact[c] = p}
  /\ UNCHANGED <<messages, contact, state, events, flagged, run, settled, settings>>

OptIn ==
  /\ kind = "sentiment"
  /\ Counted("events", MaxEvents)
  /\ \E p \in {q \in optedOut : Exists(q)} :
       /\ optedOut' = optedOut \ {p}
       /\ declined' = {c \in declined : contact[c] # p}
  /\ UNCHANGED <<messages, contact, state, rows, events, flagged, run, missed,
                 settled, settings>>

\* unionContacts moves conversations and facts to the winner, and nothing else.
Merge ==
  /\ Counted("events", MaxEvents)
  /\ \E winner, loser \in Person :
       /\ winner # loser /\ Exists(winner) /\ Exists(loser)
       /\ contact' = [c \in Conv |-> IF contact[c] = loser THEN winner ELSE contact[c]]
       /\ rows' = IF kind # "facts" THEN rows
                  ELSE {[f EXCEPT !.who = IF @ = loser THEN winner ELSE @] : f \in rows}
  /\ UNCHANGED <<messages, state, optedOut, events, flagged, run, history, settings>>

----------------------------------------------------------------------------
Step(r) ==
  \/ Reap(r) \/ Reset(r) \/ List(r) \/ Filter(r) \/ Load(r) \/ Resolve(r)
  \/ ReadPage(r) \/ Answered(r) \/ PutFact(r) \/ FactRefused(r) \/ FactsPut(r)
  \/ Advance(r) \/ Commit(r) \/ ClearDay(r) \/ ReadDay(r) \/ AskDay(r) \/ PutDay(r)
  \/ AddEvent(r) \/ Recompute(r) \/ Finish(r)

Fault(r) == Unparseable(r) \/ Refused(r) \/ CutShort(r)
Others   == Import \/ Configure \/ OptOut \/ OptIn \/ Merge

ExtractNext == (\E r \in Runner : Start(r) \/ Step(r) \/ Fault(r)) \/ Others

\* A pass that has begun goes on.  Nobody has to begin one.
ExtractFairness == \A r \in Runner : WF_extractVars(Step(r))

ExtractSpec == ExtractInit /\ [][ExtractNext]_extractVars /\ ExtractFairness

----------------------------------------------------------------------------
(* Properties *)

Passes == [pc : {"idle", "reap", "reset", "list", "filter", "next", "resolve",
                 "page", "ask", "put", "advance", "clear", "readDay", "event"},
           mode : {"incremental", "reset", "day", "event", None},
           about : Day \union Conv \union {None},
           gen : Gen \union {None}, todo : SUBSET (Conv \X (Person \union {None})),
           cur : (Conv \X (Person \union {None})) \union {None},
           pos : Msg \union {0}, page : SUBSET Msg, more : BOOLEAN]

ExtractTypeOK ==
  /\ messages \subseteq Msg
  /\ gen \in Gen
  /\ \A c \in Conv : state[c] # None => state[c] \in [anchor : Msg, gen : Gen]
  /\ rows \subseteq [msg : Msg, gen : Gen, who : Person \union {Owner}]
  /\ run \in [Runner -> Passes]

\* A message has been derived from: a fact counts whatever generation found it.
Derived(m, g) == \E f \in rows : f.msg = m /\ (kind = "facts" \/ f.gen = g)

\* Nothing is passed over: when a cursor can be resumed, every real message at
\* or before it has its row, unless it came behind the position, was removed by an
\* opt-out or a day's pass, met an unparseable answer, or a Reset overtook a pass.
\* (facts.go, sentiment/run.go and spam/run.go resume after crashes, transport
\* errors, model swaps and re-imports on the strength of the cursor alone.)
CursorCovers ==
  \A c \in Conv : state[c] # None =>
    (state[c].anchor \in Within(c) =>
       \A m \in Real(Within(c)) : m <= state[c].anchor =>
         Derived(m, state[c].gen) \/ <<m, state[c].gen>> \in missed)

\* Nobody who has opted out has scores, whatever passes were under way.
\* (PutSentimentBatch checks again in its transaction.)
OptOutHolds == kind = "sentiment" => \A f \in rows : f.who \notin optedOut

\* Once every scan has ended and none was cut short, the flags of the generation
\* scanned last are right, even of messages found long before the STOP.
\* (RecomputeSpamAfterOptOut is wholesale for this.)
FlagsAreCurrent ==
  (kind = "spam" /\ settled # None /\ \A r \in Runner : run[r].pc = "idle") =>
    \A f \in rows : f.gen = settled => (AfterOptOut(f) <=> <<f.msg, f.gen>> \in flagged)

\* Every pass ends, whatever is imported while it walks.
PassesEnd == \A r \in Runner : []<>(run[r].pc = "idle")

\* A person who has opted out is not scored again.  (The comment of
\* contact_sentiment_optout says which direction it must never fail in.)
OptedOutPersonUnscored ==
  kind = "sentiment" =>
    \A f \in rows : ConvOf[f.msg] \in declined => f.msg \in Out
=============================================================================
