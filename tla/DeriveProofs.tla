---------------------------- MODULE DeriveProofs -----------------------------
(***************************************************************************)
(* Proofs about what is derived from the archive.  Extract: for any        *)
(* archive, contacts, generations and number of processes and passes.      *)
(* Journal: for any archive, prompts and number of processes and runs.     *)
(* Client, which the runs call: for any callers, answers and numbers of    *)
(* the retry.                                                              *)
(***************************************************************************)
EXTENDS Extract, Journal, Client, FiniteSetTheorems, WellFoundedInduction, TLAPS

\* A transaction of scores leaves out whoever has opted out by then.
LEMMA InsertedHeard ==
  ASSUME NEW r, NEW S
  PROVE  \A row \in Inserted(r, S) : row.who \notin optedOut
BY DEF Inserted

LEMMA StepsKeepOptOut ==
  ASSUME OptOutHolds, NEW r \in Runner, Start(r) \/ Step(r) \/ Fault(r)
  PROVE  OptOutHolds'
<1> USE DEF OptOutHolds
<1>1. CASE \/ Start(r) \/ List(r) \/ Filter(r) \/ Load(r) \/ Resolve(r) \/ ReadPage(r)
           \/ Answered(r) \/ FactRefused(r) \/ FactsPut(r) \/ Advance(r) \/ ReadDay(r)
           \/ AskDay(r) \/ AddEvent(r) \/ Recompute(r) \/ Finish(r) \/ Fault(r)
  <2>1. UNCHANGED <<kind, rows, optedOut>>
    BY <1>1 DEF Start, List, Filter, Load, Resolve, ReadPage, Answered, FactRefused,
                FactsPut, Advance, ReadDay, AskDay, AddEvent, Recompute, Finish, Fault,
                Unparseable, Refused, CutShort, store, settings
  <2> QED
    BY <2>1
\* Rows go.
<1>2. CASE Reap(r) \/ Reset(r) \/ ClearDay(r)
  <2>1. rows' \subseteq rows /\ UNCHANGED <<kind, optedOut>>
    BY <1>2 DEF Reap, Reset, ClearDay, settings
  <2> QED
    BY <2>1
\* Rows come, of people who have not opted out.
<1>3. CASE PutFact(r) \/ Commit(r) \/ PutDay(r)
  <2>1. /\ UNCHANGED <<kind, optedOut>>
        /\ \E S : rows' \subseteq rows \union Inserted(r, S)
    BY <1>3 DEF PutFact, Commit, PutDay, settings
  <2> QED
    BY <2>1, InsertedHeard
<1> QED
  BY <1>1, <1>2, <1>3 DEF Step

LEMMA OthersKeepOptOut ==
  ASSUME OptOutHolds, Others
  PROVE  OptOutHolds'
<1> USE DEF OptOutHolds
<1>1. CASE Import \/ Configure
  BY <1>1 DEF Import, Configure, store, settings
<1>2. CASE OptOut
  BY <1>2 DEF OptOut, settings
<1>3. CASE OptIn
  BY <1>3 DEF OptIn, settings
\* A merge leaves scores with the contact that is gone: only facts move.
<1>4. CASE Merge
  BY <1>4 DEF Merge, settings
<1> QED
  BY <1>1, <1>2, <1>3, <1>4 DEF Others

\* Nobody who has opted out has scores: the opt-out deletes them in the transaction
\* that records it, and each transaction of a pass that was under way looks again.
\* (SetSentimentOptOut, PutSentimentBatch and PutSentimentScores of store/sentiment.go.)
THEOREM OptOutKept == ExtractSpec => []OptOutHolds
<1>1. ExtractInit => OptOutHolds
  BY DEF ExtractInit, ExtractStart, OptOutHolds
<1>2. OptOutHolds /\ [ExtractNext]_extractVars => OptOutHolds'
  <2> SUFFICES ASSUME OptOutHolds, [ExtractNext]_extractVars PROVE OptOutHolds'
    OBVIOUS
  <2>1. CASE ExtractNext
    BY <2>1, StepsKeepOptOut, OthersKeepOptOut DEF ExtractNext
  <2>2. CASE UNCHANGED extractVars
    BY <2>2 DEF extractVars, OptOutHolds
  <2> QED
    BY <2>1, <2>2
<1> QED
  BY <1>1, <1>2, PTL DEF ExtractSpec
-----------------------------------------------------------------------------
(* Pages *)

LEMMA GreatestIs ==
  ASSUME NEW S \in SUBSET Msg, S # {}
  PROVE  Greatest(S) \in S /\ \A n \in S : n <= Greatest(S)
<1> DEFINE Above(m) == {n \in S : n > m}
           Counts   == {Cardinality(Above(m)) : m \in S}
<1>0. \A m \in S : m \in Nat
  BY ArchiveAssumption
<1>1. \A m \in S : IsFiniteSet(Above(m)) /\ Cardinality(Above(m)) \in Nat
  <2> TAKE m \in S
  <2>1. Above(m) \subseteq Msg
    OBVIOUS
  <2> QED
    BY <2>1, FS_Subset, FS_CardinalityType, ArchiveAssumption
<1>2. Counts \subseteq Nat /\ Counts # {}
  BY <1>1
<1>3. PICK k \in Counts : \A j \in Counts : ~(<<j, k>> \in OpToRel(<, Nat))
  BY <1>2, NatLessThanWellFounded, WFMin
<1>4. PICK m \in S : k = Cardinality(Above(m))
  OBVIOUS
<1>5. \A n \in S : n <= m
  <2> SUFFICES ASSUME NEW n \in S, n > m PROVE FALSE
    BY <1>0
  <2>1. Above(n) \subseteq Above(m) /\ n \in Above(m) /\ n \notin Above(n)
    BY <1>0
  <2>2. Cardinality(Above(n)) < Cardinality(Above(m))
    <3>1. Cardinality(Above(n)) <= Cardinality(Above(m))
      BY <1>1, <2>1, FS_Subset
    <3>2. Cardinality(Above(n)) # Cardinality(Above(m))
      BY <1>1, <2>1, FS_Subset
    <3> QED
      BY <3>1, <3>2, <1>1
  <2>3. Cardinality(Above(n)) \in Counts
    OBVIOUS
  <2> QED
    BY <1>1, <1>2, <1>3, <1>4, <2>2, <2>3 DEF OpToRel
<1> QED
  BY <1>5 DEF Greatest

\* The anchor of a cursor is a message of the page, so not past its end.
LEMMA AnchorIs ==
  ASSUME NEW S \in SUBSET Msg, S # {}
  PROVE  Anchor(S) \in Msg /\ Anchor(S) <= Greatest(S)
<1>1. Anchor(S) \in S
  BY GreatestIs DEF Anchor, Real
<1> QED
  BY <1>1, GreatestIs

\* A page has every message ahead of the position up to its last.
LEMMA FirstIsInitial ==
  ASSUME NEW S \in SUBSET Msg, NEW n \in First(S), NEW m \in S, m <= n
  PROVE  m \in First(S)
<1> DEFINE Before(k) == {j \in S : j < k}
<1>0. \A k \in S : k \in Nat
  BY ArchiveAssumption
<1>1. n \in S /\ Before(m) \subseteq Before(n)
  BY <1>0 DEF First
<1>2. IsFiniteSet(Before(n)) /\ Before(n) \subseteq Msg
  BY FS_Subset, ArchiveAssumption
<1>3. /\ Cardinality(Before(m)) \in Nat /\ Cardinality(Before(n)) \in Nat
      /\ Cardinality(Before(m)) <= Cardinality(Before(n))
  BY <1>1, <1>2, FS_Subset, FS_CardinalityType
<1> QED
  BY <1>3, ExtractAssumption DEF First
-----------------------------------------------------------------------------
(* What a cursor covers                                                    *)

Typed ==
  /\ messages \subseteq Msg
  /\ gen \in Gen
  /\ contact \in [Conv -> Person \union {None}]
  /\ state \in [Conv -> [anchor : Msg, gen : Gen] \union {None}]
  /\ rows \subseteq [msg : Msg, gen : Gen, who : Person \union {Owner, None}]
  /\ run \in [Runner -> Passes]
  /\ kind # "sentiment" => optedOut = {}

\* Message m needs no pass of generation g any more.
Accounted(m, g) == Derived(m, g) \/ <<m, g>> \in missed

\* Nothing at or before p is left in conversation c for a pass of generation g.
Covered(c, p, g) == \A m \in Real(Within(c)) : m <= p => Accounted(m, g)

\* Also a cursor whose message has gone: what is imported before it is behind it.
Cursors ==
  \A c \in Conv : \A s \in [anchor : Msg, gen : Gen] :
    state[c] = s /\ s # None => Covered(c, s.anchor, s.gen)

\* The labels at which a pass has a conversation.
Inside == {"resolve", "page", "ask", "put", "advance"}

Shaped(d) ==
  /\ d.pc # "idle" => d.gen \in Gen
  /\ d.pc \notin Inside => d.cur = None
  /\ d.pc \in Inside => d.cur \in Conv \X (Person \union {None})
  /\ d.pc \in {"clear", "readDay"} => d.mode = "day"
  /\ d.mode = "day" /\ d.pc # "idle" =>
       kind = "sentiment" /\ d.pc \notin {"resolve", "page", "advance"}

\* A pass has left nothing out before its position; its page is all that lies
\* between this and the page's last message; a page that may be passed is covered.
Behind(d) ==
  /\ d.pc \in Inside => Covered(d.cur[1], d.pos, d.gen)
  /\ d.pc \in {"ask", "put", "advance"} =>
       /\ d.page # {}
       /\ \A m \in Real(Within(d.cur[1])) :
            m <= Greatest(d.page) => m \in d.page \/ Accounted(m, d.gen)
  /\ d.pc = "advance" => Covered(d.cur[1], Greatest(d.page), d.gen)

Sound(d) == Shaped(d) /\ (d.mode # "day" => Behind(d))
Walks    == \A r \in Runner : \A d \in Passes : run[r] = d => Sound(d)

IInv == Typed /\ Cursors /\ Walks

\* Nothing that is accounted for is forgotten.
Onward ==
  /\ UNCHANGED <<messages, kind>>
  /\ \A m \in messages, g \in Gen : Accounted(m, g) => Accounted(m, g)'

LEMMA CoveredKept ==
  ASSUME Onward, NEW c, NEW p, NEW g \in Gen, Covered(c, p, g)
  PROVE  Covered(c, p, g)'
BY DEF Covered, Onward, Real, Within

LEMMA CursorsKept ==
  ASSUME Onward, Cursors, state' = state
  PROVE  Cursors'
<1> SUFFICES ASSUME NEW c \in Conv, NEW s \in [anchor : Msg, gen : Gen], state[c] = s, s # None
             PROVE  Covered(c, s.anchor, s.gen)'
  BY DEF Cursors
<1> QED
  BY CoveredKept DEF Cursors

LEMMA SoundKept ==
  ASSUME Onward, NEW d \in Passes, Sound(d)
  PROVE  Sound(d)'
<1>1. Shaped(d)'
  BY DEF Sound, Shaped, Onward
<1>2. ASSUME d.mode # "day" PROVE Behind(d)'
  <2>1. d.pc \in Inside => d.gen \in Gen
    BY DEF Sound, Shaped, Inside
  <2>2. d.pc \in Inside => Covered(d.cur[1], d.pos, d.gen)'
    BY <1>2, <2>1, CoveredKept DEF Sound, Behind
  <2>3. d.pc \in {"ask", "put", "advance"} =>
          \A m \in Real(Within(d.cur[1]))' :
            m <= Greatest(d.page) => m \in d.page \/ Accounted(m, d.gen)'
    BY <1>2, <2>1 DEF Sound, Behind, Onward, Real, Within, Inside
  <2>4. d.pc = "advance" => Covered(d.cur[1], Greatest(d.page), d.gen)'
    BY <1>2, <2>1, CoveredKept DEF Sound, Behind, Inside
  <2> QED
    BY <1>2, <2>2, <2>3, <2>4 DEF Sound, Behind, Greatest
<1> QED
  BY <1>1, <1>2 DEF Sound

\* One pass makes a step.
LEMMA OneMoves ==
  ASSUME Walks, Onward, NEW r \in Runner, NEW d \in Passes, Sound(d)',
         run' = [run EXCEPT ![r] = d], run \in [Runner -> Passes]
  PROVE  Walks'
<1> SUFFICES ASSUME NEW q \in Runner, NEW e \in Passes, run'[q] = e
             PROVE  Sound(e)'
  BY DEF Walks
<1>1. CASE q = r
  BY <1>1
<1>2. CASE q # r
  BY <1>2, SoundKept DEF Walks
<1> QED
  BY <1>1, <1>2

\* A step that only changes where a pass is.
LEMMA OnlyMoves ==
  ASSUME IInv, NEW r \in Runner, NEW d \in Passes, Sound(d) \/ Sound(d)',
         run' = [run EXCEPT ![r] = d],
         UNCHANGED <<messages, kind, gen, contact, state, rows, optedOut>>,
         missed \subseteq missed'
  PROVE  IInv'
<1>1. Onward
  BY DEF Onward, Accounted, Derived
<1>2. Typed'
  BY DEF IInv, Typed
<1> QED
  BY <1>1, <1>2, CursorsKept, SoundKept, OneMoves DEF IInv, Typed


\* The fields of a pass that has gone on.
LEMMA ChangedIs ==
  ASSUME NEW p \in Passes, NEW e
  PROVE  /\ Changed(p, e) = [pc |-> Changed(p, e).pc, mode |-> Changed(p, e).mode,
                             about |-> Changed(p, e).about, gen |-> Changed(p, e).gen,
                             todo |-> Changed(p, e).todo, cur |-> Changed(p, e).cur,
                             pos |-> Changed(p, e).pos, page |-> Changed(p, e).page,
                             more |-> Changed(p, e).more]
         /\ \A f \in {"pc", "mode", "about", "gen", "todo", "cur", "pos", "page", "more"} :
              Changed(p, e)[f] = IF f \in DOMAIN e THEN e[f] ELSE p[f]
<1>1. DOMAIN p = {"pc", "mode", "about", "gen", "todo", "cur", "pos", "page", "more"}
  BY DEF Passes
<1> QED
  BY <1>1 DEF Changed

\* A pass that has no conversation.
LEMMA Nowhere ==
  ASSUME NEW d \in Passes, d.pc \notin Inside, d.cur = None, d.pc # "idle" => d.gen \in Gen,
         d.pc \in {"clear", "readDay"} => d.mode = "day",
         d.mode = "day" /\ d.pc # "idle" => kind = "sentiment"
  PROVE  Sound(d)
BY DEF Sound, Shaped, Behind, Inside

LEMMA IdleIs == Idle \in Passes /\ Sound(Idle)
<1>1. Idle \in Passes
  BY DEF Idle, Passes
<1> QED
  BY <1>1, Nowhere DEF Idle, Inside

LEMMA StartKeeps ==
  ASSUME IInv, NEW r \in Runner, Start(r)
  PROVE  IInv'
<1> USE DEF IInv, Typed
<1>1. run[r] \in Passes /\ run[r].cur = None /\ run[r].pc = "idle"
  BY DEF Walks, Sound, Shaped, Inside, Start
<1>2. PICK d \in Passes : /\ run' = [run EXCEPT ![r] = d]
                          /\ d.pc \notin Inside /\ d.cur = None /\ d.gen = gen
                          /\ d.pc \in {"clear", "readDay"} => d.mode = "day"
                          /\ d.mode = "day" => kind = "sentiment"
  <2>1. ASSUME NEW pc \in {"reap", "list", "reset"}, NEW mode \in {"incremental", "reset"},
               Goes(r, [pc |-> pc, mode |-> mode, gen |-> gen])
        PROVE  \E d \in Passes : /\ run' = [run EXCEPT ![r] = d]
                                 /\ d.pc = pc /\ d.mode = mode /\ d.gen = gen /\ d.cur = None
    <3> DEFINE d == Changed(run[r], [pc |-> pc, mode |-> mode, gen |-> gen])
    <3>1. /\ d.pc = pc /\ d.mode = mode /\ d.gen = gen /\ d.about = run[r].about
          /\ d.todo = run[r].todo /\ d.cur = run[r].cur /\ d.pos = run[r].pos
          /\ d.page = run[r].page /\ d.more = run[r].more
      BY <1>1, ChangedIs
    <3>2. d \in Passes
      BY <1>1, <3>1, ChangedIs DEF Passes
    <3> QED
      BY <1>1, <2>1, <3>1, <3>2 DEF Goes
  <2>2. ASSUME NEW pc \in {"clear", "event"}, NEW mode \in {"day", "event"},
               NEW a \in Day \union Conv,
               Goes(r, [pc |-> pc, mode |-> mode, about |-> a, gen |-> gen])
        PROVE  \E d \in Passes : /\ run' = [run EXCEPT ![r] = d]
                                 /\ d.pc = pc /\ d.mode = mode /\ d.gen = gen /\ d.cur = None
    <3> DEFINE d == Changed(run[r], [pc |-> pc, mode |-> mode, about |-> a, gen |-> gen])
    <3>1. /\ d.pc = pc /\ d.mode = mode /\ d.gen = gen /\ d.about = a
          /\ d.todo = run[r].todo /\ d.cur = run[r].cur /\ d.pos = run[r].pos
          /\ d.page = run[r].page /\ d.more = run[r].more
      BY <1>1, ChangedIs
    <3>2. d \in Passes
      BY <1>1, <3>1, ChangedIs DEF Passes
    <3> QED
      BY <1>1, <2>2, <3>1, <3>2 DEF Goes
  <2>3. CASE kind = "facts" /\ Goes(r, [pc |-> "reap", mode |-> "incremental", gen |-> gen])
    BY <2>1, <2>3 DEF Inside
  <2>4. CASE Goes(r, [pc |-> "list", mode |-> "incremental", gen |-> gen])
    BY <2>1, <2>4 DEF Inside
  <2>5. CASE Goes(r, [pc |-> "reset", mode |-> "reset", gen |-> gen])
    BY <2>1, <2>5 DEF Inside
  <2>6. CASE kind = "sentiment" /\ \E a \in Day :
               Goes(r, [pc |-> "clear", mode |-> "day", about |-> a, gen |-> gen])
    <3>1. PICK b \in Day : Goes(r, [pc |-> "clear", mode |-> "day", about |-> b, gen |-> gen])
      BY <2>6, Zenon
    <3>2. \E d \in Passes : /\ run' = [run EXCEPT ![r] = d]
                            /\ d.pc = "clear" /\ d.mode = "day" /\ d.gen = gen /\ d.cur = None
      BY <2>2, <3>1
    <3> QED
      BY <2>6, <3>2 DEF Inside
  <2>7. CASE \E a \in Conv :
               Goes(r, [pc |-> "event", mode |-> "event", about |-> a, gen |-> gen])
    <3>1. PICK b \in Conv : Goes(r, [pc |-> "event", mode |-> "event", about |-> b, gen |-> gen])
      BY <2>7, Zenon
    <3>2. \E d \in Passes : /\ run' = [run EXCEPT ![r] = d]
                            /\ d.pc = "event" /\ d.mode = "event" /\ d.gen = gen /\ d.cur = None
      BY <2>2, <3>1
    <3> QED
      BY <2>7, <3>2 DEF Inside
  <2> QED
    BY <2>3, <2>4, <2>5, <2>6, <2>7, Zenon DEF Start
<1> QED
  BY <1>2, Nowhere, OnlyMoves DEF Start, store, history, settings

Whole(d) == d = [pc |-> d.pc, mode |-> d.mode, about |-> d.about, gen |-> d.gen,
                 todo |-> d.todo, cur |-> d.cur, pos |-> d.pos, page |-> d.page,
                 more |-> d.more]

LEMMA GoesTo ==
  ASSUME NEW r \in Runner, run[r] \in Passes, NEW e, Goes(r, e)
  PROVE  \E d : /\ run' = [run EXCEPT ![r] = d]
                /\ Whole(d)
                /\ \A f \in {"pc", "mode", "about", "gen", "todo", "cur", "pos", "page", "more"} :
                     d[f] = IF f \in DOMAIN e THEN e[f] ELSE run[r][f]
<1> DEFINE d == Changed(run[r], e)
<1>1. run' = [run EXCEPT ![r] = d]
  BY DEF Goes
<1>2. /\ Whole(d)
      /\ \A f \in {"pc", "mode", "about", "gen", "todo", "cur", "pos", "page", "more"} :
           d[f] = IF f \in DOMAIN e THEN e[f] ELSE run[r][f]
  BY ChangedIs, Zenon DEF Whole
<1> HIDE DEF d
<1> QED
  BY <1>1, <1>2, Zenon

\* The pass of a runner, as the invariant describes it.
LEMMA PassIs ==
  ASSUME IInv, NEW r \in Runner
  PROVE  run[r] \in Passes /\ Sound(run[r])
BY DEF IInv, Typed, Walks

LEMMA EligibleTyped ==
  ASSUME Typed
  PROVE  Eligible \subseteq Conv \X (Person \union {None})
BY DEF Typed, Eligible

LEMMA ListKeeps ==
  ASSUME IInv, NEW r \in Runner, List(r)
  PROVE  IInv'
<1>1. run[r] \in Passes /\ Sound(run[r]) /\ run[r].pc = "list"
  BY PassIs DEF List
<1>2. PICK d : /\ run' = [run EXCEPT ![r] = d]
               /\ Whole(d)
               /\ d.pc = IF kind = "sentiment" THEN "filter" ELSE "next"
               /\ d.todo = Eligible
               /\ \A f \in {"mode", "about", "gen", "cur", "pos", "page", "more"} : d[f] = run[r][f]
  BY <1>1, GoesTo DEF List
<1>3. d \in Passes
  BY <1>1, <1>2, EligibleTyped DEF Passes, IInv, Whole
<1>4. Sound(d)
  BY <1>1, <1>2 DEF Sound, Shaped, Behind, Inside
<1> QED
  BY <1>2, <1>3, <1>4, OnlyMoves DEF List, store, history, settings
LEMMA FilterKeeps ==
  ASSUME IInv, NEW r \in Runner, Filter(r)
  PROVE  IInv'
<1>1. run[r] \in Passes /\ Sound(run[r]) /\ run[r].pc = "filter"
  BY PassIs DEF Filter
<1>2. PICK d : /\ run' = [run EXCEPT ![r] = d]
               /\ Whole(d)
               /\ d.pc = "next"
               /\ d.todo = {p \in run[r].todo : p[2] \notin optedOut}
               /\ \A f \in {"mode", "about", "gen", "cur", "pos", "page", "more"} : d[f] = run[r][f]
  BY <1>1, GoesTo DEF Filter
<1>3. d \in Passes
  BY <1>1, <1>2 DEF Passes, Whole
<1>4. Sound(d)
  BY <1>1, <1>2 DEF Sound, Shaped, Behind, Inside
<1> QED
  BY <1>2, <1>3, <1>4, OnlyMoves DEF Filter, store, history, settings

LEMMA NothingBefore ==
  ASSUME Typed, NEW c, NEW g
  PROVE  Covered(c, 0, g)
BY ArchiveAssumption DEF Covered, Typed, Real, Within

LEMMA LoadKeeps ==
  ASSUME IInv, NEW r \in Runner, Load(r)
  PROVE  IInv'
<1>1. run[r] \in Passes /\ Sound(run[r]) /\ run[r].pc = "next" /\ run[r].mode # "day"
  BY PassIs DEF Load
<1>2. PICK p \in run[r].todo :
        LET s == state[p[1]]
            resumes == IF s = None THEN FALSE ELSE s.gen = run[r].gen
        IN Goes(r, [pc |-> IF resumes THEN "resolve" ELSE "page",
                    todo |-> run[r].todo \ {p}, cur |-> p, page |-> {},
                    pos |-> IF resumes THEN s.anchor ELSE 0])
  BY DEF Load
<1> DEFINE s == state[p[1]]
           resumes == IF s = None THEN FALSE ELSE s.gen = run[r].gen
<1>3. PICK d : /\ run' = [run EXCEPT ![r] = d]
               /\ Whole(d)
               /\ d.pc = IF resumes THEN "resolve" ELSE "page"
               /\ d.todo = run[r].todo \ {p}
               /\ d.cur = p
               /\ d.page = {}
               /\ d.pos = IF resumes THEN s.anchor ELSE 0
               /\ \A f \in {"mode", "about", "gen", "more"} : d[f] = run[r][f]
  BY <1>1, <1>2, GoesTo 
<1>4. p \in Conv \X (Person \union {None}) /\ p[1] \in Conv
  BY <1>1, <1>2 DEF Passes
<1>5. resumes => s \in [anchor : Msg, gen : Gen] /\ s.gen = run[r].gen
  BY <1>4 DEF IInv, Typed
<1>6. d \in Passes
  BY <1>1, <1>3, <1>4, <1>5 DEF Passes, Whole
<1>7. Covered(p[1], d.pos, d.gen)
  <2>1. CASE resumes
    BY <1>3, <1>4, <1>5, <2>1 DEF IInv, Cursors
  <2>2. CASE ~resumes
    BY <1>3, <2>2, NothingBefore DEF IInv
  <2> QED
    BY <2>1, <2>2
<1>8. Sound(d)
  BY <1>1, <1>3, <1>4, <1>7 DEF Sound, Shaped, Behind, Inside
<1> QED
  BY <1>3, <1>6, <1>8, OnlyMoves DEF Load, store, history, settings

LEMMA ResolveKeeps ==
  ASSUME IInv, NEW r \in Runner, Resolve(r)
  PROVE  IInv'
<1>1. run[r] \in Passes /\ Sound(run[r]) /\ run[r].pc = "resolve"
  BY PassIs DEF Resolve
<1>2. PICK d : /\ run' = [run EXCEPT ![r] = d]
               /\ Whole(d)
               /\ d.pc = "page"
               /\ d.pos = IF run[r].pos \in Within(run[r].cur[1]) THEN run[r].pos ELSE 0
               /\ \A f \in {"mode", "about", "gen", "todo", "cur", "page", "more"} : d[f] = run[r][f]
  BY <1>1, GoesTo DEF Resolve
<1>3. d \in Passes
  BY <1>1, <1>2 DEF Passes, Whole
<1>4. Covered(d.cur[1], d.pos, d.gen)
  BY <1>1, <1>2, NothingBefore DEF Sound, Shaped, Behind, Inside, IInv
<1>5. Sound(d)
  BY <1>1, <1>2, <1>4 DEF Sound, Shaped, Behind, Inside
<1> QED
  BY <1>2, <1>3, <1>5, OnlyMoves DEF Resolve, store, history, settings

LEMMA AnsweredKeeps ==
  ASSUME IInv, NEW r \in Runner, Answered(r)
  PROVE  IInv'
<1>1. run[r] \in Passes /\ Sound(run[r]) /\ run[r].pc = "ask"
  BY PassIs DEF Answered
<1>2. PICK d : /\ run' = [run EXCEPT ![r] = d]
               /\ Whole(d)
               /\ d.pc = "put"
               /\ \A f \in {"mode", "about", "gen", "todo", "cur", "pos", "page", "more"} : d[f] = run[r][f]
  BY <1>1, GoesTo DEF Answered
<1>3. d \in Passes
  BY <1>1, <1>2 DEF Passes, Whole
<1>4. Sound(d)
  BY <1>1, <1>2 DEF Sound, Shaped, Behind, Inside
<1> QED
  BY <1>2, <1>3, <1>4, OnlyMoves DEF Answered, store, history, settings
LEMMA ReadPageKeeps ==
  ASSUME IInv, NEW r \in Runner, ReadPage(r)
  PROVE  IInv'
<1>1. run[r] \in Passes /\ Sound(run[r]) /\ run[r].pc = "page"
  BY PassIs DEF ReadPage
<1> DEFINE ahead == After(run[r].cur[1], run[r].pos)
           page  == First(ahead)
<1>2. /\ ahead \subseteq Msg /\ page \subseteq ahead
  BY DEF IInv, Typed, After, First, Within
<1>3. CASE page = {}
  <2>1. Goes(r, Leaving)
    BY <1>3 DEF ReadPage
  <2>2. PICK d : /\ run' = [run EXCEPT ![r] = d]
                 /\ Whole(d)
                 /\ d.pc = "next"
                 /\ d.cur = None
                 /\ d.pos = 0
                 /\ d.page = {}
                 /\ d.more = FALSE
                 /\ \A f \in {"mode", "about", "gen", "todo"} : d[f] = run[r][f]
    BY <1>1, <2>1, GoesTo DEF Leaving
  <2>3. d \in Passes
    BY <1>1, <2>2 DEF Passes, Whole
  <2>4. Sound(d)
    BY <1>1, <2>2 DEF Sound, Shaped, Behind, Inside
  <2> QED
    BY <2>2, <2>3, <2>4, OnlyMoves DEF ReadPage, store, history, settings
<1>4. CASE page # {}
  <2> DEFINE pc   == IF kind # "spam" /\ Real(page) # {} THEN "ask" ELSE "put"
             more == IF kind = "spam" THEN Cardinality(page) = PageSize ELSE page # ahead
  <2>1. Goes(r, [pc |-> pc, page |-> page, more |-> more])
    BY <1>4 DEF ReadPage
  <2>2. pc \in {"ask", "put"} /\ more \in BOOLEAN
    OBVIOUS
  <2> HIDE DEF pc, more
  <2>3. PICK d : /\ run' = [run EXCEPT ![r] = d]
                 /\ Whole(d)
                 /\ d.pc = pc
                 /\ d.page = page
                 /\ d.more = more
                 /\ \A f \in {"mode", "about", "gen", "todo", "cur", "pos"} : d[f] = run[r][f]
    BY <1>1, <2>1, GoesTo
  <2>4. d \in Passes
    BY <1>1, <1>2, <2>2, <2>3 DEF Passes, Whole
  <2>5. \A m \in Real(Within(d.cur[1])) : m <= Greatest(d.page) => m \in d.page \/ Accounted(m, d.gen)
    <3> SUFFICES ASSUME NEW m \in Real(Within(d.cur[1])), m <= Greatest(d.page), m \notin d.page
                 PROVE  Accounted(m, d.gen)
      OBVIOUS
    <3>1. Greatest(page) \in page
      BY <1>2, <1>4, GreatestIs
    <3>2. m \notin ahead
      BY <1>2, <2>3, <3>1, FirstIsInitial
    <3>3. m <= run[r].pos
      <4>1. m \in Nat /\ run[r].pos \in Nat
        <5>1. m \in Msg /\ run[r].pos \in Msg \union {0}
          BY <1>1 DEF IInv, Typed, Real, Within, Passes
        <5>2. \A n \in Msg : n \in Nat
          BY ArchiveAssumption
        <5> QED
          BY <5>1, <5>2
      <4> QED
        BY <4>1, <2>3, <3>2 DEF After, Real
    <3>4. Covered(run[r].cur[1], run[r].pos, run[r].gen)
      BY <1>1 DEF Sound, Shaped, Behind, Inside
    <3> QED
      BY <2>3, <3>3, <3>4 DEF Covered
  <2>6. Sound(d)
    BY <1>1, <1>4, <2>2, <2>3, <2>5 DEF Sound, Shaped, Behind, Inside
  <2> QED
    BY <2>3, <2>4, <2>6, OnlyMoves DEF ReadPage, store, history, settings
<1> QED
  BY <1>3, <1>4

LEMMA UnparseableKeeps ==
  ASSUME IInv, NEW r \in Runner, Unparseable(r)
  PROVE  IInv'
<1>1. run[r] \in Passes /\ Sound(run[r]) /\ run[r].pc = "ask"
  BY PassIs DEF Unparseable
<1>2. CASE run[r].mode = "day"
  <2>1. Goes(r, LeavingDay)
    BY <1>2 DEF Unparseable
  <2>2. PICK d : /\ run' = [run EXCEPT ![r] = d]
                 /\ Whole(d)
                 /\ d.pc = "next"
                 /\ d.cur = None
                 /\ \A f \in {"mode", "about", "gen", "todo", "pos", "page", "more"} : d[f] = run[r][f]
    BY <1>1, <2>1, GoesTo DEF LeavingDay
  <2>3. d \in Passes
    BY <1>1, <2>2 DEF Passes, Whole
  <2>4. Sound(d)
    BY <1>1, <1>2, <2>2 DEF Sound, Shaped, Behind, Inside
  <2> QED
    BY <2>2, <2>3, <2>4, OnlyMoves DEF Unparseable, store, settings
<1>3. CASE run[r].mode # "day"
  <2>1. Goes(r, [pc |-> "advance"])
    BY <1>3 DEF Unparseable
  <2>2. PICK d : /\ run' = [run EXCEPT ![r] = d]
                 /\ Whole(d)
                 /\ d.pc = "advance"
                 /\ \A f \in {"mode", "about", "gen", "todo", "cur", "pos", "page", "more"} : d[f] = run[r][f]
    BY <1>1, <2>1, GoesTo
  <2>3. d \in Passes
    BY <1>1, <2>2 DEF Passes, Whole
  <2>4. Onward
    BY DEF Unparseable, Onward, Accounted, Derived, store, settings
  <2>5. \A m \in Real(Within(d.cur[1]))' : m <= Greatest(d.page) => Accounted(m, d.gen)'
    <3> SUFFICES ASSUME NEW m \in Real(Within(d.cur[1])), m <= Greatest(d.page)
                 PROVE  Accounted(m, d.gen)'
      BY <2>4 DEF Onward, Real, Within
    <3>1. d.gen \in Gen /\ m \in messages
      BY <1>1, <2>2 DEF Sound, Shaped, Real, Within
    <3>2. CASE m \in d.page
      <4>1. m \in Real(run[r].page)
        BY <2>2, <3>2 DEF Real
      <4>2. <<m, d.gen>> \in missed'
        BY <4>1, <2>2 DEF Unparseable
      <4> QED
        BY <4>2 DEF Accounted
    <3>3. CASE m \notin d.page
      <4>1. Accounted(m, d.gen)
        BY <1>1, <1>3, <2>2, <3>3 DEF Sound, Behind
      <4> QED
        BY <4>1, <3>1, <2>4 DEF Onward
    <3> QED
      BY <3>2, <3>3
  <2>6. PICK o \in Passes : o = run[r] /\ Sound(o)'
    BY <1>1, <2>4, SoundKept
  <2>7. Sound(d)'
    BY <1>1, <1>3, <2>2, <2>5, <2>6 DEF Sound, Shaped, Behind, Inside, Covered
  <2> QED
    BY <2>2, <2>3, <2>7, OnlyMoves DEF Unparseable, store, settings
<1> QED
  BY <1>2, <1>3
LEMMA RefusedKeeps ==
  ASSUME IInv, NEW r \in Runner, Refused(r)
  PROVE  IInv'
<1>1. run[r] \in Passes /\ Sound(run[r]) /\ run[r].pc = "ask"
  BY PassIs DEF Refused
<1>2. CASE kind = "facts"
  <2>1. run' = [run EXCEPT ![r] = Idle]
    BY <1>1, <1>2 DEF Refused, Sound, Shaped
  <2> QED
    BY <2>1, IdleIs, OnlyMoves DEF Refused, store, history, settings
<1>3. CASE kind # "facts" /\ run[r].mode = "day"
  <2>1. Goes(r, LeavingDay)
    BY <1>3 DEF Refused, Goes
  <2>2. PICK d : /\ run' = [run EXCEPT ![r] = d]
                 /\ Whole(d)
                 /\ d.pc = "next"
                 /\ d.cur = None
                 /\ \A f \in {"mode", "about", "gen", "todo", "pos", "page", "more"} : d[f] = run[r][f]
    BY <1>1, <2>1, GoesTo DEF LeavingDay
  <2>3. d \in Passes
    BY <1>1, <2>2 DEF Passes, Whole
  <2>4. Sound(d)
    BY <1>1, <1>3, <2>2 DEF Sound, Shaped, Behind, Inside
  <2> QED
    BY <2>2, <2>3, <2>4, OnlyMoves DEF Refused, store, history, settings
<1>4. CASE kind # "facts" /\ run[r].mode # "day"
  <2>1. Goes(r, Leaving)
    BY <1>4 DEF Refused, Goes
  <2>2. PICK d : /\ run' = [run EXCEPT ![r] = d]
                 /\ Whole(d)
                 /\ d.pc = "next"
                 /\ d.cur = None
                 /\ d.pos = 0
                 /\ d.page = {}
                 /\ d.more = FALSE
                 /\ \A f \in {"mode", "about", "gen", "todo"} : d[f] = run[r][f]
    BY <1>1, <2>1, GoesTo DEF Leaving
  <2>3. d \in Passes
    BY <1>1, <2>2 DEF Passes, Whole
  <2>4. Sound(d)
    BY <1>1, <1>4, <2>2 DEF Sound, Shaped, Behind, Inside
  <2> QED
    BY <2>2, <2>3, <2>4, OnlyMoves DEF Refused, store, history, settings
<1> QED
  BY <1>2, <1>3, <1>4

\* Every message of a page has its fact by then, or had it.
LEMMA FactsPutKeeps ==
  ASSUME IInv, NEW r \in Runner, FactsPut(r)
  PROVE  IInv'
<1>1. run[r] \in Passes /\ Sound(run[r]) /\ run[r].pc = "put"
  BY PassIs DEF FactsPut
<1>2. PICK d : /\ run' = [run EXCEPT ![r] = d]
               /\ Whole(d)
               /\ d.pc = "advance"
               /\ \A f \in {"mode", "about", "gen", "todo", "cur", "pos", "page", "more"} : d[f] = run[r][f]
  BY <1>1, GoesTo DEF FactsPut
<1>3. d \in Passes
  BY <1>1, <1>2 DEF Passes, Whole
<1>4. kind = "facts" /\ optedOut = {} /\ run[r].mode # "day"
  BY <1>1 DEF FactsPut, IInv, Typed, Sound, Shaped
<1>5. \A m \in Real(run[r].page) : Accounted(m, d.gen)
  <2> TAKE m \in Real(run[r].page)
  <2>1. RowOf(r, m).who \notin optedOut => RowOf(r, m) \in Inserted(r, Real(run[r].page)) \/ Known(RowOf(r, m))
    BY DEF Inserted
  <2>2. Known(RowOf(r, m))
    BY <1>4, <2>1 DEF FactsPut
  <2> QED
    BY <1>4, <2>2 DEF Known, RowOf, Accounted, Derived
<1>6. Covered(d.cur[1], Greatest(d.page), d.gen)
  BY <1>1, <1>2, <1>4, <1>5 DEF Sound, Behind, Covered, Real
<1>7. Sound(d)
  BY <1>1, <1>2, <1>4, <1>6 DEF Sound, Shaped, Behind, Inside
<1> QED
  BY <1>2, <1>3, <1>7, OnlyMoves DEF FactsPut, store, history, settings

LEMMA ReadDayKeeps ==
  ASSUME IInv, NEW r \in Runner, ReadDay(r)
  PROVE  IInv'
<1>1. run[r] \in Passes /\ Sound(run[r]) /\ run[r].pc = "readDay"
  BY PassIs DEF ReadDay
<1> DEFINE heard == {p \in Eligible : p[2] \notin optedOut}
           day   == {m \in Real(Dated(run[r].about)) : \E p \in heard : p[1] = ConvOf[m]}
           heads == {p \in Eligible : \E m \in day : ConvOf[m] = p[1]}
<1>2. Goes(r, [pc |-> "next", page |-> day, todo |-> heads])
  BY DEF ReadDay
<1>3. day \subseteq Msg /\ heads \subseteq Conv \X (Person \union {None})
  BY EligibleTyped DEF IInv, Typed, Real, Dated
<1> HIDE DEF day, heads
<1>4. PICK d : /\ run' = [run EXCEPT ![r] = d]
               /\ Whole(d)
               /\ d.pc = "next"
               /\ d.page = day
               /\ d.todo = heads
               /\ \A f \in {"mode", "about", "gen", "cur", "pos", "more"} : d[f] = run[r][f]
  BY <1>1, <1>2, GoesTo
<1>5. d \in Passes
  BY <1>1, <1>3, <1>4 DEF Passes, Whole
<1>6. Sound(d)
  BY <1>1, <1>4 DEF Sound, Shaped, Behind, Inside
<1> QED
  BY <1>4, <1>5, <1>6, OnlyMoves DEF ReadDay, store, history, settings

LEMMA AskDayKeeps ==
  ASSUME IInv, NEW r \in Runner, AskDay(r)
  PROVE  IInv'
<1>1. run[r] \in Passes /\ Sound(run[r]) /\ run[r].pc = "next" /\ run[r].mode = "day"
  BY PassIs DEF AskDay
<1>2. PICK p \in run[r].todo : Goes(r, [pc |-> "ask", cur |-> p, todo |-> run[r].todo \ {p}])
  BY DEF AskDay
<1>3. PICK d : /\ run' = [run EXCEPT ![r] = d]
               /\ Whole(d)
               /\ d.pc = "ask"
               /\ d.cur = p
               /\ d.todo = run[r].todo \ {p}
               /\ \A f \in {"mode", "about", "gen", "pos", "page", "more"} : d[f] = run[r][f]
  BY <1>1, <1>2, GoesTo
<1>4. p \in Conv \X (Person \union {None})
  BY <1>1, <1>2 DEF Passes
<1>5. d \in Passes
  BY <1>1, <1>3, <1>4 DEF Passes, Whole
<1>6. Sound(d)
  BY <1>1, <1>3, <1>4 DEF Sound, Shaped, Behind, Inside
<1> QED
  BY <1>3, <1>5, <1>6, OnlyMoves DEF AskDay, store, history, settings

LEMMA AddEventKeeps ==
  ASSUME IInv, NEW r \in Runner, AddEvent(r)
  PROVE  IInv'
<1>1. run[r] \in Passes /\ Sound(run[r]) /\ run[r].pc = "event"
  BY PassIs DEF AddEvent
<1>2. PICK d : /\ run' = [run EXCEPT ![r] = d]
               /\ Whole(d)
               /\ d.pc = "next"
               /\ \A f \in {"mode", "about", "gen", "todo", "cur", "pos", "page", "more"} : d[f] = run[r][f]
  BY <1>1, GoesTo DEF AddEvent
<1>3. d \in Passes
  BY <1>1, <1>2 DEF Passes, Whole
<1>4. Sound(d)
  BY <1>1, <1>2 DEF Sound, Shaped, Behind, Inside
<1> QED
  BY <1>2, <1>3, <1>4, OnlyMoves DEF AddEvent, history, settings

LEMMA EndKeeps ==
  ASSUME IInv, NEW r \in Runner, FactRefused(r) \/ Recompute(r) \/ Finish(r) \/ CutShort(r)
  PROVE  IInv'
BY IdleIs, OnlyMoves DEF FactRefused, Recompute, Finish, CutShort, store, history, settings
----------------------------------------------------------------------------
(* The transactions of a pass *)

LEMMA InsertedTyped ==
  ASSUME IInv, NEW r \in Runner, run[r].pc \in Inside, NEW S \in SUBSET Msg
  PROVE  Inserted(r, S) \subseteq [msg : Msg, gen : Gen, who : Person \union {Owner, None}]
<1>1. run[r] \in Passes /\ run[r].gen \in Gen /\ run[r].cur[2] \in Person \union {None}
  BY PassIs DEF Sound, Shaped, Inside
<1>2. \A m \in S : RowOf(r, m) \in [msg : Msg, gen : Gen, who : Person \union {Owner, None}]
  BY <1>1 DEF RowOf
<1> QED
  BY <1>2 DEF Inserted

\* No pass moves.
LEMMA AllStay ==
  ASSUME Walks, Onward, run' = run
  PROVE  Walks'
BY SoundKept DEF Walks

LEMMA PutFactKeeps ==
  ASSUME IInv, NEW r \in Runner, PutFact(r)
  PROVE  IInv'
<1>1. run[r] \in Passes /\ Real(run[r].page) \subseteq Msg
  BY PassIs DEF Passes, Real
<1>2. Inserted(r, Real(run[r].page)) \subseteq [msg : Msg, gen : Gen, who : Person \union {Owner, None}]
  BY <1>1, InsertedTyped DEF PutFact, Inside
<1>3. Typed'
  BY <1>2 DEF PutFact, IInv, Typed, settings
<1>4. Onward
  BY DEF PutFact, Onward, Accounted, Derived, history, settings
<1> QED
  BY <1>3, <1>4, CursorsKept, AllStay DEF PutFact, IInv

LEMMA ReapKeeps ==
  ASSUME IInv, NEW r \in Runner, Reap(r)
  PROVE  IInv'
<1>1. run[r] \in Passes /\ Sound(run[r]) /\ run[r].pc = "reap"
  BY PassIs DEF Reap
<1>2. PICK d : /\ run' = [run EXCEPT ![r] = d]
               /\ Whole(d)
               /\ d.pc = "list"
               /\ \A f \in {"mode", "about", "gen", "todo", "cur", "pos", "page", "more"} : d[f] = run[r][f]
  BY <1>1, GoesTo DEF Reap
<1>3. d \in Passes
  BY <1>1, <1>2 DEF Passes, Whole
<1>4. Sound(d)
  BY <1>1, <1>2 DEF Sound, Shaped, Behind, Inside
<1>5. Typed'
  BY <1>2, <1>3 DEF Reap, IInv, Typed, history, settings
<1>6. Onward
  <2> SUFFICES ASSUME NEW m \in messages, NEW g \in Gen, Accounted(m, g)
               PROVE  Accounted(m, g)'
    BY DEF Reap, Onward, history, settings
  <2> QED
    BY DEF Reap, Accounted, Derived, history, settings
<1> QED
  BY <1>2, <1>3, <1>4, <1>5, <1>6, SoundKept, CursorsKept, OneMoves DEF Reap, IInv, Typed, history, settings

\* A page has been dealt with: the cursor is stored and the position moves on.
LEMMA PageDone ==
  ASSUME IInv, NEW r \in Runner, NEW o \in Passes, run[r] = o, Onward,
         o.pc \in {"put", "advance"}, o.mode # "day",
         state' = Cursor(r), NextPage(r),
         UNCHANGED <<gen, contact, optedOut>>,
         rows' \subseteq [msg : Msg, gen : Gen, who : Person \union {Owner, None}],
         Covered(o.cur[1], Greatest(o.page), o.gen)'
  PROVE  IInv'
<1>1. /\ Sound(o) /\ o.page # {} /\ o.page \in SUBSET Msg /\ o.gen \in Gen
      /\ o.cur \in Conv \X (Person \union {None}) /\ o.cur[1] \in Conv
  BY PassIs DEF Sound, Shaped, Behind, Inside, Passes
<1>2. /\ Anchor(o.page) \in Msg /\ Anchor(o.page) <= Greatest(o.page)
      /\ Greatest(o.page) \in Msg
  BY <1>1, AnchorIs, GreatestIs
<1>3. Covered(o.cur[1], Anchor(o.page), o.gen)'
  <2> SUFFICES ASSUME NEW m \in Real(Within(o.cur[1])), m <= Anchor(o.page)
               PROVE  Accounted(m, o.gen)'
    BY DEF Covered, Onward, Real, Within
  <2>1. m \in Msg /\ \A n \in Msg : n \in Nat
    BY ArchiveAssumption DEF IInv, Typed, Real, Within
  <2>2. m <= Greatest(o.page)
    BY <1>2, <2>1
  <2> QED
    BY <2>2 DEF Covered, Onward, Real, Within
<1>4. \A c \in Conv : state'[c] = IF c = o.cur[1] THEN [anchor |-> Anchor(o.page), gen |-> o.gen]
                                  ELSE state[c]
  BY DEF Cursor, IInv, Typed
<1>5. state' \in [Conv -> [anchor : Msg, gen : Gen] \union {None}]
  BY <1>1, <1>2 DEF Cursor, IInv, Typed
<1>6. Cursors'
  <2> SUFFICES ASSUME NEW c \in Conv, NEW s \in [anchor : Msg, gen : Gen],
                      state'[c] = s, s # None
               PROVE  Covered(c, s.anchor, s.gen)'
    BY DEF Cursors
  <2>1. CASE c = o.cur[1]
    BY <1>3, <1>4, <2>1
  <2>2. CASE c # o.cur[1]
    BY <1>4, <2>2, CoveredKept DEF Cursors, IInv
  <2> QED
    BY <2>1, <2>2
<1>7. CASE o.more
  <2>1. Goes(r, [pc |-> "page", pos |-> Greatest(run[r].page), page |-> {}])
    BY <1>7 DEF NextPage
  <2>2. PICK d : /\ run' = [run EXCEPT ![r] = d]
                 /\ Whole(d)
                 /\ d.pc = "page"
                 /\ d.pos = Greatest(o.page)
                 /\ d.page = {}
                 /\ \A f \in {"mode", "about", "gen", "todo", "cur", "more"} : d[f] = run[r][f]
    BY <2>1, GoesTo
  <2>3. d \in Passes
    BY <1>2, <2>2 DEF Passes, Whole
  <2>4. Sound(d)'
    BY <1>1, <2>2 DEF Sound, Shaped, Behind, Inside, Onward
  <2>5. Typed'
    BY <1>5, <2>2, <2>3 DEF IInv, Typed, Onward
  <2> QED
    BY <1>6, <2>2, <2>3, <2>4, <2>5, OneMoves DEF IInv, Typed
<1>8. CASE ~o.more
  <2>1. Goes(r, Leaving)
    BY <1>8 DEF NextPage
  <2>2. PICK d : /\ run' = [run EXCEPT ![r] = d]
                 /\ Whole(d)
                 /\ d.pc = "next"
                 /\ d.cur = None
                 /\ d.pos = 0
                 /\ d.page = {}
                 /\ d.more = FALSE
                 /\ \A f \in {"mode", "about", "gen", "todo"} : d[f] = run[r][f]
    BY <2>1, GoesTo DEF Leaving
  <2>3. d \in Passes
    BY <2>2 DEF Passes, Whole
  <2>4. Sound(d)'
    BY <1>1, <2>2 DEF Sound, Shaped, Behind, Inside, Onward
  <2>5. Typed'
    BY <1>5, <2>2, <2>3 DEF IInv, Typed, Onward
  <2> QED
    BY <1>6, <2>2, <2>3, <2>4, <2>5, OneMoves DEF IInv, Typed
<1> QED
  BY <1>7, <1>8

LEMMA AdvanceKeeps ==
  ASSUME IInv, NEW r \in Runner, Advance(r)
  PROVE  IInv'
<1>1. PICK o \in Passes : run[r] = o /\ Sound(o) /\ o.pc = "advance" /\ o.mode # "day"
  BY PassIs DEF Advance, Sound, Shaped
<1>2. Onward
  BY DEF Advance, Onward, Accounted, Derived, history, settings
<1>3. Covered(o.cur[1], Greatest(o.page), o.gen)'
  BY <1>1, <1>2, CoveredKept DEF Sound, Shaped, Behind
<1> QED
  BY <1>1, <1>2, <1>3, PageDone DEF Advance, IInv, Typed, settings

\* A message of the page has its row then, or is of somebody who has opted out.
LEMMA CommitKeeps ==
  ASSUME IInv, NEW r \in Runner, Commit(r)
  PROVE  IInv'
<1>1. PICK o \in Passes : run[r] = o /\ Sound(o) /\ o.pc = "put" /\ o.mode # "day"
  BY PassIs DEF Commit
<1>2. Onward
  BY DEF Commit, Onward, Accounted, Derived, settings
<1>3. Real(o.page) \in SUBSET Msg
  BY <1>1 DEF Passes, Real
<1>4. rows' \subseteq [msg : Msg, gen : Gen, who : Person \union {Owner, None}]
  BY <1>1, <1>3, InsertedTyped DEF Commit, IInv, Typed, Inside
<1>5. ASSUME NEW m \in Real(o.page) PROVE Accounted(m, o.gen)'
  <2>1. CASE RowOf(r, m).who \in optedOut
    <3>1. <<m, o.gen>> \in missed'
      BY <1>1, <2>1 DEF Commit, Unwritten
    <3> QED
      BY <3>1 DEF Accounted
  <2>2. CASE RowOf(r, m).who \notin optedOut
    <3>1. RowOf(r, m) \in rows'
      BY <1>1, <2>2 DEF Commit, Inserted, Known
    <3>2. RowOf(r, m).msg = m /\ RowOf(r, m).gen = o.gen
      BY <1>1 DEF RowOf
    <3> QED
      BY <3>1, <3>2 DEF Accounted, Derived
  <2> QED
    BY <2>1, <2>2
<1>6. Covered(o.cur[1], Greatest(o.page), o.gen)'
  <2> SUFFICES ASSUME NEW m \in Real(Within(o.cur[1])), m <= Greatest(o.page)
               PROVE  Accounted(m, o.gen)'
    BY <1>2 DEF Covered, Onward, Real, Within
  <2>1. CASE m \in o.page
    BY <1>5, <2>1 DEF Real
  <2>2. CASE m \notin o.page
    <3>1. Accounted(m, o.gen)
      BY <1>1, <2>2 DEF Sound, Behind
    <3>2. m \in messages /\ o.gen \in Gen
      BY <1>1 DEF Real, Within, Sound, Shaped
    <3> QED
      BY <1>2, <3>1, <3>2 DEF Onward
  <2> QED
    BY <2>1, <2>2
<1> QED
  BY <1>1, <1>2, <1>4, <1>6, PageDone DEF Commit, settings
LEMMA ClearDayKeeps ==
  ASSUME IInv, NEW r \in Runner, ClearDay(r)
  PROVE  IInv'
<1>1. kind = "sentiment" /\ run[r] \in Passes /\ Sound(run[r]) /\ run[r].pc = "clear"
  BY PassIs DEF ClearDay, Sound, Shaped
<1>2. PICK d : /\ run' = [run EXCEPT ![r] = d]
               /\ Whole(d)
               /\ d.pc = "readDay"
               /\ \A f \in {"mode", "about", "gen", "todo", "cur", "pos", "page", "more"} : d[f] = run[r][f]
  BY <1>1, GoesTo DEF ClearDay
<1>3. d \in Passes
  BY <1>1, <1>2 DEF Passes, Whole
<1>4. Sound(d)
  BY <1>1, <1>2 DEF Sound, Shaped, Behind, Inside
<1>5. Typed'
  BY <1>2, <1>3 DEF ClearDay, IInv, Typed, settings
<1>6. Onward
  <2> SUFFICES ASSUME NEW m \in messages, NEW g \in Gen, Accounted(m, g)
               PROVE  Accounted(m, g)'
    BY DEF ClearDay, Onward, settings
  <2>1. missed \subseteq missed' /\ \A f \in rows : f \in rows' \/ <<f.msg, f.gen>> \in missed'
    BY DEF ClearDay
  <2> QED
    BY <1>1, <2>1 DEF ClearDay, Accounted, Derived, settings
<1> QED
  BY <1>2, <1>3, <1>4, <1>5, <1>6, SoundKept, CursorsKept, OneMoves DEF ClearDay, IInv, Typed, settings

\* The day's messages have their scores again, except of people who have opted out.
LEMMA PutDayKeeps ==
  ASSUME IInv, NEW r \in Runner, PutDay(r)
  PROVE  IInv'
<1>1. kind = "sentiment" /\ run[r].gen \in Gen /\ run[r] \in Passes /\ Sound(run[r]) /\ run[r].pc = "put"
  BY PassIs DEF PutDay, Sound, Shaped
<1>2. PICK d : /\ run' = [run EXCEPT ![r] = d]
               /\ Whole(d)
               /\ d.pc = "next"
               /\ d.cur = None
               /\ \A f \in {"mode", "about", "gen", "todo", "pos", "page", "more"} : d[f] = run[r][f]
  BY <1>1, GoesTo DEF PutDay, LeavingDay
<1>3. d \in Passes
  BY <1>1, <1>2 DEF Passes, Whole
<1>4. Sound(d)
  BY <1>1, <1>2 DEF Sound, Shaped, Behind, Inside, PutDay
<1> DEFINE batch == {m \in run[r].page : ConvOf[m] = run[r].cur[1]}
<1>5. batch \in SUBSET Msg
  BY <1>1 DEF Passes
<1>6. Inserted(r, batch) \subseteq [msg : Msg, gen : Gen, who : Person \union {Owner, None}]
  BY <1>1, <1>5, InsertedTyped DEF Inside
<1>7. Typed'
  BY <1>2, <1>3, <1>6 DEF PutDay, IInv, Typed, settings
<1>8. Onward
  <2> SUFFICES ASSUME NEW m \in messages, NEW g \in Gen, Accounted(m, g)
               PROVE  Accounted(m, g)'
    BY DEF PutDay, Onward, settings
  <2>1. CASE Derived(m, g)
    BY <2>1 DEF PutDay, Accounted, Derived, settings
  <2>2. CASE <<m, g>> \in missed /\ ~(m \in batch /\ g = run[r].gen)
    BY <2>2 DEF PutDay, Accounted
  <2>3. CASE m \in batch /\ g = run[r].gen /\ RowOf(r, m).who \in optedOut
    <3>1. <<m, g>> \in missed'
      BY <2>3 DEF PutDay, Unwritten
    <3> QED
      BY <3>1 DEF Accounted
  <2>4. CASE m \in batch /\ g = run[r].gen /\ RowOf(r, m).who \notin optedOut
    <3>1. RowOf(r, m) \in Inserted(r, batch)
      BY <1>1, <2>4 DEF Inserted, Known
    <3>2. RowOf(r, m) \in rows'
      BY <3>1 DEF PutDay
    <3>3. RowOf(r, m).msg = m /\ RowOf(r, m).gen = g
      BY <2>4 DEF RowOf
    <3> QED
      BY <3>2, <3>3 DEF Accounted, Derived
  <2> QED
    BY <2>1, <2>2, <2>3, <2>4 DEF Accounted
<1> QED
  BY <1>2, <1>3, <1>4, <1>7, <1>8, SoundKept, CursorsKept, OneMoves DEF PutDay, IInv, Typed, settings

\* The cursors go, and what other passes have behind them is theirs to lose.
LEMMA ResetKeeps ==
  ASSUME IInv, NEW r \in Runner, Reset(r)
  PROVE  IInv'
<1>1. run[r] \in Passes /\ Sound(run[r]) /\ run[r].pc = "reset"
  BY PassIs DEF Reset
<1>2. PICK d : /\ run' = [run EXCEPT ![r] = d]
               /\ Whole(d)
               /\ d.pc = "list"
               /\ \A f \in {"mode", "about", "gen", "todo", "cur", "pos", "page", "more"} : d[f] = run[r][f]
  BY <1>1, GoesTo DEF Reset
<1>3. d \in Passes
  BY <1>1, <1>2 DEF Passes, Whole
<1>4. Typed'
  BY <1>2, <1>3 DEF Reset, IInv, Typed, settings
<1>5. Cursors'
  BY DEF Reset, Cursors
<1>6. UNCHANGED <<messages, kind>>
  BY DEF Reset, settings
<1>7. Sound(d)'
  BY <1>1, <1>2, <1>6 DEF Sound, Shaped, Behind, Inside
<1>8. ASSUME NEW q \in Runner, q # r, NEW e \in Passes, run[q] = e
      PROVE  Sound(e)'
  <2>1. Sound(e)
    BY <1>8 DEF IInv, Walks
  <2>2. Shaped(e)'
    BY <1>6, <2>1 DEF Sound, Shaped
  <2>3. ASSUME e.pc \in Inside, e.mode # "day", NEW m \in Real(Within(e.cur[1]))
        PROVE  <<m, e.gen>> \in missed'
    <3>1. e.cur \in Conv \X (Person \union {None}) /\ e.gen \in Gen /\ e.cur # None
      BY <2>1, <2>3, ExtractAssumption DEF Sound, Shaped, Inside
    <3>2. WalksIn(q, e.cur[1])
      BY <1>8, <2>3, <3>1 DEF WalksIn
    <3>3. e.cur[1] \in Overtaken(r)
      BY <1>8, <3>1, <3>2 DEF Overtaken
    <3> QED
      BY <3>1, <3>3 DEF Reset, Real, Within
  <2>4. e.mode # "day" => Behind(e)'
    BY <1>6, <2>1, <2>3 DEF Sound, Behind, Covered, Accounted, Inside, Real, Within, Greatest
  <2> QED
    BY <2>2, <2>4 DEF Sound
<1>9. Walks'
  <2> SUFFICES ASSUME NEW q \in Runner, NEW e \in Passes, run'[q] = e
               PROVE  Sound(e)'
    BY DEF Walks
  <2>1. CASE q = r
    BY <1>2, <1>7, <2>1 DEF IInv, Typed
  <2>2. CASE q # r
    BY <1>2, <1>8, <2>2 DEF IInv, Typed
  <2> QED
    BY <2>1, <2>2
<1> QED
  BY <1>4, <1>5, <1>9 DEF IInv
-----------------------------------------------------------------------------
(* What others do meanwhile *)

\* What comes behind a cursor or a position is written down as missed.
LEMMA ImportKeeps ==
  ASSUME IInv, Import
  PROVE  IInv'
<1>0. PICK c \in Conv : \E S \in SUBSET {m \in Msg : ConvOf[m] = c} :
        /\ Replace(c, S)
        /\ missed' = missed \union
             ({m \in S \ Within(c) : \E n \in Reached(c) : m <= n} \X Gen)
  BY DEF Import
<1>1. PICK S \in SUBSET {m \in Msg : ConvOf[m] = c} :
        /\ Replace(c, S)
        /\ missed' = missed \union
             ({m \in S \ Within(c) : \E n \in Reached(c) : m <= n} \X Gen)
  BY <1>0
<1>2. /\ UNCHANGED <<kind, gen, contact, state, rows, optedOut, run>>
      /\ messages' = (messages \ Within(c)) \union S
  BY <1>1 DEF Import, Replace, settings
<1>3. Typed'
  BY <1>2 DEF IInv, Typed
\* A message that is in the store already, or comes behind n, is accounted for.
<1>4. ASSUME NEW b \in Conv, NEW g \in Gen, NEW m \in Real(Within(b))', NEW n,
             m <= n, b = c => n \in Reached(c), m \in Real(Within(b)) => Accounted(m, g)
      PROVE  Accounted(m, g)'
  <2>1. CASE m \in messages
    <3>1. Accounted(m, g)
      BY <1>4, <2>1 DEF Real, Within
    <3> QED
      BY <1>1, <1>2, <3>1 DEF Accounted, Derived
  <2>2. CASE m \notin messages
    <3>1. m \in S /\ m \notin Within(c) /\ b = c
      BY <1>2, <2>2 DEF Real, Within
    <3>2. <<m, g>> \in missed'
      BY <1>1, <1>4, <3>1
    <3> QED
      BY <3>2 DEF Accounted
  <2> QED
    BY <2>1, <2>2
<1>5. Cursors'
  <2> SUFFICES ASSUME NEW b \in Conv, NEW s \in [anchor : Msg, gen : Gen], state[b] = s,
                      s # None, NEW m \in Real(Within(b))', m <= s.anchor
               PROVE  Accounted(m, s.gen)'
    BY <1>2 DEF Cursors, Covered
  <2>1. b = c => s.anchor \in Reached(c)
    BY DEF Reached
  <2>2. m \in Real(Within(b)) => Accounted(m, s.gen)
    BY DEF IInv, Cursors, Covered
  <2> QED
    BY <1>4, <2>1, <2>2
<1>6. Walks'
  <2> SUFFICES ASSUME NEW q \in Runner, NEW e \in Passes, run[q] = e
               PROVE  Sound(e)'
    BY <1>2 DEF Walks
  <2>1. Sound(e)
    BY DEF IInv, Walks
  <2>2. Shaped(e)'
    BY <1>2, <2>1 DEF Sound, Shaped
  <2>3. ASSUME e.pc \in Inside, e.mode # "day"
        PROVE  Behind(e)'
    <3>1. e.cur \in Conv \X (Person \union {None}) /\ e.gen \in Gen /\ e.cur # None /\ e.cur[1] \in Conv
      BY <2>1, <2>3, ExtractAssumption DEF Sound, Shaped, Inside
    <3>2. WalksIn(q, e.cur[1])
      BY <2>3, <3>1 DEF WalksIn
    <3>3. e.cur[1] = c => \A n \in e.page \union {e.pos} : n \in Reached(c)
      BY <3>2 DEF Reached
    <3>4. e.pc \in {"ask", "put", "advance"} =>
            e.page # {} /\ (e.cur[1] = c => Greatest(e.page) \in Reached(c))
      <4> SUFFICES ASSUME e.pc \in {"ask", "put", "advance"}
                   PROVE  e.page # {} /\ (e.cur[1] = c => Greatest(e.page) \in Reached(c))
        OBVIOUS
      <4>1. e.page # {} /\ e.page \in SUBSET Msg
        BY <2>1, <2>3 DEF Sound, Behind, Passes
      <4>2. Greatest(e.page) \in e.page
        BY <4>1, GreatestIs
      <4> QED
        BY <3>3, <4>1, <4>2
    <3>5. ASSUME NEW m \in Real(Within(e.cur[1]))', m <= e.pos
          PROVE  Accounted(m, e.gen)'
      <4>1. m \in Real(Within(e.cur[1])) => Accounted(m, e.gen)
        BY <2>1, <2>3, <3>5 DEF Sound, Behind, Covered
      <4> QED
        BY <1>4, <3>1, <3>3, <3>5, <4>1
    <3>6. ASSUME e.pc \in {"ask", "put", "advance"},
                 NEW m \in Real(Within(e.cur[1]))', m <= Greatest(e.page)
          PROVE  (m \notin e.page \/ e.pc = "advance") => Accounted(m, e.gen)'
      <4> SUFFICES ASSUME m \notin e.page \/ e.pc = "advance"
                   PROVE  Accounted(m, e.gen)'
        OBVIOUS
      <4>1. m \in Real(Within(e.cur[1])) => Accounted(m, e.gen)
        BY <2>1, <2>3, <3>6 DEF Sound, Behind, Covered
      <4> QED
        BY <1>4, <3>1, <3>4, <3>6, <4>1
    <3>7. Covered(e.cur[1], e.pos, e.gen)'
      BY <3>5 DEF Covered
    <3>8. e.pc = "advance" => Covered(e.cur[1], Greatest(e.page), e.gen)'
      BY <3>6 DEF Covered
    <3> QED
      BY <3>4, <3>6, <3>7, <3>8 DEF Behind, Greatest
  <2>4. e.pc \notin Inside => Behind(e)'
    BY DEF Behind, Inside
  <2> QED
    BY <2>2, <2>3, <2>4 DEF Sound
<1> QED
  BY <1>3, <1>5, <1>6 DEF IInv

LEMMA OthersKeep ==
  ASSUME IInv, Others
  PROVE  IInv'
<1>1. CASE Configure
  <2>1. Onward /\ Typed' /\ UNCHANGED <<state, run>>
    BY <1>1 DEF Configure, Onward, Accounted, Derived, IInv, Typed, store, history
  <2> QED
    BY <2>1, CursorsKept, AllStay DEF IInv
<1>2. CASE OptOut
  <2>1. UNCHANGED <<messages, kind, state, run>> /\ Typed'
    BY <1>2 DEF OptOut, IInv, Typed, settings
  <2>2. missed \subseteq missed' /\ \A f \in rows : f \in rows' \/ <<f.msg, f.gen>> \in missed'
    BY <1>2 DEF OptOut
  <2>3. Onward
    BY <1>2, <2>1, <2>2 DEF OptOut, Onward, Accounted, Derived
  <2> QED
    BY <2>1, <2>3, CursorsKept, AllStay DEF IInv
<1>3. CASE OptIn
  <2>1. Onward /\ Typed' /\ UNCHANGED <<state, run>>
    BY <1>3 DEF OptIn, Onward, Accounted, Derived, IInv, Typed, settings
  <2> QED
    BY <2>1, CursorsKept, AllStay DEF IInv
\* Facts keep their messages and generations.
<1>4. CASE Merge
  <2>1. PICK winner \in Person, loser \in Person :
          /\ contact' = [c \in Conv |-> IF contact[c] = loser THEN winner ELSE contact[c]]
          /\ rows' = IF kind # "facts" THEN rows
                     ELSE {[f EXCEPT !.who = IF @ = loser THEN winner ELSE @] : f \in rows}
    BY <1>4 DEF Merge
  <2>2. UNCHANGED <<messages, kind, gen, state, run, optedOut, missed>>
    BY <1>4 DEF Merge, history, settings
  <2>3. rows' \subseteq [msg : Msg, gen : Gen, who : Person \union {Owner, None}]
    BY <2>1 DEF IInv, Typed
  <2>4. \A f \in rows : \E h \in rows' : h.msg = f.msg /\ h.gen = f.gen
    <3> TAKE f \in rows
    <3>1. CASE kind # "facts"
      BY <2>1, <3>1
    <3>2. CASE kind = "facts"
      <4> DEFINE h == [f EXCEPT !.who = IF @ = loser THEN winner ELSE @]
      <4>1. h \in rows'
        BY <2>1, <3>2
      <4>2. h.msg = f.msg /\ h.gen = f.gen
        BY DEF IInv, Typed
      <4> QED
        BY <4>1, <4>2
    <3> QED
      BY <3>1, <3>2
  <2>5. Onward
    BY <2>2, <2>4 DEF Onward, Accounted, Derived
  <2>6. Typed'
    BY <2>1, <2>2, <2>3 DEF IInv, Typed
  <2> QED
    BY <2>2, <2>5, <2>6, CursorsKept, AllStay DEF IInv
<1> QED
  BY <1>1, <1>2, <1>3, <1>4, ImportKeeps DEF Others

LEMMA IInvInductive ==
  /\ ExtractInit => IInv
  /\ IInv /\ [ExtractNext]_extractVars => IInv'
<1>1. ASSUME ExtractInit PROVE IInv
  <2>1. Typed
    BY <1>1, IdleIs, ExtractAssumption DEF ExtractInit, ExtractStart, Typed
  <2>2. Cursors
    BY <1>1 DEF ExtractInit, ExtractStart, Cursors
  <2>3. Walks
    BY <1>1, IdleIs DEF ExtractInit, ExtractStart, Walks
  <2> QED
    BY <2>1, <2>2, <2>3 DEF IInv
<1>2. ASSUME IInv, ExtractNext PROVE IInv'
  <2>1. ASSUME NEW r \in Runner, Step(r) PROVE IInv'
    BY <1>2, <2>1, ReapKeeps, ResetKeeps, ListKeeps, FilterKeeps, LoadKeeps, ResolveKeeps,
       ReadPageKeeps, AnsweredKeeps, PutFactKeeps, EndKeeps, FactsPutKeeps, AdvanceKeeps,
       CommitKeeps, ClearDayKeeps, ReadDayKeeps, AskDayKeeps, PutDayKeeps, AddEventKeeps
       DEF Step
  <2>2. ASSUME NEW r \in Runner, Fault(r) PROVE IInv'
    BY <1>2, <2>2, UnparseableKeeps, RefusedKeeps, EndKeeps DEF Fault
  <2> QED
    BY <1>2, <2>1, <2>2, StartKeeps, OthersKeep DEF ExtractNext
<1>3. ASSUME IInv, UNCHANGED extractVars PROVE IInv'
  <2>1. Onward /\ Typed' /\ UNCHANGED <<state, run>>
    BY <1>3 DEF extractVars, Onward, Accounted, Derived, IInv, Typed
  <2> QED
    BY <1>3, <2>1, CursorsKept, AllStay DEF IInv
<1> QED
  BY <1>1, <1>2, <1>3

\* Nothing is passed over: whatever a cursor that can be resumed has behind it has its
\* rows, or is written down as lost to it, after any crashes, refusals, imports, merges,
\* resets, opt-outs and changes of the model, in any number of processes at once.
\* (The loops of facts.go, sentiment/run.go and spam/run.go, and ResolveCursor.)
THEOREM CursorsCover == ExtractSpec => []CursorCovers
<1>1. ASSUME IInv PROVE CursorCovers
  <2> SUFFICES ASSUME NEW c \in Conv, state[c] # None, NEW m \in Real(Within(c)),
                      m <= state[c].anchor
               PROVE  Accounted(m, state[c].gen)
    BY DEF CursorCovers, Accounted
  <2>1. state[c] \in [anchor : Msg, gen : Gen]
    BY <1>1 DEF IInv, Typed
  <2> QED
    BY <1>1, <2>1 DEF IInv, Cursors, Covered
<1> QED
  BY <1>1, IInvInductive, PTL DEF ExtractSpec
-----------------------------------------------------------------------------
(* The flags of the spam findings                                          *)

\* A pass that goes on has not ended.
LEMMA GoesOn ==
  ASSUME NEW r \in Runner, run[r] \in Passes, NEW e, "pc" \in DOMAIN e, e.pc # "idle", Goes(r, e),
         run \in [Runner -> Passes]
  PROVE  run'[r].pc # "idle"
BY GoesTo

AllIdle == \A r \in Runner : run[r].pc = "idle"

\* A scan that ends as it should has made the flags itself.
LEMMA StepKeepsFlags ==
  ASSUME IInv, FlagsAreCurrent, NEW r \in Runner, Start(r) \/ Step(r) \/ Fault(r)
  PROVE  FlagsAreCurrent'
<1> SUFFICES ASSUME kind' = "spam", settled' # None, AllIdle'
             PROVE  \A f \in rows' : f.gen = settled' =>
                      (AfterOptOut(f)' <=> <<f.msg, f.gen>> \in flagged')
  BY DEF FlagsAreCurrent, AllIdle
<1>1. run[r] \in Passes /\ run \in [Runner -> Passes] /\ run'[r].pc = "idle"
  BY PassIs DEF AllIdle, IInv, Typed
<1>2. kind = "spam"
  BY DEF Start, Step, Fault, Reap, Reset, List, Filter, Load, Resolve, ReadPage, Answered,
         PutFact, FactRefused, FactsPut, Advance, Commit, ClearDay, ReadDay, AskDay, PutDay,
         AddEvent, Recompute, Finish, Unparseable, Refused, CutShort, settings
<1>3. CASE Recompute(r)
  <2>1. settled' = run[r].gen /\ UNCHANGED <<rows, events>>
    BY <1>3 DEF Recompute
  <2>2. ASSUME NEW f \in rows', f.gen = settled'
        PROVE  AfterOptOut(f)' <=> <<f.msg, f.gen>> \in flagged'
    <3>1. AfterOptOut(f)' <=> AfterOptOut(f)
      BY <2>1 DEF AfterOptOut
    <3>2. ASSUME <<f.msg, f.gen>> \in flagged' PROVE AfterOptOut(f)
      <4>1. PICK g \in rows : /\ <<f.msg, f.gen>> = <<g.msg, g.gen>>
                              /\ IF g.gen = run[r].gen THEN AfterOptOut(g)
                                 ELSE <<g.msg, g.gen>> \in flagged
        BY <1>3, <3>2 DEF Recompute
      <4>2. AfterOptOut(g) /\ g.msg = f.msg
        BY <2>1, <2>2, <4>1
      <4> QED
        BY <4>2 DEF AfterOptOut
    <3>3. ASSUME AfterOptOut(f) PROVE <<f.msg, f.gen>> \in flagged'
      BY <1>3, <2>1, <2>2, <3>3 DEF Recompute
    <3> QED
      BY <3>1, <3>2, <3>3
  <2> QED
    BY <2>2
<1>4. CASE CutShort(r)
  BY <1>4 DEF CutShort
<1>5. CASE Reset(r)
  BY <1>5 DEF Reset
<1>6. CASE PutFact(r) \/ FactRefused(r) \/ FactsPut(r) \/ Finish(r)
  BY <1>2, <1>6 DEF PutFact, FactRefused, FactsPut, Finish
\* Whatever else a pass does, it has not ended then.
<1>7. CASE Start(r)
  BY <1>1, <1>7, GoesOn, Zenon DEF Start
<1>8. CASE Reap(r) \/ List(r) \/ Filter(r) \/ Load(r)
  BY <1>1, <1>8, GoesOn DEF Reap, List, Filter, Load
<1>9. CASE Resolve(r) \/ Answered(r) \/ ClearDay(r) \/ AddEvent(r) \/ AskDay(r)
  BY <1>1, <1>9, GoesOn DEF Resolve, Answered, ClearDay, AddEvent, AskDay
<1>10. CASE Advance(r) \/ Commit(r)
  BY <1>1, <1>10, GoesOn DEF Advance, Commit, NextPage, Leaving
<1>11. CASE ReadPage(r) \/ ReadDay(r) \/ PutDay(r) \/ Unparseable(r)
  <2>1. \E e : "pc" \in DOMAIN e /\ e.pc # "idle" /\ Goes(r, e)
    <3>1. CASE ReadPage(r)
      <4>1. CASE First(After(run[r].cur[1], run[r].pos)) = {}
        <5>1. Goes(r, Leaving)
          BY <3>1, <4>1 DEF ReadPage
        <5> QED
          BY <5>1 DEF Leaving
      <4>2. CASE First(After(run[r].cur[1], run[r].pos)) # {}
        <5> DEFINE pc == IF kind # "spam" /\ Real(First(After(run[r].cur[1], run[r].pos))) # {}
                         THEN "ask" ELSE "put"
        <5>1. \E p, more : Goes(r, [pc |-> pc, page |-> p, more |-> more])
          BY <3>1, <4>2, Zenon DEF ReadPage
        <5>2. pc # "idle"
          OBVIOUS
        <5> HIDE DEF pc
        <5> QED
          BY <5>1, <5>2
      <4> QED
        BY <4>1, <4>2
    <3>2. CASE ReadDay(r)
      <4>1. \E p, t : Goes(r, [pc |-> "next", page |-> p, todo |-> t])
        BY <3>2, Zenon DEF ReadDay
      <4> QED
        BY <4>1
    <3>3. CASE PutDay(r)
      <4>1. Goes(r, LeavingDay)
        BY <3>3 DEF PutDay
      <4> QED
        BY <4>1 DEF LeavingDay
    <3>4. CASE Unparseable(r)
      <4>1. Goes(r, LeavingDay) \/ Goes(r, [pc |-> "advance"])
        BY <3>4 DEF Unparseable
      <4> QED
        BY <4>1 DEF LeavingDay
    <3> QED
      BY <1>11, <3>1, <3>2, <3>3, <3>4
  <2> QED
    BY <1>1, <2>1, GoesOn
<1>12. CASE Refused(r)
  <2>1. Goes(r, LeavingDay) \/ Goes(r, Leaving)
    BY <1>2, <1>12 DEF Refused, Goes
  <2> QED
    BY <1>1, <2>1, GoesOn DEF Leaving, LeavingDay
<1> QED
  BY <1>3, <1>4, <1>5, <1>6, <1>7, <1>8, <1>9, <1>10, <1>11, <1>12 DEF Step, Fault

LEMMA OthersKeepFlags ==
  ASSUME FlagsAreCurrent, Others \/ UNCHANGED extractVars
  PROVE  FlagsAreCurrent'
<1>1. CASE OptOut \/ OptIn
  BY <1>1 DEF OptOut, OptIn, FlagsAreCurrent, settings
<1>2. CASE Import \/ Configure \/ Merge \/ UNCHANGED extractVars
  <2>1. UNCHANGED <<kind, settled, run, events, flagged>> /\ (kind = "spam" => rows' = rows)
    BY <1>2 DEF Import, Configure, Merge, extractVars, store, history, settings
  <2> QED
    BY <2>1 DEF FlagsAreCurrent, AfterOptOut
<1> QED
  BY <1>1, <1>2 DEF Others

\* Once every scan has ended, and none was cut short, is_after_optout says of each
\* finding of the generation scanned last what the events say, in whichever order the
\* processes found messages and STOPs.  (RecomputeSpamAfterOptOut is wholesale.)
THEOREM FlagsCurrent == ExtractSpec => []FlagsAreCurrent
<1>1. ExtractInit => FlagsAreCurrent
  BY DEF ExtractInit, ExtractStart, FlagsAreCurrent
<1>2. IInv /\ FlagsAreCurrent /\ [ExtractNext]_extractVars => FlagsAreCurrent'
  BY StepKeepsFlags, OthersKeepFlags DEF ExtractNext
<1> QED
  BY <1>1, <1>2, IInvInductive, PTL DEF ExtractSpec

-----------------------------------------------------------------------------
(* The journal, and the client of the language model.                      *)

Fields == {"pc", "prompt", "renew", "counts", "left", "todo", "day", "lines"}

\* A run has a count of every day it has still to write, to check or to digest.
JournalCounted(j) ==
  /\ DOMAIN j = Fields
  /\ j.pc \in {"idle", "count", "put", "check", "next", "ask"}
  /\ j.pc # "idle" => j.left \subseteq Day
  /\ j.pc \in {"put", "check", "next", "ask"} =>
       /\ DOMAIN j.counts \subseteq Day
       /\ j.left \subseteq DOMAIN j.counts
       /\ j.todo \subseteq DOMAIN j.counts
  /\ j.pc \in {"idle", "count"} => j.todo = {}
  /\ j.pc = "ask" => j.day \in DOMAIN j.counts

\* What was counted and read while the day S has left out nothing since: no more
\* than is there.
JournalBehind(d, tally, read) ==
  /\ read \subseteq Lines(d)
  /\ tally \in Nat /\ tally <= Cardinality(read)

CountBehind(j) ==
  j.pc \in {"put", "check", "next", "ask"} =>
    \A d \in DOMAIN j.counts \ shrunk : JournalBehind(d, j.counts[d], Lines(d))

ReadBehind(j) ==
  j.pc = "ask" /\ j.day \notin shrunk => JournalBehind(j.day, j.counts[j.day], j.lines)

DigestBehind ==
  \A d \in Day \ shrunk : digest[d] # Unset => JournalBehind(d, digest[d].count, digest[d].read)

JInv ==
  /\ messages \subseteq Msg
  /\ DOMAIN digest = Day
  /\ DOMAIN jrun = Writer
  /\ \A w \in Writer : JournalCounted(jrun[w]) /\ CountBehind(jrun[w]) /\ ReadBehind(jrun[w])
  /\ DigestBehind

LEMMA LinesFinite ==
  ASSUME messages \subseteq Msg, NEW d
  PROVE  /\ IsFiniteSet(Lines(d)) /\ Cardinality(Lines(d)) \in Nat
         /\ \A S \in SUBSET Lines(d) : IsFiniteSet(S) /\ Cardinality(S) \in Nat
<1>1. IsFiniteSet(Msg)
  BY ArchiveAssumption
<1>2. Lines(d) \subseteq Msg
  BY DEF Lines, Real, Dated
<1> QED
  BY <1>1, <1>2, FS_Subset, FS_CardinalityType

\* A digest that is behind its day, and has its day's count, is not behind.
LEMMA BehindComplete ==
  ASSUME messages \subseteq Msg, NEW d, NEW read, NEW tally,
         JournalBehind(d, tally, read), tally = Cardinality(Lines(d))
  PROVE  read = Lines(d)
<1>1. IsFiniteSet(Lines(d))
  BY LinesFinite
<1>2. /\ Cardinality(read) <= Cardinality(Lines(d))
      /\ Cardinality(read) = Cardinality(Lines(d)) => read = Lines(d)
  BY <1>1, FS_Subset DEF JournalBehind
<1>3. Cardinality(read) \in Nat /\ Cardinality(Lines(d)) \in Nat
  BY LinesFinite DEF JournalBehind
<1> QED
  BY <1>2, <1>3 DEF JournalBehind

\* The fields of a run after a step of its own, and the others' runs.
LEMMA DoesTo ==
  ASSUME NEW w \in Writer, DOMAIN jrun = Writer, DOMAIN jrun[w] = Fields, NEW e, Does(w, e)
  PROVE  /\ DOMAIN jrun' = Writer
         /\ DOMAIN jrun'[w] = Fields
         /\ \A f \in Fields : jrun'[w][f] = IF f \in DOMAIN e THEN e[f] ELSE jrun[w][f]
         /\ \A v \in Writer \ {w} : jrun'[v] = jrun[v]
<1>1. jrun'[w] = Changed(jrun[w], e)
  BY DEF Does
<1> QED
  BY <1>1 DEF Does, Changed

\* A step of one run that leaves the archive and the digests alone.
LEMMA RunKeeps ==
  ASSUME JInv, NEW w \in Writer, UNCHANGED <<messages, digest, shrunk>>,
         DOMAIN jrun' = Writer, \A v \in Writer \ {w} : jrun'[v] = jrun[v],
         NEW j, j = jrun'[w], JournalCounted(j), CountBehind(j), ReadBehind(j)
  PROVE  JInv'
<1>1. \A d : Lines(d)' = Lines(d)
  BY DEF Lines, Real, Dated
<1>2. \A d, tally, read : JournalBehind(d, tally, read)' <=> JournalBehind(d, tally, read)
  BY <1>1 DEF JournalBehind
<1>3. DigestBehind'
  BY <1>2 DEF JInv, DigestBehind
<1>4. ASSUME NEW v \in Writer
      PROVE  (JournalCounted(jrun[v]) /\ CountBehind(jrun[v]) /\ ReadBehind(jrun[v]))'
  <2>1. \E k : k = jrun'[v] /\ JournalCounted(k) /\ CountBehind(k) /\ ReadBehind(k)
    BY DEF JInv
  <2>2. PICK k : k = jrun'[v] /\ JournalCounted(k) /\ CountBehind(k) /\ ReadBehind(k)
    BY <2>1
  <2>3. (CountBehind(k) /\ ReadBehind(k))'
    BY <1>1, <2>2 DEF CountBehind, ReadBehind, JournalBehind
  <2> QED
    BY <2>2, <2>3 DEF JournalCounted, CountBehind, ReadBehind
<1>5. messages' \subseteq Msg /\ DOMAIN digest' = Day
  BY DEF JInv
<1> QED
  BY <1>3, <1>4, <1>5 DEF JInv

LEMMA RunIs ==
  ASSUME JInv, NEW w \in Writer
  PROVE  /\ messages \subseteq Msg /\ DOMAIN jrun = Writer /\ DOMAIN jrun[w] = Fields
         /\ JournalCounted(jrun[w]) /\ CountBehind(jrun[w]) /\ ReadBehind(jrun[w])
BY DEF JInv, JournalCounted

LEMMA BeginKeeps ==
  ASSUME JInv, NEW w \in Writer, Begin(w)
  PROVE  JInv'
<1>1. PICK renew \in BOOLEAN, scope \in {Day} \union {{d} : d \in Day} :
        Does(w, [pc |-> "count", prompt |-> prompt, renew |-> renew, left |-> scope])
  BY DEF Begin
<1>2. /\ DOMAIN jrun'[w] = Fields /\ jrun'[w].pc = "count" /\ jrun'[w].left = scope
      /\ jrun'[w].todo = jrun[w].todo
      /\ DOMAIN jrun' = Writer /\ \A v \in Writer \ {w} : jrun'[v] = jrun[v]
  BY <1>1, RunIs, DoesTo DEF Fields
<1>3. \E j : j = jrun'[w] /\ JournalCounted(j) /\ CountBehind(j) /\ ReadBehind(j)
  <2>1. jrun[w].todo = {} /\ scope \subseteq Day
    BY RunIs DEF Begin, JournalCounted
  <2> QED
    BY <1>2, <2>1 DEF JournalCounted, CountBehind, ReadBehind
<1> QED
  BY <1>2, <1>3, RunKeeps DEF Begin

LEMMA CountDaysKeeps ==
  ASSUME JInv, NEW w \in Writer, CountDays(w)
  PROVE  JInv'
<1> DEFINE days == {d \in jrun[w].left : Lines(d) # {}}
           counts == [d \in days |-> Cardinality(Lines(d))]
<1>1. /\ jrun[w].pc = "count" /\ Does(w, [pc |-> "put", left |-> days, counts |-> counts])
      /\ UNCHANGED <<messages, digest, shrunk>>
  BY DEF CountDays
<1>2. days \subseteq Day /\ jrun[w].todo = {}
  BY <1>1, RunIs DEF JournalCounted
<1>3. DOMAIN counts = days /\ \A d \in days : JournalBehind(d, counts[d], Lines(d))
  BY RunIs, LinesFinite DEF JournalBehind
<1> HIDE DEF days, counts
<1>4. /\ DOMAIN jrun'[w] = Fields /\ jrun'[w].pc = "put" /\ jrun'[w].left = days
      /\ jrun'[w].counts = counts /\ jrun'[w].todo = {}
      /\ DOMAIN jrun' = Writer /\ \A v \in Writer \ {w} : jrun'[v] = jrun[v]
  BY <1>1, <1>2, RunIs, DoesTo DEF Fields
<1>5. \E j : j = jrun'[w] /\ JournalCounted(j) /\ CountBehind(j) /\ ReadBehind(j)
  BY <1>2, <1>3, <1>4 DEF JournalCounted, CountBehind, ReadBehind
<1> QED
  BY <1>1, <1>4, <1>5, RunKeeps

\* Steps over the days: to the next day, or on.
LEMMA WalkKeeps ==
  ASSUME JInv, NEW w \in Writer, jrun[w].pc \in {"put", "check", "next"},
         UNCHANGED <<messages, digest, shrunk>>, DOMAIN jrun' = Writer,
         \A v \in Writer \ {w} : jrun'[v] = jrun[v],
         DOMAIN jrun'[w] = Fields, jrun'[w].pc \in {"put", "check", "next"},
         jrun'[w].counts = jrun[w].counts,
         jrun'[w].left \subseteq DOMAIN jrun[w].counts,
         jrun'[w].todo \subseteq DOMAIN jrun[w].counts
  PROVE  JInv'
<1>1. \E j : j = jrun'[w] /\ JournalCounted(j) /\ CountBehind(j) /\ ReadBehind(j)
  BY RunIs DEF JournalCounted, CountBehind, ReadBehind
<1> QED
  BY <1>1, RunKeeps

LEMMA PutDayCountKeeps ==
  ASSUME JInv, NEW w \in Writer, PutDayCount(w)
  PROVE  JInv'
<1>1. /\ jrun[w].pc = "put" /\ jrun[w].left \subseteq DOMAIN jrun[w].counts
      /\ jrun[w].todo \subseteq DOMAIN jrun[w].counts
      /\ UNCHANGED <<messages, digest, shrunk>>
  BY RunIs DEF PutDayCount, JournalCounted
<1>2. CASE Does(w, [pc |-> "check", left |-> DOMAIN jrun[w].counts])
  <2>1. /\ DOMAIN jrun'[w] = Fields /\ jrun'[w].pc = "check"
        /\ jrun'[w].left = DOMAIN jrun[w].counts
        /\ jrun'[w].counts = jrun[w].counts /\ jrun'[w].todo = jrun[w].todo
        /\ DOMAIN jrun' = Writer /\ \A v \in Writer \ {w} : jrun'[v] = jrun[v]
    BY <1>2, RunIs, DoesTo DEF Fields
  <2> QED
    BY <1>1, <2>1, WalkKeeps
<1>3. ASSUME NEW S, Does(w, [left |-> jrun[w].left \ S])
      PROVE  JInv'
  <2>1. /\ DOMAIN jrun'[w] = Fields /\ jrun'[w].pc = "put"
        /\ jrun'[w].left = jrun[w].left \ S
        /\ jrun'[w].counts = jrun[w].counts /\ jrun'[w].todo = jrun[w].todo
        /\ DOMAIN jrun' = Writer /\ \A v \in Writer \ {w} : jrun'[v] = jrun[v]
    BY <1>1, <1>3, RunIs, DoesTo DEF Fields
  <2> QED
    BY <1>1, <2>1, WalkKeeps
<1> QED
  BY <1>2, <1>3 DEF PutDayCount

LEMMA CheckKeeps ==
  ASSUME JInv, NEW w \in Writer, Check(w)
  PROVE  JInv'
<1>1. /\ jrun[w].pc = "check" /\ jrun[w].left \subseteq DOMAIN jrun[w].counts
      /\ jrun[w].todo \subseteq DOMAIN jrun[w].counts
      /\ UNCHANGED <<messages, digest, shrunk>>
  BY RunIs DEF Check, JournalCounted
<1>2. PICK d \in jrun[w].left :
        Does(w, [left |-> jrun[w].left \ {d},
                 todo |-> IF DigestCurrent(w, d) THEN jrun[w].todo ELSE jrun[w].todo \union {d}])
  BY DEF Check
<1>3. /\ DOMAIN jrun'[w] = Fields /\ jrun'[w].pc = "check"
      /\ jrun'[w].left = jrun[w].left \ {d}
      /\ jrun'[w].counts = jrun[w].counts
      /\ jrun'[w].todo = IF DigestCurrent(w, d) THEN jrun[w].todo ELSE jrun[w].todo \union {d}
      /\ DOMAIN jrun' = Writer /\ \A v \in Writer \ {w} : jrun'[v] = jrun[v]
  BY <1>1, <1>2, RunIs, DoesTo DEF Fields
<1>4. jrun'[w].todo \subseteq DOMAIN jrun[w].counts
  BY <1>1, <1>3
<1> QED
  BY <1>1, <1>3, <1>4, WalkKeeps

LEMMA ChooseKeeps ==
  ASSUME JInv, NEW w \in Writer, Choose(w)
  PROVE  JInv'
<1>1. /\ jrun[w].pc = "check" /\ jrun[w].left \subseteq DOMAIN jrun[w].counts
      /\ jrun[w].todo \subseteq DOMAIN jrun[w].counts
      /\ UNCHANGED <<messages, digest, shrunk>>
  BY RunIs DEF Choose, JournalCounted
<1>2. PICK some \in {Newest(jrun[w].todo), Oldest(jrun[w].todo)} :
        Does(w, [pc |-> "next", todo |-> some])
  BY DEF Choose
<1>3. some \subseteq jrun[w].todo
  BY DEF Newest, Oldest
<1>4. /\ DOMAIN jrun'[w] = Fields /\ jrun'[w].pc = "next" /\ jrun'[w].todo = some
      /\ jrun'[w].left = jrun[w].left /\ jrun'[w].counts = jrun[w].counts
      /\ DOMAIN jrun' = Writer /\ \A v \in Writer \ {w} : jrun'[v] = jrun[v]
  BY <1>2, RunIs, DoesTo DEF Fields
<1> QED
  BY <1>1, <1>3, <1>4, WalkKeeps

\* What is read has the count of the day, which has only grown since.
LEMMA ReadTranscriptKeeps ==
  ASSUME JInv, NEW w \in Writer, ReadTranscript(w)
  PROVE  JInv'
<1>1. /\ jrun[w].pc = "next" /\ jrun[w].left \subseteq DOMAIN jrun[w].counts
      /\ jrun[w].todo \subseteq DOMAIN jrun[w].counts /\ DOMAIN jrun[w].counts \subseteq Day
      /\ UNCHANGED <<messages, digest, shrunk>>
  BY RunIs DEF ReadTranscript, JournalCounted
<1>2. PICK d \in jrun[w].todo :
        IF Lines(d) = {} THEN Does(w, [todo |-> jrun[w].todo \ {d}])
        ELSE Does(w, [pc |-> "ask", todo |-> jrun[w].todo \ {d}, day |-> d, lines |-> Lines(d)])
  BY DEF ReadTranscript
<1>3. CASE Does(w, [todo |-> jrun[w].todo \ {d}])
  <2>1. /\ DOMAIN jrun'[w] = Fields /\ jrun'[w].pc = "next" /\ jrun'[w].todo = jrun[w].todo \ {d}
        /\ jrun'[w].left = jrun[w].left /\ jrun'[w].counts = jrun[w].counts
        /\ DOMAIN jrun' = Writer /\ \A v \in Writer \ {w} : jrun'[v] = jrun[v]
    BY <1>1, <1>3, RunIs, DoesTo DEF Fields
  <2> QED
    BY <1>1, <2>1, WalkKeeps
<1>4. CASE Does(w, [pc |-> "ask", todo |-> jrun[w].todo \ {d}, day |-> d, lines |-> Lines(d)])
  <2>1. /\ DOMAIN jrun'[w] = Fields /\ jrun'[w].pc = "ask" /\ jrun'[w].todo = jrun[w].todo \ {d}
        /\ jrun'[w].left = jrun[w].left /\ jrun'[w].counts = jrun[w].counts
        /\ jrun'[w].day = d /\ jrun'[w].lines = Lines(d)
        /\ DOMAIN jrun' = Writer /\ \A v \in Writer \ {w} : jrun'[v] = jrun[v]
    BY <1>4, RunIs, DoesTo DEF Fields
  <2>2. \A e \in DOMAIN jrun[w].counts \ shrunk : JournalBehind(e, jrun[w].counts[e], Lines(e))
    BY <1>1, RunIs DEF CountBehind
  <2>3. \E j : j = jrun'[w] /\ JournalCounted(j) /\ CountBehind(j) /\ ReadBehind(j)
    BY <1>1, <2>1, <2>2 DEF JournalCounted, CountBehind, ReadBehind
  <2> QED
    BY <1>1, <2>1, <2>3, RunKeeps
<1> QED
  BY <1>2, <1>3, <1>4

\* A run that has dealt with its day, or has ended.
LEMMA LeaveKeeps ==
  ASSUME JInv, NEW w \in Writer, UNCHANGED <<messages, shrunk>>, DOMAIN digest' = Day, DigestBehind',
         \/ jrun[w].pc = "ask" /\ Does(w, [pc |-> "next", day |-> Unset, lines |-> {}])
         \/ jrun' = [jrun EXCEPT ![w] = Quiet]
  PROVE  JInv'
<1>1. /\ DOMAIN jrun' = Writer /\ \A v \in Writer \ {w} : jrun'[v] = jrun[v]
      /\ \E j : j = jrun'[w] /\ JournalCounted(j) /\ CountBehind(j) /\ ReadBehind(j)
  <2>1. CASE jrun[w].pc = "ask" /\ Does(w, [pc |-> "next", day |-> Unset, lines |-> {}])
    <3>1. /\ DOMAIN jrun'[w] = Fields /\ jrun'[w].pc = "next" /\ jrun'[w].todo = jrun[w].todo
          /\ jrun'[w].left = jrun[w].left /\ jrun'[w].counts = jrun[w].counts
          /\ DOMAIN jrun' = Writer /\ \A v \in Writer \ {w} : jrun'[v] = jrun[v]
      BY <2>1, RunIs, DoesTo DEF Fields
    <3> QED
      BY <2>1, <3>1, RunIs DEF JournalCounted, CountBehind, ReadBehind
  <2>2. CASE jrun' = [jrun EXCEPT ![w] = Quiet]
    BY <2>2, RunIs DEF Quiet, JournalCounted, CountBehind, ReadBehind, Fields
  <2> QED
    BY <2>1, <2>2
<1>2. \A v \in Writer : \E k : k = jrun'[v] /\ JournalCounted(k) /\ CountBehind(k) /\ ReadBehind(k)
  BY <1>1, RunIs
<1>3. ASSUME NEW v \in Writer
      PROVE  (JournalCounted(jrun[v]) /\ CountBehind(jrun[v]) /\ ReadBehind(jrun[v]))'
  <2>1. PICK k : k = jrun'[v] /\ JournalCounted(k) /\ CountBehind(k) /\ ReadBehind(k)
    BY <1>2
  <2>2. (CountBehind(k) /\ ReadBehind(k))'
    BY <2>1 DEF CountBehind, ReadBehind, JournalBehind, Lines, Real, Dated
  <2> QED
    BY <2>1, <2>2 DEF JournalCounted, CountBehind, ReadBehind
<1> QED
  BY <1>1, <1>3 DEF JInv

LEMMA PutDayDigestKeeps ==
  ASSUME JInv, NEW w \in Writer, PutDayDigest(w)
  PROVE  JInv'
<1> DEFINE new == [read |-> jrun[w].lines, count |-> jrun[w].counts[jrun[w].day],
                   prompt |-> jrun[w].prompt]
<1>1. /\ jrun[w].pc = "ask" /\ digest' = [digest EXCEPT ![jrun[w].day] = new]
      /\ Does(w, [pc |-> "next", day |-> Unset, lines |-> {}])
      /\ UNCHANGED <<messages, shrunk>>
  BY DEF PutDayDigest
<1>2. DOMAIN digest' = Day
  BY <1>1 DEF JInv
<1>3. jrun[w].day \notin shrunk => JournalBehind(jrun[w].day, new.count, new.read)
  BY <1>1, RunIs DEF ReadBehind
<1> HIDE DEF new
<1>4. ASSUME NEW d \in Day \ shrunk, digest'[d] # Unset
      PROVE  JournalBehind(d, digest'[d].count, digest'[d].read)
  <2>1. CASE d = jrun[w].day
    BY <1>1, <1>3, <2>1 DEF JInv
  <2>2. CASE d # jrun[w].day
    BY <1>1, <1>4, <2>2 DEF JInv, DigestBehind
  <2> QED
    BY <2>1, <2>2
<1>5. DigestBehind'
  <2>1. \A d \in Day \ shrunk : digest'[d] # Unset =>
           digest'[d].read \subseteq Lines(d)
           /\ digest'[d].count \in Nat /\ digest'[d].count <= Cardinality(digest'[d].read)
    BY <1>4 DEF JournalBehind
  <2>2. \A d : Lines(d)' = Lines(d)
    BY <1>1 DEF Lines, Real, Dated
  <2> QED
    BY <1>1, <2>1, <2>2 DEF DigestBehind, JournalBehind
<1> QED
  BY <1>1, <1>2, <1>5, LeaveKeeps

LEMMA LinesGrow ==
  ASSUME messages \subseteq Msg, ImportDay, NEW d \in Day, d \notin shrunk'
  PROVE  /\ Lines(d) \subseteq Lines(d)' /\ messages' \subseteq Msg /\ d \notin shrunk
<1>1. PICK c \in Conv : \E S \in SUBSET {m \in Msg : ConvOf[m] = c} :
        /\ Replace(c, S) /\ shrunk' = shrunk \union {DayOf[m] : m \in Within(c) \ S}
  BY DEF ImportDay
<1>2. PICK S \in SUBSET {m \in Msg : ConvOf[m] = c} :
        /\ Replace(c, S) /\ shrunk' = shrunk \union {DayOf[m] : m \in Within(c) \ S}
  BY <1>1
<1>3. ASSUME NEW m \in messages, DayOf[m] = d
      PROVE  m \in messages'
  BY <1>2, <1>3 DEF Replace, Within
<1> QED
  BY <1>2, <1>3 DEF Lines, Real, Dated, Replace

LEMMA ImportDayKeeps ==
  ASSUME JInv, ImportDay
  PROVE  JInv'
<1>1. messages \subseteq Msg /\ messages' \subseteq Msg /\ UNCHANGED <<digest, jrun>>
  BY DEF JInv, ImportDay, Replace
<1>2. \A d \in Day \ shrunk' : d \notin shrunk /\ Lines(d) \subseteq Lines(d)'
  BY <1>1, LinesGrow
<1>3. \A d \in Day \ shrunk' : \A tally, read : JournalBehind(d, tally, read) => JournalBehind(d, tally, read)'
  BY <1>2 DEF JournalBehind
<1>4. \A d \in Day \ shrunk' : \A tally : JournalBehind(d, tally, Lines(d)) => JournalBehind(d, tally, Lines(d))'
  <2>1. ASSUME NEW d \in Day \ shrunk', NEW tally, JournalBehind(d, tally, Lines(d))
        PROVE  JournalBehind(d, tally, Lines(d))'
    <3>1. IsFiniteSet(Lines(d)')
      <4>1. IsFiniteSet(Msg) /\ Lines(d)' \subseteq Msg
        BY <1>1, ArchiveAssumption DEF Lines, Real, Dated
      <4> QED
        BY <4>1, FS_Subset
    <3>2. /\ Cardinality(Lines(d)) \in Nat /\ Cardinality(Lines(d)') \in Nat
          /\ Cardinality(Lines(d)) <= Cardinality(Lines(d)')
      BY <1>2, <3>1, FS_Subset, FS_CardinalityType
    <3>3. tally \in Nat /\ tally <= Cardinality(Lines(d)')
      BY <2>1, <3>2 DEF JournalBehind
    <3> QED
      BY <3>3 DEF JournalBehind
  <2> QED
    BY <2>1
<1>5. DigestBehind'
  BY <1>1, <1>2, <1>3 DEF JInv, DigestBehind
<1>6. ASSUME NEW w \in Writer
      PROVE  (JournalCounted(jrun[w]) /\ CountBehind(jrun[w]) /\ ReadBehind(jrun[w]))'
  <2>1. \E k : k = jrun[w] /\ JournalCounted(k) /\ CountBehind(k) /\ ReadBehind(k)
    BY RunIs
  <2>2. PICK k : k = jrun[w] /\ JournalCounted(k) /\ CountBehind(k) /\ ReadBehind(k)
    BY <2>1
  <2>3. CountBehind(k)'
    BY <1>2, <1>4, <2>2 DEF CountBehind, JournalCounted
  <2>4. ReadBehind(k)'
    BY <1>2, <1>3, <2>2 DEF ReadBehind, JournalCounted
  <2> QED
    BY <1>1, <2>2, <2>3, <2>4
<1> QED
  BY <1>1, <1>5, <1>6 DEF JInv

LEMMA JInvInductive ==
  ASSUME JInv, [JournalNext]_journalVars
  PROVE  JInv'
<1>1. ASSUME NEW w \in Writer, Begin(w) \/ JournalStep(w) \/ SkipDay(w) \/ JournalFails(w)
      PROVE  JInv'
  <2>1. CASE Begin(w) \/ CountDays(w) \/ PutDayCount(w) \/ Check(w) \/ Choose(w)
    BY <2>1, BeginKeeps, CountDaysKeeps, PutDayCountKeeps, CheckKeeps, ChooseKeeps
  <2>2. CASE ReadTranscript(w) \/ PutDayDigest(w)
    BY <2>2, ReadTranscriptKeeps, PutDayDigestKeeps
  <2>3. CASE SkipDay(w) \/ JournalDone(w) \/ JournalFails(w)
    <3>1. UNCHANGED <<messages, shrunk, digest>>
      BY <2>3 DEF SkipDay, JournalDone, JournalFails
    <3>2. DOMAIN digest' = Day /\ DigestBehind'
      BY <3>1 DEF JInv, DigestBehind, JournalBehind, Lines, Real, Dated
    <3> QED
      BY <2>3, <3>1, <3>2, LeaveKeeps DEF SkipDay, JournalDone, JournalFails
  <2> QED
    BY <1>1, <2>1, <2>2, <2>3 DEF JournalStep
<1>2. CASE ChangePrompt \/ UNCHANGED journalVars
  <2>1. UNCHANGED <<messages, digest, jrun, shrunk>>
    BY <1>2 DEF ChangePrompt, journalVars
  <2> QED
    BY <2>1 DEF JInv, DigestBehind, JournalCounted, CountBehind, ReadBehind, JournalBehind, Lines, Real, Dated
<1> QED
  BY <1>1, <1>2, ImportDayKeeps DEF JournalNext

\* A digest that DigestStale passes has read all of a day that has lost no message,
\* whatever was imported between the count and the transcript and whichever runs
\* wrote the same day.  (internal/journal; CurrentMeansComplete.)
THEOREM CurrentComplete == JournalSpec => []CurrentMeansComplete
<1>1. JournalInit => JInv
  <2>1. ASSUME JournalInit
        PROVE  \A w \in Writer : JournalCounted(jrun[w]) /\ CountBehind(jrun[w]) /\ ReadBehind(jrun[w])
    BY <2>1 DEF JournalInit, JournalStart, Quiet, JournalCounted, CountBehind, ReadBehind, Fields
  <2>2. ASSUME JournalInit
        PROVE  messages \subseteq Msg /\ DOMAIN digest = Day /\ DOMAIN jrun = Writer /\ DigestBehind
    BY <2>2, JournalAssumption DEF JournalInit, JournalStart, DigestBehind
  <2> QED
    BY <2>1, <2>2 DEF JInv
<1>2. JInv /\ [JournalNext]_journalVars => JInv'
  BY JInvInductive
<1>3. JInv => CurrentMeansComplete
  BY BehindComplete DEF JInv, DigestBehind, CurrentMeansComplete
<1> QED
  BY <1>1, <1>2, <1>3, PTL DEF JournalSpec

-----------------------------------------------------------------------------
(* The calls of the language model.                                        *)

Field == {"at", "ask", "by", "tries", "pause", "sent", "said", "vectors"}
Limits == [attempts : Nat \ {0}, base : Nat \ {0}, max : Nat \ {0}]
Calls == {"idle", "send", "sent", "wait"}

\* How many requests a call has made, and how many failures it has heard of, at
\* each place; every failure but the last, and that too before the next attempt,
\* was worth one.
Tallied(q) ==
  /\ q.at = "idle" => q.tries = 0 /\ q.sent = <<>> /\ q.said = <<>> /\ q.pause = 0
  /\ q.at = "send" => Len(q.sent) = q.tries /\ Len(q.said) = q.tries /\ q.tries < q.by.retry.attempts
  /\ q.at = "sent" => Len(q.sent) = q.tries + 1 /\ Len(q.said) = q.tries /\ q.tries < q.by.retry.attempts
  /\ q.at = "wait" => /\ Len(q.sent) = q.tries + 1 /\ Len(q.said) = q.tries + 1
                      /\ q.tries + 1 < q.by.retry.attempts /\ q.pause > 0
  /\ Len(q.sent) <= q.by.retry.attempts
  /\ q.at \in Calls => \A k \in DOMAIN q.said : q.said[k] \in Retryable
  /\ q.at \notin Calls => \A k \in 1 .. Len(q.sent) - 1 : q.said[k] \in Retryable

\* A call's requests are its client's, and what it returned is the caller's own.
Faithful(q) ==
  /\ \A k \in DOMAIN q.sent : q.sent[k] = [by |-> q.by.serial, live |-> TRUE]
  /\ q.at = "ok" /\ q.ask.op = "embed" /\ q.ask.n > 0 => q.vectors = [i \in 0 .. q.ask.n - 1 |-> i]

Rightful(q) ==
  /\ DOMAIN q = Field
  /\ q.at \in Calls \union Over
  /\ q.ask \in Kinds /\ q.by.retry \in Limits
  /\ q.tries \in Nat /\ q.pause \in 0 .. q.by.retry.max
  /\ q.sent \in Seq([by : {q.by.serial}, live : {TRUE}])
  /\ q.said \in Seq(Failure)
  /\ Tallied(q) /\ Faithful(q)

CallsInv ==
  /\ client.retry \in Limits
  /\ DOMAIN call = Caller
  /\ \A c \in Caller : Rightful(call[c])

\* A retry's numbers that are not positive are the defaults.
LEMMA DefaultsPositive == ASSUME NEW r \in RetryConfig PROVE WithDefaults(r) \in Limits
<1>1. DOMAIN r = {"attempts", "base", "max"} /\ \A k \in DOMAIN r : r[k] \in Int /\ DefaultRetry[k] \in Int /\ DefaultRetry[k] > 0
  BY ClientAssumption DEF RetryConfig
<1>2. WithDefaults(r) = [k \in {"attempts", "base", "max"} |-> IF r[k] > 0 THEN r[k] ELSE DefaultRetry[k]]
  BY <1>1 DEF WithDefaults
<1>3. \A k \in {"attempts", "base", "max"} : (IF r[k] > 0 THEN r[k] ELSE DefaultRetry[k]) \in Nat \ {0}
  BY <1>1
<1>4. WithDefaults(r) = [attempts |-> WithDefaults(r).attempts, base |-> WithDefaults(r).base, max |-> WithDefaults(r).max]
  BY <1>2
<1> QED
  BY <1>2, <1>3, <1>4 DEF Limits

\* A pause is positive and within the ceiling, whatever the doubling overflows to.
LEMMA PauseBounded ==
  ASSUME NEW r \in Limits, NEW n \in Nat, NEW d \in Delays(r, n)
  PROVE  d \in 1 .. r.max
<1>1. r.max \in Nat \ {0}
  BY DEF Limits
<1> DEFINE w == Wrapped(r.base * 2 ^ Least(n, MaxShift))
           choice(p) == IF p <= 0 \/ p > r.max THEN r.max ELSE p
<1>2. \A p \in (w - (w \div 4)) .. (w + (w \div 4)) : p \in Int
  OBVIOUS
<1>3. \A p \in Int : choice(p) \in 1 .. r.max
  BY <1>1
<1>4. d \in {r.max} \/ d \in {choice(p) : p \in (w - (w \div 4)) .. (w + (w \div 4))}
  BY DEF Delays
<1> QED
  BY <1>1, <1>2, <1>3, <1>4

\* The fields of the call that an action names are what it says, the others as before.
LEMMA BecomesOf ==
  ASSUME CallsInv, NEW c \in Caller, NEW e, Becomes(c, e)
  PROVE  /\ DOMAIN call' = Caller
         /\ \A q \in Caller \ {c} : call'[q] = call[q]
         /\ DOMAIN call'[c] = Field
         /\ \A k \in Field : call'[c][k] = IF k \in DOMAIN e THEN e[k] ELSE call[c][k]
  BY DEF Becomes, CallsInv, Rightful

LEMMA InitCalls == ClientInit => CallsInv
<1> SUFFICES ASSUME ClientInit PROVE CallsInv
  OBVIOUS
<1>1. client.retry \in Limits
  BY DefaultsPositive, ClientAssumption DEF ClientInit
<1>2. Unasked.ask \in Kinds
  BY DEF Kinds, Unasked
<1>3. 0 \in 0 .. client.retry.max /\ 0 <= client.retry.attempts
  BY <1>1 DEF Limits
<1>4. \A c \in Caller : Rightful(call[c])
  BY <1>1, <1>2, <1>3 DEF ClientInit, Unasked, Rightful, Field, Tallied, Faithful, Calls, Over
<1> QED
  BY <1>1, <1>4 DEF CallsInv, ClientInit

\* A step of one call leaves the others as they were.
LEMMA CallKept ==
  ASSUME CallsInv, NEW c \in Caller, NEW e, Becomes(c, e), Rightful(call'[c]), UNCHANGED client
  PROVE  CallsInv'
  BY BecomesOf DEF CallsInv

LEMMA AskKeeps ==
  ASSUME CallsInv, NEW c \in Caller, NEW ask \in Kinds, AskModel(c, ask)
  PROVE  CallsInv'
<1> DEFINE at == IF ask.op = "embed" /\ ask.n = 0 THEN "ok"
                 ELSE IF ask.op \in {"embed", "chat"} \ client.models THEN "failed"
                 ELSE "send"
<1>1. PICK e : e = [ask |-> ask, by |-> client, at |-> at]
  OBVIOUS
<1>2. Becomes(c, e) /\ UNCHANGED client /\ call[c].at = "idle"
  BY <1>1 DEF AskModel
<1>3. /\ DOMAIN call'[c] = Field
      /\ \A k \in Field : call'[c][k] = IF k \in DOMAIN e THEN e[k] ELSE call[c][k]
  BY <1>2, BecomesOf
<1>4. /\ call'[c].at = at /\ call'[c].ask = ask /\ call'[c].by = client
      /\ \A k \in {"tries", "pause", "sent", "said", "vectors"} : call'[c][k] = call[c][k]
  BY <1>1, <1>3 DEF Field
<1>5. Rightful(call[c]) /\ client.retry \in Limits
  BY DEF CallsInv
<1>6. /\ call'[c].tries = 0 /\ call'[c].pause = 0 /\ call'[c].sent = <<>> /\ call'[c].said = <<>>
  BY <1>2, <1>4, <1>5 DEF Rightful, Tallied
<1>7. at \in {"ok", "failed", "send"} /\ (at = "ok" => ask.n = 0)
  OBVIOUS
<1>8. client.retry.attempts \in Nat \ {0} /\ 0 \in 0 .. client.retry.max
  BY <1>5 DEF Limits
<1> HIDE DEF at
<1>9. Rightful(call'[c])
  BY <1>3, <1>4, <1>5, <1>6, <1>7, <1>8 DEF Rightful, Tallied, Faithful, Calls, Over
<1> QED
  BY <1>2, <1>9, CallKept

LEMMA Appended ==
  ASSUME NEW S, NEW s \in Seq(S), NEW x \in S
  PROVE  /\ Append(s, x) \in Seq(S) /\ Len(Append(s, x)) = Len(s) + 1 /\ Len(s) \in Nat
         /\ DOMAIN Append(s, x) = 1 .. Len(s) + 1 /\ DOMAIN s = 1 .. Len(s)
         /\ \A k \in 1 .. Len(s) : Append(s, x)[k] = s[k]
         /\ Append(s, x)[Len(s) + 1] = x
  OBVIOUS

LEMMA TransmitKeeps ==
  ASSUME CallsInv, NEW c \in Caller, Transmit(c)
  PROVE  CallsInv'
<1>1. Rightful(call[c]) /\ call[c].at = "send" /\ UNCHANGED client
  BY DEF CallsInv, Transmit
<1>2. CASE c \in hungUp
  <2>1. PICK e : e = [at |-> "failed"]
    OBVIOUS
  <2>2. Becomes(c, e)
    BY <1>2, <2>1 DEF Transmit
  <2>3. /\ DOMAIN call'[c] = Field /\ call'[c].at = "failed"
        /\ call'[c].ask = call[c].ask /\ call'[c].by = call[c].by
        /\ call'[c].tries = call[c].tries /\ call'[c].pause = call[c].pause
        /\ call'[c].sent = call[c].sent /\ call'[c].said = call[c].said
        /\ call'[c].vectors = call[c].vectors
    BY <2>1, <2>2, BecomesOf DEF Field
  <2>4. Tallied(call'[c])
    BY <1>1, <2>3 DEF Rightful, Tallied, Calls, Field, Limits
  <2>5. Rightful(call'[c])
    BY <1>1, <2>3, <2>4 DEF Rightful, Faithful, Calls, Over, Field
  <2> QED
    BY <1>1, <2>2, <2>5, CallKept
<1>3. CASE c \notin hungUp
  <2>1. PICK e : e = [at |-> "sent", sent |-> Append(call[c].sent, [by |-> call[c].by.serial, live |-> TRUE])]
    OBVIOUS
  <2>2. Becomes(c, e)
    BY <1>3, <2>1 DEF Transmit
  <2>3. /\ DOMAIN call'[c] = Field /\ call'[c].at = "sent"
        /\ call'[c].sent = Append(call[c].sent, [by |-> call[c].by.serial, live |-> TRUE])
        /\ call'[c].ask = call[c].ask /\ call'[c].by = call[c].by
        /\ call'[c].tries = call[c].tries /\ call'[c].pause = call[c].pause
        /\ call'[c].said = call[c].said /\ call'[c].vectors = call[c].vectors
    BY <2>1, <2>2, BecomesOf DEF Field
  <2>4. PICK one : one = [by |-> call[c].by.serial, live |-> TRUE]
    OBVIOUS
  <2>5. /\ one \in [by : {call[c].by.serial}, live : {TRUE}]
        /\ call[c].sent \in Seq([by : {call[c].by.serial}, live : {TRUE}])
    BY <1>1, <2>4 DEF Rightful
  <2>6. PICK S : S = [by : {call[c].by.serial}, live : {TRUE}]
    OBVIOUS
  <2>7. PICK s \in Seq(S) : s = call[c].sent
    BY <2>5, <2>6
  <2>8. one \in S
    BY <2>5, <2>6
  <2>9. \A k \in DOMAIN s : s[k] = one
    BY <1>1, <2>4, <2>7 DEF Rightful, Faithful
  <2>10. \A k \in DOMAIN Append(s, one) : Append(s, one)[k] = one
    BY <2>7, <2>8, <2>9, Appended
  <2>11. /\ call'[c].sent \in Seq([by : {call[c].by.serial}, live : {TRUE}])
        /\ Len(call'[c].sent) = Len(call[c].sent) + 1
        /\ \A k \in DOMAIN call'[c].sent : call'[c].sent[k] = [by |-> call[c].by.serial, live |-> TRUE]
    <3>1. call'[c].sent = Append(s, one)
      BY <2>3, <2>4, <2>7
    <3>2. Append(s, one) \in Seq(S) /\ Len(Append(s, one)) = Len(s) + 1
      BY <2>7, <2>8, Appended
    <3> QED
      BY <2>4, <2>6, <2>7, <2>10, <3>1, <3>2
  <2>12. Tallied(call'[c])
    BY <1>1, <2>3, <2>11 DEF Rightful, Tallied, Calls, Field, Limits
  <2>13. Rightful(call'[c])
    BY <1>1, <2>3, <2>11, <2>12 DEF Rightful, Faithful, Calls, Over, Field
  <2> QED
    BY <1>1, <2>2, <2>13, CallKept
<1> QED
  BY <1>2, <1>3

\* A call whose end is an error, or a list that could not be had.
LEMMA PassEndKeeps ==
  ASSUME CallsInv, NEW c \in Caller, NEW over \in Over, over # "ok" \/ call[c].ask.op # "embed",
         call[c].at # "idle", Becomes(c, [at |-> over]), UNCHANGED client
  PROVE  CallsInv'
<1>1. PICK e : e = [at |-> over]
  OBVIOUS
<1>2. Becomes(c, e) /\ Rightful(call[c])
  BY <1>1 DEF CallsInv
<1>3. /\ DOMAIN call'[c] = Field /\ call'[c].at = over
      /\ call'[c].ask = call[c].ask /\ call'[c].by = call[c].by
      /\ call'[c].tries = call[c].tries /\ call'[c].pause = call[c].pause
      /\ call'[c].sent = call[c].sent /\ call'[c].said = call[c].said
      /\ call'[c].vectors = call[c].vectors
  BY <1>1, <1>2, BecomesOf DEF Field
<1>4. Tallied(call'[c])
  BY <1>2, <1>3 DEF Rightful, Tallied, Calls, Over, Field, Limits
<1>5. Rightful(call'[c])
  BY <1>2, <1>3, <1>4 DEF Rightful, Faithful, Calls, Over, Field
<1> QED
  BY <1>2, <1>5, CallKept

LEMMA FailKeeps ==
  ASSUME CallsInv, NEW c \in Caller, NEW why \in Failure, Fail(c, why)
  PROVE  CallsInv'
<1>1. Rightful(call[c]) /\ call[c].at = "sent" /\ UNCHANGED client
  BY DEF CallsInv, Fail
<1>2. PICK heard : heard = Append(call[c].said, why)
  OBVIOUS
<1>3. /\ heard \in Seq(Failure) /\ Len(heard) = Len(call[c].said) + 1
      /\ \A k \in 1 .. Len(call[c].said) : heard[k] = call[c].said[k]
      /\ heard[Len(call[c].said) + 1] = why /\ Len(call[c].said) \in Nat
      /\ DOMAIN heard = 1 .. Len(call[c].said) + 1
  BY <1>1, <1>2, Appended DEF Rightful
<1>4. /\ Len(call[c].said) = call[c].tries /\ call[c].tries \in Nat
      /\ Len(call[c].sent) = call[c].tries + 1 /\ call[c].by.retry \in Limits
      /\ \A k \in 1 .. Len(call[c].said) : call[c].said[k] \in Retryable
  BY <1>1 DEF Rightful, Tallied, Calls
<1>5. CASE Again(c, why)
  <2>1. PICK d \in Delays(call[c].by.retry, call[c].tries) : Becomes(c, [said |-> heard, at |-> "wait", pause |-> d])
    BY <1>2, <1>5 DEF Fail
  <2>2. PICK e : e = [said |-> heard, at |-> "wait", pause |-> d]
    OBVIOUS
  <2>3. Becomes(c, e)
    BY <2>1, <2>2
  <2>4. d \in 1 .. call[c].by.retry.max
    BY <1>4, <2>1, PauseBounded
  <2>5. /\ DOMAIN call'[c] = Field /\ call'[c].at = "wait" /\ call'[c].said = heard /\ call'[c].pause = d
        /\ call'[c].ask = call[c].ask /\ call'[c].by = call[c].by
        /\ call'[c].tries = call[c].tries /\ call'[c].sent = call[c].sent
        /\ call'[c].vectors = call[c].vectors
    BY <2>2, <2>3, BecomesOf DEF Field
  <2>6. call[c].tries + 1 < call[c].by.retry.attempts /\ why \in Retryable
    BY <1>5 DEF Again
  <2>7. \A k \in DOMAIN heard : heard[k] \in Retryable
    <3> SUFFICES ASSUME NEW k \in 1 .. Len(call[c].said) + 1 PROVE heard[k] \in Retryable
      BY <1>3
    <3>1. k \in 1 .. Len(call[c].said) \/ k = Len(call[c].said) + 1
      BY <1>3
    <3> QED
      BY <1>3, <1>4, <2>6, <3>1
  <2>8. Tallied(call'[c])
    BY <1>1, <1>3, <1>4, <2>4, <2>5, <2>6, <2>7 DEF Rightful, Tallied, Calls, Field, Limits
  <2>9. call[c].by.retry.max \in Nat
    BY <1>4 DEF Limits
  <2>10. d \in 0 .. call[c].by.retry.max
    BY <2>4, <2>9
  <2>11. Faithful(call'[c])
    BY <1>1, <2>5 DEF Rightful, Faithful
  <2>12. Rightful(call'[c])
    BY <1>1, <1>3, <2>5, <2>8, <2>10, <2>11 DEF Rightful, Calls, Over, Field
  <2> QED
    BY <1>1, <2>3, <2>12, CallKept
<1>6. CASE ~Again(c, why)
  <2> DEFINE over == IF call[c].ask.op = "models" /\ why = "missing" THEN "unlisted" ELSE "failed"
  <2>1. Becomes(c, [said |-> heard, at |-> over])
    BY <1>2, <1>6 DEF Fail
  <2>2. over \in {"unlisted", "failed"}
    OBVIOUS
  <2>3. PICK e : e = [said |-> heard, at |-> over]
    OBVIOUS
  <2>4. Becomes(c, e)
    BY <2>1, <2>3
  <2>5. /\ DOMAIN call'[c] = Field /\ call'[c].at = over /\ call'[c].said = heard
        /\ call'[c].ask = call[c].ask /\ call'[c].by = call[c].by
        /\ call'[c].tries = call[c].tries /\ call'[c].pause = call[c].pause
        /\ call'[c].sent = call[c].sent /\ call'[c].vectors = call[c].vectors
    BY <2>3, <2>4, BecomesOf DEF Field
  <2> HIDE DEF over
  <2>6. \A k \in 1 .. Len(call[c].sent) - 1 : heard[k] \in Retryable
    <3> SUFFICES ASSUME NEW k \in 1 .. Len(call[c].sent) - 1 PROVE heard[k] \in Retryable
      OBVIOUS
    <3>1. k \in 1 .. Len(call[c].said)
      BY <1>4
    <3> QED
      BY <1>3, <1>4, <3>1
  <2>7. Tallied(call'[c])
    BY <1>1, <1>4, <2>2, <2>5, <2>6 DEF Rightful, Tallied, Calls, Field
  <2>8. Rightful(call'[c])
    BY <1>1, <1>3, <2>2, <2>5, <2>7 DEF Rightful, Faithful, Calls, Over, Field
  <2> QED
    BY <1>1, <2>4, <2>8, CallKept
<1> QED
  BY <1>5, <1>6

LEMMA WakeKeeps ==
  ASSUME CallsInv, NEW c \in Caller, Wake(c)
  PROVE  CallsInv'
<1>1. Rightful(call[c]) /\ call[c].at = "wait" /\ UNCHANGED client
  BY DEF CallsInv, Wake
<1>2. PICK e : e = [at |-> "send", tries |-> call[c].tries + 1]
  OBVIOUS
<1>3. Becomes(c, e)
  BY <1>2 DEF Wake
<1>4. /\ DOMAIN call'[c] = Field /\ call'[c].at = "send" /\ call'[c].tries = call[c].tries + 1
      /\ call'[c].ask = call[c].ask /\ call'[c].by = call[c].by
      /\ call'[c].pause = call[c].pause /\ call'[c].sent = call[c].sent
      /\ call'[c].said = call[c].said /\ call'[c].vectors = call[c].vectors
  BY <1>2, <1>3, BecomesOf DEF Field
<1>5. Tallied(call'[c])
  BY <1>1, <1>4 DEF Rightful, Tallied, Calls, Field, Limits
<1>6. call[c].tries + 1 \in Nat
  BY <1>1 DEF Rightful
<1>7. \A k \in DOMAIN call'[c].sent : call'[c].sent[k] = [by |-> call'[c].by.serial, live |-> TRUE]
  BY <1>1, <1>4 DEF Rightful, Faithful
<1>8. Faithful(call'[c])
  BY <1>4, <1>7 DEF Faithful
<1>9. Rightful(call'[c])
  BY <1>1, <1>4, <1>5, <1>6, <1>8 DEF Rightful, Calls, Over, Field
<1> QED
  BY <1>1, <1>3, <1>9, CallKept

\* An answer that is accepted has a vector for each input, and each is its own.
LEMMA OwnFiled ==
  ASSUME NEW body, NEW n \in Nat, Accepts(body, n)
  PROVE  Filed(body, n) = [i \in 0 .. n - 1 |-> i]
<1>1. \A i \in 0 .. n - 1 : Filed(body, n)[i] \in {i, NoVector}
  BY DEF Filed
<1>2. \A i \in 0 .. n - 1 : Filed(body, n)[i] = i
  BY <1>1 DEF Accepts
<1> QED
  BY <1>2 DEF Filed

LEMMA EmbeddedKeeps ==
  ASSUME CallsInv, NEW c \in Caller, NEW body, Embedded(c, body)
  PROVE  CallsInv'
<1>1. Rightful(call[c]) /\ call[c].at = "sent" /\ UNCHANGED client
  BY DEF CallsInv, Embedded
<1>2. PICK n : n = call[c].ask.n
  OBVIOUS
<1>3. n \in Nat
  BY <1>1, <1>2, ClientAssumption DEF Rightful, Kinds
<1>4. CASE Accepts(body, n)
  <2>1. PICK own : own = [i \in 0 .. n - 1 |-> i]
    OBVIOUS
  <2>2. PICK e : e = [at |-> "ok", vectors |-> own]
    OBVIOUS
  <2>3. Filed(body, n) = own
    BY <1>3, <1>4, <2>1, OwnFiled
  <2>4. Becomes(c, e)
    BY <1>2, <1>4, <2>2, <2>3 DEF Embedded
  <2>5. /\ DOMAIN call'[c] = Field /\ call'[c].at = "ok" /\ call'[c].vectors = own
        /\ call'[c].ask = call[c].ask /\ call'[c].by = call[c].by
        /\ call'[c].tries = call[c].tries /\ call'[c].pause = call[c].pause
        /\ call'[c].sent = call[c].sent /\ call'[c].said = call[c].said
    BY <2>2, <2>4, BecomesOf DEF Field
  <2>6. Tallied(call'[c])
    BY <1>1, <2>5 DEF Rightful, Tallied, Calls, Over, Field, Limits
  <2>7. Rightful(call'[c])
    BY <1>1, <1>2, <2>5, <2>6, <2>1 DEF Rightful, Faithful, Calls, Over, Field
  <2> QED
    BY <1>1, <2>4, <2>7, CallKept
<1>5. CASE ~Accepts(body, n)
  <2>1. Becomes(c, [at |-> "failed"]) /\ call[c].at # "idle" /\ "failed" \in Over
    BY <1>1, <1>2, <1>5 DEF Embedded, Over
  <2> QED
    BY <1>1, <2>1, PassEndKeeps
<1> QED
  BY <1>4, <1>5

LEMMA NextCalls == CallsInv /\ [ClientNext]_clientVars => CallsInv'
<1> SUFFICES ASSUME CallsInv, [ClientNext]_clientVars PROVE CallsInv'
  OBVIOUS
<1>1. ASSUME NEW c \in Caller, CallStep(c) PROVE CallsInv'
  <2>1. CASE Transmit(c)
    BY <2>1, TransmitKeeps
  <2>2. CASE Interrupt(c) \/ GiveUp(c)
    <3>1. Becomes(c, [at |-> "failed"]) /\ call[c].at # "idle" /\ UNCHANGED client /\ "failed" \in Over
      BY <2>2 DEF Interrupt, GiveUp, Over
    <3> QED
      BY <3>1, PassEndKeeps
  <2>3. CASE Wake(c)
    BY <2>3, WakeKeeps
  <2>4. ASSUME NEW why \in Failure, Fail(c, why) PROVE CallsInv'
    BY <2>4, FailKeeps
  <2>5. ASSUME NEW body, Embedded(c, body) PROVE CallsInv'
    BY <2>5, EmbeddedKeeps
  <2>6. ASSUME NEW good \in BOOLEAN, Reply(c, good) PROVE CallsInv'
    <3> DEFINE over == IF good THEN "ok" ELSE IF call[c].ask.op = "models" THEN "unlisted" ELSE "failed"
    <3>1. /\ Becomes(c, [at |-> over]) /\ call[c].at # "idle" /\ UNCHANGED client
          /\ call[c].ask.op # "embed"
      BY <2>6 DEF Reply
    <3>2. PICK o \in Over : o = over
      BY DEF Over
    <3>3. Becomes(c, [at |-> o])
      BY <3>1, <3>2
    <3> QED
      BY <3>1, <3>3, PassEndKeeps
  <2> QED
    BY <1>1, <2>1, <2>2, <2>3, <2>4, <2>5, <2>6 DEF CallStep
<1>2. ASSUME NEW c \in Caller, HangUp(c) PROVE CallsInv'
  BY <1>2 DEF HangUp, CallsInv
<1>3. ASSUME NEW c \in Caller, NEW ask \in Kinds, AskModel(c, ask) PROVE CallsInv'
  BY <1>3, AskKeeps
<1>4. ASSUME NEW models, SwapClient(models) PROVE CallsInv'
  <2>1. client'.retry \in Limits /\ UNCHANGED call
    BY <1>4, DefaultsPositive, ClientAssumption DEF SwapClient
  <2> QED
    BY <2>1 DEF CallsInv
<1>5. CASE UNCHANGED clientVars
  BY <1>5 DEF clientVars, CallsInv
<1> QED
  BY <1>1, <1>2, <1>3, <1>4, <1>5 DEF ClientNext

\* A call of the language model gives the caller its own answer or an error, and its
\* retries stay within its client's limits and at its endpoint, whatever the endpoint
\* answers, however often the settings are saved and whatever the numbers of the
\* retry: for any word size, number of callers, inputs and answers.
\* (internal/llm/openai.go Embed, doWithRetry; retry.go delay; holder.go.)
THEOREM CallsRight == ClientSpec => []CallsHold
<1>1. ClientInit => CallsInv
  BY InitCalls
<1>2. CallsInv /\ [ClientNext]_clientVars => CallsInv'
  BY NextCalls
<1>3. CallsInv => CallsHold
  <2> SUFFICES ASSUME CallsInv, NEW c \in Caller
               PROVE  /\ call[c].at = "ok" /\ call[c].ask.op = "embed" /\ call[c].ask.n > 0 =>
                           call[c].vectors = [i \in 0 .. call[c].ask.n - 1 |-> i]
                      /\ Len(call[c].sent) <= call[c].by.retry.attempts
                      /\ \A k \in 1 .. Len(call[c].sent) - 1 : call[c].said[k] \in Retryable
                      /\ call[c].pause \in 0 .. call[c].by.retry.max
                      /\ call[c].at = "wait" => call[c].pause > 0
                      /\ \A k \in DOMAIN call[c].sent :
                           call[c].sent[k] = [by |-> call[c].by.serial, live |-> TRUE]
    BY DEF CallsHold, OwnVectors, RetriesBounded, OneEndpoint
  <2>1. Rightful(call[c])
    BY DEF CallsInv
  <2>2. \A k \in 1 .. Len(call[c].sent) - 1 : call[c].said[k] \in Retryable
    BY <2>1 DEF Rightful, Tallied, Calls
  <2> QED
    BY <2>1, <2>2 DEF Rightful, Tallied, Faithful
<1> QED
  BY <1>1, <1>2, <1>3, PTL DEF ClientSpec
=============================================================================
