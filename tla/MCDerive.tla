------------------------------ MODULE MCDerive -------------------------------
(***************************************************************************)
(* What the archive's derived data is made by: the cursor pipelines, the   *)
(* journal, the semantic index, the run log, and the client of the         *)
(* language model.  They share the messages and nothing else, so a         *)
(* behaviour is about one of them, its part, with the importers that work  *)
(* beside it; the variables of the others keep their initial values.       *)
(***************************************************************************)
EXTENDS Extract, Journal, Embed, RunLog, Client

CONSTANTS
  Part,  \* the parts an instance has
  Chat, Group, Muted, Alice, Bob, g1, g2, m1, m2

ASSUME PartAssumption == Part \subseteq {"extract", "journal", "embed", "runlog", "client"}

\* Three messages of a chat for the cursors and the index, of which the first is
\* the owner's STOP and the last a system line; two days of a group for the
\* journal, with a conversation it leaves out.
MCMsg    == 1 .. 7
MCSystem == {3}
MCOut    == {1}
MCConvOf == <<Chat, Chat, Chat, Group, Group, Group, Muted>>
MCDay    == 1 .. 2
MCDayOf  == <<1, 1, 2, 1, 1, 2, 1>>
MCContactOf == Chat :> Alice @@ Group :> Bob @@ Muted :> None
MCModelOf   == g1 :> m1 @@ g2 :> m2
MCExcluded  == {Muted}
MCArchived  == {{2, 3}}
MCShelf     == {{4, 6, 7}}
MCStore0    == {{1, 2}}

\* A retry whose doubled delay no longer fits the word, and the client's own.
MCRetry   == [attempts |-> 4, base |-> 20, max |-> 30]
MCDefault == [attempts |-> 3, base |-> 4, max |-> 25]

VARIABLE part

\* Bound: what each part's importers may make of the archive.
Scope == IF part = "journal" THEN {S \union {7} : S \in SUBSET (4 .. 6)}
         ELSE SUBSET (1 .. 3)

extractOnly == <<kind, gen, contact, state, rows, optedOut, events, flagged,
                 run, count, missed, declined, settled>>
journalOnly == <<prompt, rollup, digest, jrun, turns, shrunk>>
embedOnly   == <<settings0, holder, vectors, erun, changes>>
vars == <<part, messages, extractOnly, journalOnly, embedOnly, runLogVars, clientVars>>

\* The models are interchangeable at first.  A part that is not this behaviour's
\* has one initial state.
Still ==
  /\ gen = g1 /\ prompt = m1 /\ settings0 = m1
  /\ part # "extract" => kind = "facts"

Init ==
  /\ part \in Part
  /\ messages \in CASE part = "extract" -> Archived
                    [] part = "journal" -> Shelf
                    [] OTHER -> Store0
  /\ ExtractStart /\ JournalStart /\ EmbedStart /\ RunLogInit /\ ClientInit
  /\ Still

Extracting == UNCHANGED <<part, journalOnly, embedOnly, runLogVars, clientVars>>
Journaling == UNCHANGED <<part, extractOnly, embedOnly, runLogVars, clientVars>>
Embedding  == UNCHANGED <<part, extractOnly, journalOnly, runLogVars, clientVars>>
Logging    == UNCHANGED <<part, messages, extractOnly, journalOnly, embedOnly, clientVars>>
Calling    == UNCHANGED <<part, messages, extractOnly, journalOnly, embedOnly, runLogVars>>

Next ==
  \/ part = "extract" /\ ExtractNext /\ Extracting /\ messages' \in Scope
  \/ part = "journal" /\ JournalNext /\ Journaling /\ messages' \in Scope
  \/ part = "embed" /\ EmbedNext /\ Embedding /\ messages' \in Scope
  \/ part = "runlog" /\ RunLogNext /\ Logging
  \/ part = "client" /\ ClientNext /\ Calling

Fairness ==
  /\ \A r \in Runner : WF_vars(part = "extract" /\ Step(r) /\ Extracting)
  /\ \A w \in Writer : WF_vars(part = "journal" /\ JournalStep(w) /\ Journaling)
  /\ \A p \in Indexer : WF_vars(part = "embed" /\ EmbedStep(p) /\ Embedding)
  /\ \A c \in Caller : WF_vars(part = "client" /\ CallStep(c) /\ Calling)

Spec == Init /\ [][Next]_vars /\ Fairness

DeriveTypeOK == ExtractTypeOK /\ JournalTypeOK /\ EmbedTypeOK /\ RunLogTypeOK
                /\ ClientTypeOK

\* Every pass of a pipeline, run of the journal, build of the index and call of
\* the language model that has begun ends.  (PassesEnd, JournalRunsEnd,
\* EmbedRunsEnd, CallsEnd.)
RunsEnd == PassesEnd /\ JournalRunsEnd /\ EmbedRunsEnd /\ CallsEnd
=============================================================================
