------------------------------- MODULE Ingest -------------------------------
(***************************************************************************)
(* The incremental import of a text archive (internal/ingest for Signal,   *)
(* internal/imessage for iMessage; the two have the same shape): a pass    *)
(* over the conversations of an archive that re-parses the files that      *)
(* changed and replaces their messages in the store.                       *)
(*                                                                         *)
(* One step of an importer is the code between two accesses to what others *)
(* can change: a stat, a read of the transcript, a query, a transaction.   *)
(* The archive belongs to exporters, which may write at any of those       *)
(* points; a transcript read while it is written is one more content.      *)
(*                                                                         *)
(* Bounds: MaxVersions the number of contents a transcript goes through,   *)
(* MaxFaults the number of failing calls and crashes.                      *)
(***************************************************************************)
EXTENDS Sequences, Naturals, Functions

CONSTANTS
  Conv,        \* conversations
  Line,        \* the lines a transcript may hold
  BadLine,     \* the lines the parser skips as malformed
  Broken,      \* conversations whose transcript can be listed but not read
  Importer,    \* the processes that import this source
  Reuse,       \* may an edit bring back an earlier content of the file?
  MaxVersions, \* bound: contents of one file
  MaxFaults,   \* bound: failing calls and crashes
  None         \* no ingest_state row, no conversation

Content == SUBSET Line
State   == [stamp : Nat, hash : Content]

ASSUME IngestAssumption ==
  /\ BadLine \subseteq Line
  /\ Broken \subseteq Conv
  /\ Reuse \in BOOLEAN
  /\ MaxVersions \in Nat
  /\ MaxFaults \in Nat
  /\ None \notin Conv /\ None \notin State

VARIABLES
  file,      \* every content a transcript has had; <<>> is no file
  messages,  \* the store's messages of each conversation
  state,     \* ingest_state: the stamp and hash last recorded, or None
  pc,        \* where each importer is in Run and ingestConversation
  full,      \* Options.Full of its pass
  todo,      \* the directory entries its pass has still to visit
  cur,       \* the conversation it is on, or None
  seen,      \* (mtime, size) of cur's transcript at the stat
  prev,      \* ingest_state as it read it
  hash,      \* the content it hashed
  parsed,    \* the content it parsed
  faults,    \* failing calls and crashes so far
  touched,   \* history: cur has been edited since the importer's stat
  caughtUp   \* history: imported without error and not edited since

archiveVars == <<file, caughtUp, touched>>
passVars    == <<full, todo, cur, seen, prev, hash, parsed>>
vars == <<file, messages, state, pc, passVars, faults, touched, caughtUp>>

Label == {"idle", "scan", "load", "hash", "refresh", "parse", "replace", "record"}

TypeOK ==
  /\ file \in [Conv -> Seq(Content)]
  /\ messages \in [Conv -> Content]
  /\ state \in [Conv -> State \union {None}]
  /\ pc \in [Importer -> Label]
  /\ full \in [Importer -> BOOLEAN]
  /\ todo \in [Importer -> SUBSET Conv]
  /\ cur \in [Importer -> Conv \union {None}]
  /\ seen \in [Importer -> Nat]
  /\ prev \in [Importer -> State \union {None}]
  /\ hash \in [Importer -> Content]
  /\ parsed \in [Importer -> Content]
  /\ faults \in 0..MaxFaults
  /\ touched \in [Importer -> BOOLEAN]
  /\ caughtUp \in SUBSET Conv

\* mtime and size identify a version: an edit that changes neither is outside
\* what the importer promises.
Exists(c) == file[c] # <<>>
Stamp(c)  == Len(file[c])
Data(c)   == file[c][Len(file[c])]

\* The parser keeps every well-formed line.
Messages(d) == d \ BadLine

-----------------------------------------------------------------------------
Init ==
  /\ file \in [Conv -> {<<>>} \union {<<d>> : d \in Content}]
  /\ messages = [c \in Conv |-> {}]
  /\ state = [c \in Conv |-> None]
  /\ pc = [i \in Importer |-> "idle"]
  /\ full = [i \in Importer |-> FALSE]
  /\ todo = [i \in Importer |-> {}]
  /\ cur = [i \in Importer |-> None]
  /\ seen = [i \in Importer |-> 0]
  /\ prev = [i \in Importer |-> None]
  /\ hash = [i \in Importer |-> {}]
  /\ parsed = [i \in Importer |-> {}]
  /\ faults = 0
  /\ touched = [i \in Importer |-> FALSE]
  /\ caughtUp = {}

-----------------------------------------------------------------------------
(* The archive                                                             *)

\* An exporter writes the transcript of c, or an import reads it half-written.
Edit(c, d) ==
  /\ Len(file[c]) < MaxVersions
  /\ Reuse \/ d \notin Range(file[c])
  /\ file' = [file EXCEPT ![c] = Append(@, d)]
  /\ caughtUp' = caughtUp \ {c}
  /\ touched' = [i \in Importer |-> touched[i] \/ cur[i] = c]
  /\ UNCHANGED <<messages, state, pc, passVars, faults>>

-----------------------------------------------------------------------------
(* The importer                                                            *)

Goto(i, l) == pc' = [pc EXCEPT ![i] = l]

\* os.ReadDir of the archive.
Begin(i, f) ==
  /\ pc[i] = "idle"
  /\ full' = [full EXCEPT ![i] = f]
  /\ todo' = [todo EXCEPT ![i] = {c \in Conv : Exists(c)}]
  /\ Goto(i, "scan")
  /\ UNCHANGED <<messages, state, cur, seen, prev, hash, parsed, faults, archiveVars>>

\* os.Stat of the next entry.
Stat(i, c) ==
  /\ pc[i] = "scan"
  /\ c \in todo[i]
  /\ todo' = [todo EXCEPT ![i] = @ \ {c}]
  /\ cur' = [cur EXCEPT ![i] = c]
  /\ seen' = [seen EXCEPT ![i] = Stamp(c)]
  /\ touched' = [touched EXCEPT ![i] = FALSE]
  /\ Goto(i, "load")
  /\ UNCHANGED <<file, messages, state, full, prev, hash, parsed, faults, caughtUp>>

\* ingestConversation returns: its locals are gone.
Leave(i) ==
  /\ cur' = [cur EXCEPT ![i] = None]
  /\ seen' = [seen EXCEPT ![i] = 0]
  /\ prev' = [prev EXCEPT ![i] = None]
  /\ hash' = [hash EXCEPT ![i] = {}]
  /\ parsed' = [parsed EXCEPT ![i] = {}]

\* It returns without an error: on to the next entry.
Imported(i) ==
  /\ Goto(i, "scan")
  /\ Leave(i)
  /\ caughtUp' = IF touched[i] THEN caughtUp ELSE caughtUp \union {cur[i]}
  /\ UNCHANGED <<file, full, todo, faults, touched>>

\* It returns an error: Run logs it, counts it and goes on.
Skipped(i) ==
  /\ Goto(i, "scan")
  /\ Leave(i)
  /\ UNCHANGED <<messages, state, full, todo, archiveVars>>

\* ingestConversation goes on at l, having set some of its locals.
Proceed(i, l) ==
  /\ Goto(i, l)
  /\ UNCHANGED <<full, todo, cur, seen, faults, archiveVars>>

\* Mutant: a conversation that has a state is taken to be up to date.
LoadTrusting(i) ==
  LET same == ~full[i] /\ state[cur[i]] # None IN
  /\ pc[i] = "load"
  /\ UNCHANGED <<messages, state>>
  /\ \/ same /\ Imported(i)
     \/ /\ ~same /\ Proceed(i, "hash")
        /\ prev' = [prev EXCEPT ![i] = state[cur[i]]]
        /\ UNCHANGED <<hash, parsed>>

\* UpsertConversation, GetIngestState and the fast path.
Load(i) ==
  LET same == ~full[i] /\ state[cur[i]] # None /\ state[cur[i]].stamp = seen[i] IN
  /\ pc[i] = "load"
  /\ UNCHANGED <<messages, state>>
  /\ \/ same /\ Imported(i)
     \/ /\ ~same /\ Proceed(i, "hash")
        /\ prev' = [prev EXCEPT ![i] = state[cur[i]]]
        /\ UNCHANGED <<hash, parsed>>

\* hashFile, of a transcript that can be read; a hash that has not changed means
\* that only the stamp is to be refreshed.
Hash(i) ==
  LET d == Data(cur[i])
      same == ~full[i] /\ prev[i] # None /\ prev[i].hash = d
  IN
  /\ pc[i] = "hash"
  /\ cur[i] \notin Broken
  /\ Proceed(i, IF same THEN "refresh" ELSE "parse")
  /\ hash' = [hash EXCEPT ![i] = d]
  /\ UNCHANGED <<messages, state, prev, parsed>>

\* Mutant: a transcript that cannot be read ends the pass.
HashFailsAborting(i) ==
  /\ pc[i] = "hash"
  /\ cur[i] \in Broken
  /\ Goto(i, "idle")
  /\ Leave(i)
  /\ UNCHANGED <<messages, state, full, todo, faults, archiveVars>>

\* hashFile, of one that cannot.
HashFails(i) ==
  /\ pc[i] = "hash"
  /\ cur[i] \in Broken
  /\ Skipped(i)
  /\ UNCHANGED faults

\* SetIngestState with the row that was read and the new stamp.
Refresh(i) ==
  /\ pc[i] = "refresh"
  /\ state' = [state EXCEPT ![cur[i]] = [prev[i] EXCEPT !.stamp = seen[i]]]
  /\ Imported(i)
  /\ UNCHANGED messages

\* parseChatFile reads the transcript a second time.
Parse(i) ==
  /\ pc[i] = "parse"
  /\ Proceed(i, "replace")
  /\ parsed' = [parsed EXCEPT ![i] = Data(cur[i])]
  /\ UNCHANGED <<messages, state, prev, hash>>

\* ReplaceConversationMessages: delete and insert in one transaction.
Replace(i) ==
  /\ pc[i] = "replace"
  /\ Proceed(i, "record")
  /\ messages' = [messages EXCEPT ![cur[i]] = Messages(parsed[i])]
  /\ UNCHANGED <<state, prev, hash, parsed>>

\* Mutant: the stamp is taken when the state is written instead of before the
\* transcript is read.
RecordRestat(i) ==
  /\ pc[i] = "record"
  /\ state' = [state EXCEPT ![cur[i]] = [stamp |-> Stamp(cur[i]), hash |-> hash[i]]]
  /\ Imported(i)
  /\ UNCHANGED messages
\* SetIngestState, a transaction of its own.
Record(i) ==
  /\ pc[i] = "record"
  /\ state' = [state EXCEPT ![cur[i]] = [stamp |-> seen[i], hash |-> hash[i]]]
  /\ Imported(i)
  /\ UNCHANGED messages

\* Run returns.
Finish(i) ==
  /\ pc[i] = "scan"
  /\ todo[i] = {}
  /\ Goto(i, "idle")
  /\ UNCHANGED <<messages, state, passVars, faults, archiveVars>>

Step(i) ==
  \/ \E c \in Conv : Stat(i, c)
  \/ Load(i) \/ Hash(i) \/ HashFails(i) \/ Refresh(i)
  \/ Parse(i) \/ Replace(i) \/ Record(i)
  \/ Finish(i)

\* A query, a read or a transaction of ingestConversation fails.
Fail(i) ==
  /\ pc[i] \notin {"idle", "scan"}
  /\ faults < MaxFaults
  /\ faults' = faults + 1
  /\ Skipped(i)

\* The importing process dies; what it committed stays.
Crash(i) ==
  /\ pc[i] # "idle"
  /\ faults < MaxFaults
  /\ faults' = faults + 1
  /\ Goto(i, "idle")
  /\ todo' = [todo EXCEPT ![i] = {}]
  /\ Leave(i)
  /\ UNCHANGED <<messages, state, full, archiveVars>>

Next ==
  \/ \E c \in Conv, d \in Content : Edit(c, d)
  \/ \E i \in Importer :
       \/ \E f \in BOOLEAN : Begin(i, f)
       \/ Step(i)
       \/ Fail(i)
       \/ Crash(i)

Spec == Init /\ [][Next]_vars

\* A pass that has begun goes on, and passes recur (the background refresh of
\* web/autorefresh.go, or the user), not all of them with --full.
Fairness ==
  \A i \in Importer : WF_vars(Step(i)) /\ WF_vars(Begin(i, FALSE))

FairSpec == Spec /\ Fairness
-----------------------------------------------------------------------------
(* Properties                                                              *)

\* What the two skips of ingestConversation rely on, in every state a crash, an
\* error or an edit can leave: when the recorded stamp or the recorded hash is
\* the file's own, the store has the file's messages.
SkipIsSafe ==
  \A c \in Conv :
    /\ Exists(c) /\ state[c] # None
    /\ state[c].stamp = Stamp(c) \/ state[c].hash = Data(c)
    => messages[c] = Messages(Data(c))

\* A conversation that a pass has gone through without an error, and that has
\* not been edited since the pass looked at its stamp, is in the store as it is
\* in the archive: no edit made while the pass ran is lost (ingest.go, Run).
CaughtUp ==
  \A c \in caughtUp : messages[c] = Messages(Data(c))

\* "One bad conversation must not abort the run": once the archive is left
\* alone, every conversation that can be read is imported.
EventuallyImported ==
  \A c \in Conv \ Broken :
    <>[](Exists(c) => messages[c] = Messages(Data(c)))
=============================================================================
