---------------------------- MODULE IngestProofs ----------------------------
(***************************************************************************)
(* Proofs about Ingest, for every set of conversations and lines and every *)
(* bound on edits and faults. SkipIsSafe and CaughtUp are proved of one    *)
(* importing process (OneProcess) and of transcripts that never go back to *)
(* an earlier content (~Reuse); without either they do not hold.           *)
(***************************************************************************)
EXTENDS Ingest, TLAPS

OneProcess == \A i, k \in Importer : i = k

\* The contents of c are numbered by the stamps they were written with.
Version(c) == 1..Len(file[c])

\* Where an importer is in ingestConversation, and what its locals say there.
InConversation == Label \ {"idle", "scan"}
HasPrev        == InConversation \ {"load"}
HasHash        == {"refresh", "parse", "replace", "record"}
HasParsed      == {"replace", "record"}

-----------------------------------------------------------------------------
(* The inductive invariant                                                 *)

\* A content is written once.
Fresh ==
  \A c \in Conv : \A m, n \in Version(c) : file[c][m] = file[c][n] => m = n

\* The content that was hashed, number h, is not older than the recorded stamp,
\* and the content the messages are from, number v, not older than that.
StoredAs(c, h, v) ==
  /\ state[c].stamp <= h /\ h <= v
  /\ state[c].hash = file[c][h]
  /\ messages[c] = Messages(file[c][v])

Recorded ==
  \A c \in Conv : state[c] # None => \E h, v \in Version(c) : StoredAs(c, h, v)

\* Which conversation an importer is on, and since when.
PositionOf(i) ==
  /\ \A c \in todo[i] : Exists(c)
  /\ pc[i] \in InConversation =>
       /\ cur[i] \in Conv
       /\ seen[i] \in Version(cur[i])
       /\ ~touched[i] => seen[i] = Stamp(cur[i])
       /\ pc[i] = "refresh" => prev[i] # None

Position == \A i \in Importer : PositionOf(i)

\* Nothing changes that PositionOf is about, but the transcripts.
Same(i) ==
  /\ pc'[i] = pc[i] /\ todo'[i] = todo[i] /\ cur'[i] = cur[i]
  /\ seen'[i] = seen[i] /\ prev'[i] = prev[i] /\ touched'[i] = touched[i]

\* No other importer brings up to date a conversation that this one is on.
Alone ==
  \A i \in Importer : pc[i] \in InConversation /\ cur[i] \in caughtUp => ~touched[i]

\* Until it replaces the messages, the store has nothing newer than its stat;
\* and the row it read is the row that is there.
Before ==
  \A i \in Importer :
    LET c == cur[i] IN
    /\ pc[i] \in InConversation \ {"record"} /\ state[c] # None =>
         \E h, v \in 1..seen[i] : StoredAs(c, h, v)
    /\ pc[i] \in HasPrev => prev[i] = state[c]

\* What it has read since, in the order it read it.
ReadAs(i, h) ==
  /\ seen[i] <= h
  /\ hash[i] = file[cur[i]][h]
  /\ pc[i] \in HasParsed =>
       \E v \in Version(cur[i]) :
         /\ h <= v
         /\ parsed[i] = file[cur[i]][v]

Reads ==
  \A i \in Importer :
    /\ pc[i] \in HasHash => \E h \in Version(cur[i]) : ReadAs(i, h)
    /\ pc[i] = "refresh" => prev[i].hash = hash[i]
    /\ pc[i] = "record" => messages[cur[i]] = Messages(parsed[i])

Knows == Fresh /\ Recorded /\ Alone /\ Before /\ Reads /\ CaughtUp

-----------------------------------------------------------------------------
(* Types and positions                                                     *)

\* An edit appends one content and changes no other.
LEMMA EditAppends ==
  ASSUME TypeOK, NEW c \in Conv, NEW d \in Content, Edit(c, d)
  PROVE  /\ file' \in [Conv -> Seq(Content)]
         /\ \A b \in Conv \ {c} : file'[b] = file[b]
         /\ Len(file'[c]) = Len(file[c]) + 1
         /\ \A n \in Version(c) : file'[c][n] = file[c][n]
         /\ file'[c][Len(file[c]) + 1] = d
         /\ Exists(c)'
<1>1. file[c] \in Seq(Content) /\ file' = [file EXCEPT ![c] = Append(@, d)]
  BY DEF Edit, TypeOK
<1>2. file'[c] = Append(file[c], d) /\ \A b \in Conv \ {c} : file'[b] = file[b]
  BY <1>1 DEF TypeOK
<1>3. file' \in [Conv -> Seq(Content)]
  BY <1>1, <1>2 DEF TypeOK
<1> QED BY <1>1, <1>2, <1>3 DEF Version, Exists

\* A transcript that exists has a last content.
LEMMA LastContent ==
  ASSUME TypeOK, NEW c \in Conv, Exists(c)
  PROVE  Stamp(c) \in Version(c) /\ Data(c) \in Content /\ Data(c) = file[c][Stamp(c)]
<1>1. file[c] \in Seq(Content) /\ file[c] # <<>>
  BY DEF TypeOK, Exists
<1> QED BY <1>1 DEF Stamp, Version, Data

LEMMA InitType == Init => TypeOK /\ Position
<1> SUFFICES ASSUME Init PROVE TypeOK /\ Position
  OBVIOUS
<1>1. file \in [Conv -> Seq(Content)]
  <2>1. <<>> \in Seq(Content) /\ \A d \in Content : <<d>> \in Seq(Content)
    OBVIOUS
  <2>2. {<<>>} \union {<<d>> : d \in Content} \subseteq Seq(Content)
    BY <2>1, Zenon
  <2> QED BY <2>2 DEF Init
<1>2. TypeOK
  BY <1>1, IngestAssumption DEF Init, TypeOK, Label, Content
<1> QED BY <1>2 DEF Init, Position, PositionOf, InConversation

\* The locals of an importer that leaves the conversation keep their types.
LEMMA LeaveType ==
  ASSUME TypeOK, NEW i \in Importer, Leave(i)
  PROVE  /\ cur' \in [Importer -> Conv \union {None}]
         /\ seen' \in [Importer -> Nat]
         /\ prev' \in [Importer -> State \union {None}]
         /\ hash' \in [Importer -> Content]
         /\ parsed' \in [Importer -> Content]
BY DEF Leave, TypeOK, Content

\* An importer in a conversation is on one whose transcript exists.
LEMMA OnTranscript ==
  ASSUME TypeOK, Position, NEW i \in Importer, pc[i] \in InConversation
  PROVE  /\ cur[i] \in Conv /\ Exists(cur[i])
         /\ seen[i] \in Version(cur[i])
         /\ Stamp(cur[i]) \in Version(cur[i]) /\ seen[i] <= Stamp(cur[i])
         /\ Data(cur[i]) \in Content /\ Data(cur[i]) = file[cur[i]][Stamp(cur[i])]
<1>1. cur[i] \in Conv /\ seen[i] \in Version(cur[i])
  BY DEF Position, PositionOf
<1>2. file[cur[i]] \in Seq(Content) /\ Len(file[cur[i]]) \in Nat
  BY <1>1 DEF TypeOK
<1>3. Exists(cur[i]) /\ seen[i] <= Stamp(cur[i])
  BY <1>1, <1>2 DEF Version, Exists, Stamp
<1> QED BY <1>1, <1>3, LastContent

LEMMA NextType == TypeOK /\ Position /\ [Next]_vars => TypeOK'
<1> SUFFICES ASSUME TypeOK, Position, [Next]_vars PROVE TypeOK'
  OBVIOUS
<1> USE DEF Goto
<1>1. CASE UNCHANGED vars
  BY <1>1 DEF vars, passVars, TypeOK
<1>2. ASSUME NEW c \in Conv, NEW d \in Content, Edit(c, d) PROVE TypeOK'
  <2>1. file' \in [Conv -> Seq(Content)]
    BY <1>2, EditAppends
  <2>2. touched' \in [Importer -> BOOLEAN]
    BY <1>2 DEF Edit
  <2> QED BY <1>2, <2>1, <2>2 DEF Edit, TypeOK, passVars
<1>3. ASSUME NEW i \in Importer, NEW f \in BOOLEAN, Begin(i, f) PROVE TypeOK'
  BY <1>3 DEF Begin, TypeOK, archiveVars, Label
<1>4. ASSUME NEW i \in Importer, NEW c \in Conv, Stat(i, c) PROVE TypeOK'
  <2>1. Stamp(c) \in Nat
    BY DEF Stamp, TypeOK
  <2> QED BY <1>4, <2>1 DEF Stat, TypeOK, Label
<1>5. ASSUME NEW i \in Importer, pc[i] \in InConversation, Imported(i),
             messages' \in [Conv -> Content], state' \in [Conv -> State \union {None}]
      PROVE  TypeOK'
  BY <1>5, LeaveType, OnTranscript DEF Imported, TypeOK, Label
<1>6. ASSUME NEW i \in Importer, NEW l \in Label, Proceed(i, l),
             messages' \in [Conv -> Content], state' \in [Conv -> State \union {None}],
             prev' \in [Importer -> State \union {None}],
             hash' \in [Importer -> Content], parsed' \in [Importer -> Content]
      PROVE  TypeOK'
  BY <1>6 DEF Proceed, TypeOK, archiveVars
<1>7. ASSUME NEW i \in Importer, Load(i) PROVE TypeOK'
  <2>1. pc[i] \in InConversation /\ UNCHANGED <<messages, state>>
    BY <1>7 DEF Load, InConversation, Label
  <2>2. CASE Imported(i)
    BY <2>1, <2>2, <1>5 DEF TypeOK
  <2>3. CASE ~Imported(i)
    <3>1. Proceed(i, "hash") /\ prev' = [prev EXCEPT ![i] = state[cur[i]]] /\ UNCHANGED <<hash, parsed>>
      BY <1>7, <2>3 DEF Load
    <3>2. cur[i] \in Conv
      BY <2>1, OnTranscript
    <3> QED BY <2>1, <3>1, <3>2, <1>6 DEF TypeOK, Label
  <2> QED BY <2>2, <2>3
<1>8. ASSUME NEW i \in Importer, Hash(i) PROVE TypeOK'
  <2>1. Data(cur[i]) \in Content
    BY <1>8, OnTranscript DEF Hash, InConversation, Label
  <2>2. /\ \E l \in {"refresh", "parse"} : Proceed(i, l)
        /\ hash' = [hash EXCEPT ![i] = Data(cur[i])]
        /\ UNCHANGED <<messages, state, prev, parsed>>
    BY <1>8, Zenon DEF Hash
  <2> QED BY <2>1, <2>2, <1>6 DEF TypeOK, Label
<1>9. ASSUME NEW i \in Importer, Skipped(i), faults' \in 0..MaxFaults PROVE TypeOK'
  BY <1>9, LeaveType DEF Skipped, TypeOK, archiveVars, Label
<1>10. ASSUME NEW i \in Importer, HashFails(i) PROVE TypeOK'
  BY <1>9, <1>10 DEF HashFails, TypeOK
<1>11. ASSUME NEW i \in Importer, Fail(i) PROVE TypeOK'
  BY <1>9, <1>11, IngestAssumption DEF Fail, TypeOK
<1>12. ASSUME NEW i \in Importer, Refresh(i) PROVE TypeOK'
  <2>1. pc[i] = "refresh" /\ prev[i] \in State
    BY <1>12 DEF Refresh, Position, PositionOf, TypeOK, InConversation, Label
  <2>2. [prev[i] EXCEPT !.stamp = seen[i]] \in State
    BY <2>1 DEF State, TypeOK
  <2> QED BY <2>1, <2>2, <1>12, <1>5 DEF Refresh, TypeOK, InConversation, Label
<1>13. ASSUME NEW i \in Importer, Parse(i) PROVE TypeOK'
  <2>1. Data(cur[i]) \in Content
    BY <1>13, OnTranscript DEF Parse, InConversation, Label
  <2> QED BY <2>1, <1>13, <1>6 DEF Parse, TypeOK, Label
<1>14. ASSUME NEW i \in Importer, Replace(i) PROVE TypeOK'
  <2>1. Messages(parsed[i]) \in Content
    BY DEF Messages, Content, TypeOK
  <2> QED BY <2>1, <1>14, <1>6 DEF Replace, TypeOK, Label
<1>15. ASSUME NEW i \in Importer, Record(i) PROVE TypeOK'
  <2>1. [stamp |-> seen[i], hash |-> hash[i]] \in State
    BY DEF State, TypeOK
  <2> QED BY <2>1, <1>15, <1>5 DEF Record, TypeOK, InConversation, Label
<1>16. ASSUME NEW i \in Importer, Finish(i) PROVE TypeOK'
  BY <1>16 DEF Finish, TypeOK, passVars, archiveVars, Label
<1>17. ASSUME NEW i \in Importer, Crash(i) PROVE TypeOK'
  BY <1>17, LeaveType, IngestAssumption DEF Crash, TypeOK, archiveVars, Label
<1> QED
  BY <1>1, <1>2, <1>3, <1>4, <1>7, <1>8, <1>10, <1>11, <1>12, <1>13, <1>14, <1>15, <1>16, <1>17
     DEF Next, Step

\* A step changes the transcripts only by an edit, and an importer's place only
\* by a step of that importer.
LEMMA NextPosition == TypeOK /\ Position /\ [Next]_vars => Position'
<1> SUFFICES ASSUME TypeOK, Position, [Next]_vars, NEW k \in Importer,
                    PositionOf(k)
             PROVE  PositionOf(k)'
  BY DEF Position
<1> USE DEF Goto
<1>1. CASE UNCHANGED vars
  BY <1>1 DEF vars, passVars, PositionOf, Exists, Version, Stamp
<1>2. ASSUME NEW c \in Conv, NEW d \in Content, Edit(c, d) PROVE PositionOf(k)'
  <2>1. UNCHANGED <<pc, cur, seen, prev, todo>>
        /\ touched' = [j \in Importer |-> touched[j] \/ cur[j] = c]
    BY <1>2 DEF Edit, passVars
  <2>2. \A b \in Conv : /\ Exists(b) => Exists(b)'
                        /\ Version(b) \subseteq Version(b)'
                        /\ b # c => Stamp(b)' = Stamp(b)
    BY <1>2, EditAppends DEF Exists, Version, Stamp, TypeOK
  <2>3. \A b \in todo[k] : b \in Conv
    BY DEF TypeOK
  <2>4. \A b \in todo[k]' : Exists(b)'
    BY <2>1, <2>2, <2>3 DEF PositionOf
  <2>5. ASSUME pc[k]' \in InConversation
        PROVE  /\ cur'[k] \in Conv
               /\ seen'[k] \in Version(cur[k])'
               /\ ~touched'[k] => seen'[k] = Stamp(cur[k])'
               /\ pc'[k] = "refresh" => prev'[k] # None
    <3>1. /\ cur[k] \in Conv /\ seen[k] \in Version(cur[k])
          /\ ~touched[k] => seen[k] = Stamp(cur[k])
          /\ pc[k] = "refresh" => prev[k] # None
      BY <2>1, <2>5 DEF PositionOf
    <3>2. ~touched'[k] => ~touched[k] /\ cur[k] # c
      BY <2>1, Zenon
    <3> QED BY <2>1, <2>2, <3>1, <3>2
  <2> QED BY <2>4, <2>5 DEF PositionOf
<1>3. ASSUME NEW i \in Importer, UNCHANGED file, \A j \in Importer : j # i => Same(j)
      PROVE  k # i => PositionOf(k)'
  BY <1>3 DEF Same, PositionOf, Exists, Version, Stamp
<1>4. ASSUME NEW i \in Importer, NEW f \in BOOLEAN, Begin(i, f) PROVE PositionOf(k)'
  <2>1. k # i => PositionOf(k)'
    BY <1>3, <1>4 DEF Begin, Same, archiveVars, TypeOK
  <2>2. k = i => PositionOf(k)'
    BY <1>4 DEF Begin, PositionOf, archiveVars, TypeOK, Exists, InConversation
  <2> QED BY <2>1, <2>2
<1>5. ASSUME NEW i \in Importer, NEW c \in Conv, Stat(i, c) PROVE PositionOf(k)'
  <2>1. k # i => PositionOf(k)'
    BY <1>3, <1>5 DEF Stat, Same, TypeOK
  <2>2. Exists(c) /\ Stamp(c) \in Version(c)
    BY <1>5, LastContent DEF Stat, Position, PositionOf
  <2>3. k = i => PositionOf(k)'
    BY <1>5, <2>2 DEF Stat, PositionOf, TypeOK, Exists, Version, Stamp, InConversation
  <2> QED BY <2>1, <2>3
<1>6. ASSUME NEW i \in Importer, NEW l \in {"idle", "scan"}, Leave(i), Goto(i, l), UNCHANGED <<file, touched>>,
             todo' = todo \/ todo' = [todo EXCEPT ![i] = {}]
      PROVE  PositionOf(k)'
  <2>1. k # i => PositionOf(k)'
    BY <1>3, <1>6 DEF Leave, Same, TypeOK
  <2>2. k = i => PositionOf(k)'
    BY <1>6 DEF PositionOf, TypeOK, Exists, InConversation
  <2> QED BY <2>1, <2>2
<1>7. ASSUME NEW i \in Importer, pc[i] \in InConversation, NEW l \in Label, Proceed(i, l),
             l = "refresh" => prev'[i] # None, \A j \in Importer : j # i => prev'[j] = prev[j]
      PROVE  PositionOf(k)'
  <2>1. k # i => PositionOf(k)'
    BY <1>3, <1>7 DEF Proceed, Same, TypeOK, archiveVars
  <2>2. k = i => PositionOf(k)'
    BY <1>7 DEF Proceed, PositionOf, TypeOK, archiveVars, Exists, Version, Stamp
  <2> QED BY <2>1, <2>2
<1>8. ASSUME NEW i \in Importer, Load(i) PROVE PositionOf(k)'
  BY <1>6, <1>7, <1>8 DEF Load, Imported, InConversation, Label, TypeOK
<1>9. ASSUME NEW i \in Importer, Hash(i) PROVE PositionOf(k)'
  <2>1. /\ pc[i] = "hash" /\ UNCHANGED prev
        /\ \E l \in {"refresh", "parse"} : Proceed(i, l) /\ (l = "refresh" => prev[i] # None)
    BY <1>9 DEF Hash
  <2> QED BY <1>7, <2>1 DEF InConversation, Label
<1>10. ASSUME NEW i \in Importer, Skipped(i) PROVE PositionOf(k)'
  BY <1>6, <1>10 DEF Skipped, archiveVars
<1>11. ASSUME NEW i \in Importer, Refresh(i) \/ Record(i) PROVE PositionOf(k)'
  BY <1>6, <1>11 DEF Refresh, Record, Imported
<1>12. ASSUME NEW i \in Importer, Parse(i) \/ Replace(i) PROVE PositionOf(k)'
  BY <1>7, <1>12 DEF Parse, Replace, InConversation, Label
<1>13. ASSUME NEW i \in Importer, Finish(i) PROVE PositionOf(k)'
  <2>1. k # i => PositionOf(k)'
    BY <1>3, <1>13 DEF Finish, Same, TypeOK, passVars, archiveVars
  <2>2. k = i => PositionOf(k)'
    BY <1>13 DEF Finish, PositionOf, TypeOK, passVars, archiveVars, Exists, InConversation
  <2> QED BY <2>1, <2>2
<1>14. ASSUME NEW i \in Importer, Crash(i) PROVE PositionOf(k)'
  BY <1>6, <1>14 DEF Crash, archiveVars
<1> QED
  BY <1>1, <1>2, <1>4, <1>5, <1>8, <1>9, <1>10, <1>11, <1>12, <1>13, <1>14
     DEF Next, Step, HashFails, Fail

\* Type correctness, of any number of importers: in particular the hash and the
\* parse never find a transcript that is not there.
THEOREM TypeCorrect == Spec => []TypeOK
<1>1. TypeOK /\ Position /\ [Next]_vars => (TypeOK /\ Position)'
  BY NextType, NextPosition
<1> QED BY InitType, <1>1, PTL DEF Spec

-----------------------------------------------------------------------------
(* What the store knows of the transcripts                                 *)

LEMMA InitKnows == Init => Knows
<1> SUFFICES ASSUME Init PROVE Knows
  OBVIOUS
<1>1. \A c \in Conv : Len(file[c]) <= 1
  <2>1. \A x \in {<<>>} \union {<<d>> : d \in Content} : Len(x) <= 1
    <3>1. Len(<<>>) <= 1 /\ \A d \in Content : Len(<<d>>) <= 1
      OBVIOUS
    <3> QED BY <3>1, Zenon
  <2> QED BY <2>1 DEF Init
<1>2. Fresh
  BY <1>1, InitType DEF Fresh, Version, TypeOK
<1> QED
  BY <1>2 DEF Init, Knows, Recorded, Alone, Before, Reads, CaughtUp,
       InConversation, HasPrev, HasHash

\* An edit: what was stored as some content still is.
LEMMA EditKnows ==
  ASSUME ~Reuse, TypeOK, Position, Knows, NEW c \in Conv, NEW d \in Content, Edit(c, d)
  PROVE  Knows'
<1>1. /\ UNCHANGED <<messages, state, pc, cur, seen, prev, hash, parsed>>
      /\ caughtUp' = caughtUp \ {c}
      /\ touched' = [i \in Importer |-> touched[i] \/ cur[i] = c]
  BY DEF Edit, passVars
<1>2. \A b \in Conv : Version(b) \subseteq Version(b)' /\ \A n \in Version(b) : file'[b][n] = file[b][n]
  <2> SUFFICES ASSUME NEW b \in Conv
               PROVE  Version(b) \subseteq Version(b)' /\ \A n \in Version(b) : file'[b][n] = file[b][n]
    OBVIOUS
  <2>1. CASE b = c
    BY <2>1, EditAppends DEF Version, TypeOK
  <2>2. CASE b # c
    BY <2>2, EditAppends DEF Version
  <2> QED BY <2>1, <2>2
<1>3. \A i \in Importer : pc[i] \in InConversation => cur[i] \in Conv /\ 1..seen[i] \subseteq Version(cur[i])
  BY OnTranscript DEF Version, TypeOK
<1>4. \A b \in Conv : state[b] # None =>
        \A h, v \in Version(b) : StoredAs(b, h, v) => StoredAs(b, h, v)'
  BY <1>1, <1>2 DEF StoredAs
<1>5. Fresh'
  <2>1. \A n \in Version(c) : file[c][n] # d
    BY DEF Edit, Range, Version, TypeOK
  <2>2. Version(c)' = Version(c) \union {Len(file[c]) + 1} /\ file'[c][Len(file[c]) + 1] = d
    BY EditAppends DEF Version, TypeOK
  <2>3. \A b \in Conv \ {c} : file'[b] = file[b]
    BY EditAppends
  <2>4. \A m, n \in Version(c)' : file'[c][m] = file'[c][n] => m = n
    BY <1>2, <2>1, <2>2 DEF Knows, Fresh
  <2> QED BY <2>3, <2>4 DEF Knows, Fresh, Version
<1>6. Recorded'
  BY <1>1, <1>2, <1>4 DEF Knows, Recorded
<1>7. Alone'
  BY <1>1 DEF Knows, Alone
<1>8. Before'
  <2> SUFFICES ASSUME NEW i \in Importer, pc[i] \in InConversation \ {"record"}, state[cur[i]] # None
               PROVE  \E h, v \in 1..seen[i] : StoredAs(cur[i], h, v)'
    BY <1>1 DEF Knows, Before
  <2>1. PICK h \in 1..seen[i], v \in 1..seen[i] : StoredAs(cur[i], h, v)
    BY DEF Knows, Before
  <2>2. cur[i] \in Conv /\ h \in Version(cur[i]) /\ v \in Version(cur[i])
    BY <1>3, <2>1
  <2>3. StoredAs(cur[i], h, v)'
    BY <1>1, <1>4, <2>1, <2>2 DEF StoredAs
  <2> QED BY <1>1, <2>1, <2>3
<1>9. Reads'
  <2> SUFFICES ASSUME NEW i \in Importer, pc[i] \in HasHash
               PROVE  \E h \in Version(cur[i])' : ReadAs(i, h)'
    BY <1>1 DEF Knows, Reads, HasHash
  <2>1. PICK h \in Version(cur[i]) : ReadAs(i, h)
    BY DEF Knows, Reads
  <2>2. cur[i] \in Conv
    BY <1>3 DEF HasHash, InConversation, Label
  <2>3. ReadAs(i, h)'
    BY <1>1, <1>2, <2>1, <2>2 DEF ReadAs
  <2> QED BY <1>1, <1>2, <2>1, <2>2, <2>3 DEF Version
<1>10. CaughtUp'
  <2>1. \A b \in caughtUp' : b \in Conv /\ b \in caughtUp /\ file'[b] = file[b]
    BY <1>1, EditAppends DEF TypeOK
  <2> QED BY <1>1, <2>1 DEF Knows, CaughtUp, Data
<1> QED BY <1>5, <1>6, <1>7, <1>8, <1>9, <1>10 DEF Knows

\* The last content is the one with the last number.
LEMMA LastNumber ==
  ASSUME TypeOK, Position, NEW i \in Importer, pc[i] \in InConversation,
         NEW n \in Version(cur[i]), seen[i] <= n, ~touched[i]
  PROVE  n = seen[i] /\ Data(cur[i]) = file[cur[i]][n]
BY OnTranscript DEF Position, PositionOf, Version, Stamp, TypeOK

\* A step that leaves the store and the transcripts alone and ends with the
\* importer out of any conversation.
LEMMA AwayKnows ==
  ASSUME OneProcess, TypeOK, Knows, NEW i \in Importer, pc'[i] \in {"idle", "scan"},
         UNCHANGED <<file, messages, state>>,
         \A c \in caughtUp' : c \in caughtUp \/ messages[c] = Messages(Data(c))
  PROVE  Knows'
<1>1. \A k \in Importer : pc'[k] \notin InConversation
  BY DEF OneProcess, InConversation
<1>2. Fresh' /\ Recorded'
  BY DEF Knows, Fresh, Recorded, Version, StoredAs
<1>3. CaughtUp'
  BY DEF Knows, CaughtUp, Data
<1> QED BY <1>1, <1>2, <1>3 DEF Knows, Alone, Before, Reads, InConversation, HasPrev, HasHash, Label

\* The fast path finds what is in the store: what SkipIsSafe says.
LEMMA SkipFromKnows == TypeOK /\ Fresh /\ Recorded => SkipIsSafe
<1> SUFFICES ASSUME TypeOK, Fresh, Recorded, NEW c \in Conv, Exists(c), state[c] # None,
                    state[c].stamp = Stamp(c) \/ state[c].hash = Data(c)
             PROVE  messages[c] = Messages(Data(c))
  BY DEF SkipIsSafe
<1>1. PICK h \in Version(c), v \in Version(c) : StoredAs(c, h, v)
  BY DEF Recorded
<1>2. Stamp(c) \in Version(c) /\ Data(c) = file[c][Stamp(c)]
  BY LastContent
<1>3. state[c].stamp \in Nat
  BY DEF TypeOK, State
<1>4. h = Stamp(c)
  BY <1>1, <1>2, <1>3 DEF Fresh, StoredAs, Version, Stamp
<1>5. v = Stamp(c)
  BY <1>1, <1>2, <1>4 DEF StoredAs, Version, Stamp
<1> QED BY <1>1, <1>2, <1>5 DEF StoredAs

LEMMA StatKnows ==
  ASSUME OneProcess, TypeOK, Position, Knows, NEW i \in Importer, NEW c \in Conv, Stat(i, c)
  PROVE  Knows'
<1>1. /\ UNCHANGED <<file, messages, state, caughtUp>>
      /\ pc'[i] = "load" /\ cur'[i] = c /\ seen'[i] = Stamp(c) /\ ~touched'[i]
      /\ \A k \in Importer : k = i
  BY DEF Stat, Goto, TypeOK, OneProcess
<1>2. Fresh' /\ Recorded' /\ CaughtUp' /\ Alone'
  BY <1>1 DEF Knows, Fresh, Recorded, Version, StoredAs, CaughtUp, Data, Alone
<1>3. Before'
  <2>1. state[c] # None => \E h, v \in 1..Stamp(c) : StoredAs(c, h, v)
    BY DEF Knows, Recorded, Version, Stamp
  <2>2. state'[c] # None => \E h, v \in 1..seen'[i] : StoredAs(c, h, v)'
    BY <1>1, <2>1 DEF StoredAs
  <2> QED BY <1>1, <2>2 DEF Before, HasPrev, InConversation, Label, StoredAs
<1>4. Reads'
  BY <1>1 DEF Reads, HasHash
<1> QED BY <1>2, <1>3, <1>4 DEF Knows

\* A step within ingestConversation that leaves the store alone.
LEMMA ProceedKeeps ==
  ASSUME OneProcess, TypeOK, Position, Knows, NEW i \in Importer, pc[i] \in InConversation,
         NEW l \in InConversation \ {"record"}, Proceed(i, l), pc[i] # "record",
         UNCHANGED <<messages, state>>, prev'[i] = state[cur[i]]
  PROVE  Fresh' /\ Recorded' /\ Alone' /\ Before' /\ CaughtUp'
<1>1. /\ UNCHANGED <<file, messages, state, caughtUp, touched, cur, seen>>
      /\ pc'[i] = l /\ \A k \in Importer : k = i
  BY DEF Proceed, Goto, TypeOK, OneProcess, archiveVars
<1>2. Fresh' /\ Recorded' /\ CaughtUp'
  BY <1>1 DEF Knows, Fresh, Recorded, Version, StoredAs, CaughtUp, Data
<1>3. Alone'
  BY <1>1 DEF Knows, Alone
<1>4. Before'
  <2>1. state[cur[i]] # None => \E h, v \in 1..seen[i] : StoredAs(cur[i], h, v)
    BY DEF Knows, Before
  <2>2. state'[cur[i]] # None => \E h, v \in 1..seen'[i] : StoredAs(cur[i], h, v)'
    BY <1>1, <2>1 DEF StoredAs
  <2> QED BY <1>1, <2>2 DEF Before, StoredAs
<1> QED BY <1>2, <1>3, <1>4

LEMMA LoadKnows ==
  ASSUME OneProcess, TypeOK, Position, Knows, NEW i \in Importer, Load(i)
  PROVE  Knows'
<1>1. pc[i] = "load" /\ pc[i] \in InConversation /\ UNCHANGED <<messages, state>>
  BY DEF Load, InConversation, Label
<1>2. CASE Imported(i)
  <2>1. state[cur[i]] # None /\ state[cur[i]].stamp = seen[i]
    BY <1>1, <1>2 DEF Load, Imported, Proceed, Goto, TypeOK
  <2>2. ~touched[i] => messages[cur[i]] = Messages(Data(cur[i]))
    BY <1>1, <2>1, OnTranscript, SkipFromKnows DEF Knows, SkipIsSafe, Position, PositionOf
  <2> QED BY <1>1, <1>2, <2>2, AwayKnows DEF Imported, Goto, TypeOK
<1>3. CASE ~Imported(i)
  <2>1. Proceed(i, "hash") /\ prev'[i] = state[cur[i]]
    BY <1>1, <1>3 DEF Load, TypeOK
  <2>2. Fresh' /\ Recorded' /\ Alone' /\ Before' /\ CaughtUp'
    BY <1>1, <2>1, ProceedKeeps DEF InConversation, Label
  <2>3. Reads'
    BY <2>1 DEF Proceed, Goto, OneProcess, TypeOK, Reads, HasHash
  <2> QED BY <2>2, <2>3 DEF Knows
<1> QED BY <1>2, <1>3

LEMMA HashKnows ==
  ASSUME OneProcess, TypeOK, Position, Knows, NEW i \in Importer, Hash(i)
  PROVE  Knows'
<1>1. pc[i] = "hash" /\ pc[i] \in InConversation /\ UNCHANGED <<messages, state, prev, parsed>>
  BY DEF Hash, InConversation, Label
<1>2. PICK l \in {"refresh", "parse"} :
        Proceed(i, l) /\ (l = "refresh" => prev[i].hash = Data(cur[i]))
  BY DEF Hash
<1>3. prev'[i] = state[cur[i]]
  BY <1>1 DEF Knows, Before, HasPrev, InConversation, Label
<1>4. Fresh' /\ Recorded' /\ Alone' /\ Before' /\ CaughtUp'
  BY <1>1, <1>2, <1>3, ProceedKeeps DEF InConversation, Label
<1>5. Reads'
  <2>1. /\ UNCHANGED <<file, cur, seen>> /\ pc'[i] = l /\ hash'[i] = Data(cur[i])
        /\ \A k \in Importer : k = i
    BY <1>2 DEF Hash, Proceed, Goto, OneProcess, TypeOK, archiveVars
  <2>2. ReadAs(i, Stamp(cur[i]))' /\ Stamp(cur[i]) \in Version(cur[i])
    BY <1>1, <2>1, OnTranscript DEF ReadAs, HasParsed, Stamp
  <2> QED BY <1>1, <1>2, <2>1, <2>2 DEF Reads, HasHash, Version, Stamp
<1> QED BY <1>4, <1>5 DEF Knows

LEMMA ParseKnows ==
  ASSUME OneProcess, TypeOK, Position, Knows, NEW i \in Importer, Parse(i)
  PROVE  Knows'
<1>1. /\ pc[i] = "parse" /\ pc[i] \in InConversation
      /\ Proceed(i, "replace") /\ UNCHANGED <<messages, state, prev, hash>>
  BY DEF Parse, InConversation, Label
<1>2. prev'[i] = state[cur[i]]
  BY <1>1 DEF Knows, Before, HasPrev, InConversation, Label
<1>3. Fresh' /\ Recorded' /\ Alone' /\ Before' /\ CaughtUp'
  BY <1>1, <1>2, ProceedKeeps DEF InConversation, Label
<1>4. Reads'
  <2>1. /\ UNCHANGED <<file, cur, seen>> /\ pc'[i] = "replace" /\ parsed'[i] = Data(cur[i])
        /\ \A k \in Importer : k = i
    BY <1>1 DEF Parse, Proceed, Goto, OneProcess, TypeOK, archiveVars
  <2>2. PICK h \in Version(cur[i]) : ReadAs(i, h)
    BY <1>1 DEF Knows, Reads, HasHash
  <2>3. Stamp(cur[i]) \in Version(cur[i]) /\ h <= Stamp(cur[i])
        /\ Data(cur[i]) = file[cur[i]][Stamp(cur[i])]
    BY <1>1, OnTranscript DEF Version, Stamp, TypeOK
  <2>4. \E v \in Version(cur[i])' : h <= v /\ parsed'[i] = file'[cur'[i]][v]
    BY <2>1, <2>3 DEF Version
  <2>5. ReadAs(i, h)'
    BY <1>1, <2>1, <2>2, <2>4 DEF ReadAs
  <2> QED BY <2>1, <2>2, <2>5 DEF Reads, HasHash, Version
<1> QED BY <1>3, <1>4 DEF Knows
\* The touch of a file: the recorded hash is of the content that was there at
\* the stat, and the messages are its messages.
LEMMA RefreshKnows ==
  ASSUME OneProcess, TypeOK, Position, Knows, NEW i \in Importer, Refresh(i)
  PROVE  Knows'
<1>0. PICK c \in Conv : c = cur[i]
  BY OnTranscript DEF Refresh, InConversation, Label
<1>1. /\ pc[i] = "refresh" /\ pc[i] \in InConversation /\ c \in Conv
      /\ Imported(i) /\ UNCHANGED messages /\ state[c] = prev[i] /\ prev[i] \in State
      /\ state' = [state EXCEPT ![c] = [prev[i] EXCEPT !.stamp = seen[i]]]
  BY <1>0, OnTranscript DEF Refresh, Knows, Before, HasPrev, InConversation, Label, Position, PositionOf, TypeOK
<1>2. PICK h \in 1..seen[i], v \in 1..seen[i] : StoredAs(c, h, v)
  <2>1. state[c] # None
    BY <1>0, <1>1 DEF Position, PositionOf
  <2> QED BY <1>0, <1>1, <2>1 DEF Knows, Before
<1>3. PICK g \in Version(c) : ReadAs(i, g)
  BY <1>0, <1>1 DEF Knows, Reads, HasHash
<1>4. h \in Version(c) /\ v \in Version(c) /\ seen[i] \in Version(c)
  BY <1>0, <1>1, OnTranscript DEF Version, TypeOK
<1>5. h = g
  BY <1>0, <1>1, <1>3, <1>4, <1>2 DEF StoredAs, ReadAs, Knows, Reads, Fresh
<1>6. h = seen[i] /\ v = seen[i]
  BY <1>0, <1>2, <1>3, <1>4, <1>5 DEF StoredAs, ReadAs, Version
<1>7. /\ UNCHANGED <<file, messages>> /\ pc'[i] = "scan" /\ \A k \in Importer : k = i
      /\ \A b \in Conv \ {c} : state'[b] = state[b]
      /\ state'[c].stamp = seen[i] /\ state'[c].hash = state[c].hash
      /\ caughtUp' = IF touched[i] THEN caughtUp ELSE caughtUp \union {c}
  BY <1>0, <1>1 DEF Imported, Goto, OneProcess, TypeOK, State
<1>8. Recorded'
  <2>1. StoredAs(c, h, h)'
    BY <1>0, <1>2, <1>4, <1>6, <1>7 DEF StoredAs, Version
  <2>2. \A b \in Conv \ {c} : state'[b] # None => \E m, n \in Version(b) : StoredAs(b, m, n)'
    BY <1>0, <1>7 DEF Knows, Recorded, StoredAs
  <2> QED BY <1>0, <1>4, <1>7, <2>1, <2>2 DEF Recorded, Version, StoredAs
<1>9. CaughtUp'
  <2>1. ~touched[i] => messages[c] = Messages(Data(c))
    BY <1>0, <1>1, <1>2, <1>4, <1>6, LastNumber DEF StoredAs
  <2> QED BY <1>0, <1>7, <2>1 DEF Knows, CaughtUp, Data
<1> QED
  BY <1>0, <1>7, <1>8, <1>9
     DEF Knows, Fresh, Version, Alone, Before, Reads, InConversation, HasPrev, HasHash, Label

\* What was hashed and what was parsed, in the order they were read.
LEMMA ReadInOrder ==
  ASSUME TypeOK, Position, Knows, NEW i \in Importer, pc[i] \in HasParsed
  PROVE  \E h, v \in Version(cur[i]) :
           /\ seen[i] <= h /\ h <= v
           /\ hash[i] = file[cur[i]][h] /\ parsed[i] = file[cur[i]][v]
BY DEF Knows, Reads, ReadAs, HasHash, HasParsed

LEMMA ReplaceKnows ==
  ASSUME OneProcess, TypeOK, Position, Knows, NEW i \in Importer, Replace(i)
  PROVE  Knows'
<1> DEFINE c == cur[i]
<1>1. /\ pc[i] = "replace" /\ pc[i] \in InConversation /\ c \in Conv
      /\ seen[i] \in Version(c) /\ Version(c) \subseteq Nat
  BY OnTranscript DEF Replace, InConversation, Label, Version
<1>2. /\ UNCHANGED <<file, state, prev, hash, parsed, caughtUp, touched, cur, seen>>
      /\ pc'[i] = "record" /\ \A k \in Importer : k = i
      /\ \A b \in Conv \ {c} : messages'[b] = messages[b]
      /\ messages'[c] = Messages(parsed[i])
  BY <1>1 DEF Replace, Proceed, Goto, OneProcess, TypeOK, archiveVars
<1>3. PICK h \in Version(c), v \in Version(c) :
        /\ seen[i] <= h /\ h <= v /\ hash[i] = file[c][h] /\ parsed[i] = file[c][v]
  BY <1>1, ReadInOrder DEF HasParsed
<1>4. Recorded'
  <2>1. ASSUME state[c] # None PROVE \E m, n \in Version(c) : StoredAs(c, m, n)'
    <3>1. PICK g \in 1..seen[i], w \in 1..seen[i] : StoredAs(c, g, w)
      BY <1>1, <2>1 DEF Knows, Before
    <3>2. StoredAs(c, g, v)' /\ g \in Version(c)
      BY <1>1, <1>2, <1>3, <3>1 DEF StoredAs, Version, TypeOK
    <3> QED BY <3>2
  <2>2. \A b \in Conv \ {c} : state'[b] # None => \E m, n \in Version(b) : StoredAs(b, m, n)'
    BY <1>2 DEF Knows, Recorded, StoredAs
  <2> QED BY <1>2, <2>1, <2>2 DEF Recorded, Version, StoredAs
<1>5. Before'
  BY <1>1, <1>2 DEF Knows, Before, HasPrev, InConversation, Label
<1>6. Reads'
  <2>1. ReadAs(i, h)'
    BY <1>2, <1>3 DEF ReadAs, Version
  <2> QED BY <1>2, <2>1 DEF Reads, HasHash, Version
<1>7. CaughtUp'
  <2>1. ASSUME c \in caughtUp PROVE Messages(parsed[i]) = Messages(Data(c))
    <3>1. ~touched[i] /\ seen[i] <= v
      BY <1>1, <1>3, <2>1 DEF Knows, Alone
    <3> QED BY <1>1, <1>3, <3>1, LastNumber
  <2> QED BY <1>2, <2>1 DEF Knows, CaughtUp, Data, TypeOK
<1>8. Fresh' /\ Alone'
  BY <1>1, <1>2 DEF Knows, Fresh, Version, Alone
<1> QED BY <1>4, <1>5, <1>6, <1>7, <1>8 DEF Knows

LEMMA RecordKnows ==
  ASSUME OneProcess, TypeOK, Position, Knows, NEW i \in Importer, Record(i)
  PROVE  Knows'
<1>0. PICK c \in Conv : c = cur[i]
  BY OnTranscript DEF Record, InConversation, Label
<1>1. /\ pc[i] = "record" /\ pc[i] \in InConversation /\ c \in Conv
      /\ seen[i] \in Version(c) /\ Version(c) \subseteq Nat
  BY <1>0, OnTranscript DEF Record, InConversation, Label, Version
<1>2. /\ UNCHANGED <<file, messages>> /\ pc'[i] = "scan" /\ \A k \in Importer : k = i
      /\ \A b \in Conv \ {c} : state'[b] = state[b]
      /\ state'[c] = [stamp |-> seen[i], hash |-> hash[i]]
      /\ caughtUp' = IF touched[i] THEN caughtUp ELSE caughtUp \union {c}
  BY <1>0, <1>1 DEF Record, Imported, Goto, OneProcess, TypeOK
<1>3. PICK h \in Version(c), v \in Version(c) :
        /\ seen[i] <= h /\ h <= v /\ hash[i] = file[c][h] /\ parsed[i] = file[c][v]
  BY <1>0, <1>1, ReadInOrder DEF HasParsed
<1>4. messages[c] = Messages(file[c][v])
  BY <1>0, <1>1, <1>3 DEF Knows, Reads
<1>5. Recorded'
  <2>1. StoredAs(c, h, v)'
    BY <1>0, <1>2, <1>3, <1>4 DEF StoredAs, Version
  <2>2. \A b \in Conv \ {c} : state'[b] # None => \E m, n \in Version(b) : StoredAs(b, m, n)'
    BY <1>0, <1>2 DEF Knows, Recorded, StoredAs
  <2> QED BY <1>0, <1>2, <2>1, <2>2 DEF Recorded, Version, StoredAs
<1>6. CaughtUp'
  <2>1. ASSUME ~touched[i] PROVE messages[c] = Messages(Data(c))
    <3>1. seen[i] <= v
      BY <1>0, <1>1, <1>3
    <3> QED BY <1>0, <1>1, <1>4, <2>1, <3>1, LastNumber
  <2> QED BY <1>0, <1>2, <2>1 DEF Knows, CaughtUp, Data
<1> QED
  BY <1>0, <1>2, <1>5, <1>6
     DEF Knows, Fresh, Version, Alone, Before, Reads, InConversation, HasPrev, HasHash, Label

LEMMA NextKnows ==
  ASSUME OneProcess, ~Reuse
  PROVE  TypeOK /\ Position /\ Knows /\ [Next]_vars => Knows'
<1> SUFFICES ASSUME TypeOK, Position, Knows, [Next]_vars PROVE Knows'
  OBVIOUS
<1>1. CASE UNCHANGED vars
  <2>1. UNCHANGED <<Fresh, Recorded, Alone, Before, Reads, CaughtUp>>
    BY <1>1 DEF vars, passVars, Fresh, Recorded, Alone, Before, Reads, CaughtUp, StoredAs, ReadAs, Version, Data
  <2> QED BY <2>1 DEF Knows
<1>2. ASSUME NEW i \in Importer, Goto(i, "idle") \/ Goto(i, "scan"), UNCHANGED <<file, messages, state, caughtUp>>
      PROVE  Knows'
  BY <1>2, AwayKnows DEF Goto, TypeOK
<1>3. ASSUME NEW i \in Importer, Begin(i, TRUE) \/ Begin(i, FALSE) PROVE Knows'
  BY <1>3, <1>2 DEF Begin, archiveVars
<1>4. ASSUME NEW i \in Importer, Skipped(i) PROVE Knows'
  BY <1>4, <1>2 DEF Skipped, archiveVars
<1>5. ASSUME NEW i \in Importer, Finish(i) \/ Crash(i) PROVE Knows'
  BY <1>5, <1>2 DEF Finish, Crash, archiveVars
<1> QED
  BY <1>1, <1>3, <1>4, <1>5, EditKnows, StatKnows, LoadKnows, HashKnows, RefreshKnows,
     ParseKnows, ReplaceKnows, RecordKnows DEF Next, Step, HashFails, Fail

\* The skips of ingestConversation are safe, whatever edits, errors and crashes
\* came before: for one importing process, and contents that do not come back.
THEOREM SkipSafe ==
  ASSUME OneProcess, ~Reuse
  PROVE  Spec => []SkipIsSafe
<1>1. Init => TypeOK /\ Position /\ Knows
  BY InitType, InitKnows
<1>2. TypeOK /\ Position /\ Knows /\ [Next]_vars => (TypeOK /\ Position /\ Knows)'
  BY NextType, NextPosition, NextKnows
<1>3. TypeOK /\ Position /\ Knows => SkipIsSafe
  BY SkipFromKnows DEF Knows
<1> QED BY <1>1, <1>2, <1>3, PTL DEF Spec

\* No edit is lost: what a pass imported, and nobody edited since that pass
\* looked at it, is in the store as it is in the archive.
THEOREM NoEditLost ==
  ASSUME OneProcess, ~Reuse
  PROVE  Spec => []CaughtUp
<1>1. Init => TypeOK /\ Position /\ Knows
  BY InitType, InitKnows
<1>2. TypeOK /\ Position /\ Knows /\ [Next]_vars => (TypeOK /\ Position /\ Knows)'
  BY NextType, NextPosition, NextKnows
<1>3. Knows => CaughtUp
  BY DEF Knows
<1> QED BY <1>1, <1>2, <1>3, PTL DEF Spec
=============================================================================
