----------------------------- MODULE Transcripts -----------------------------
(***************************************************************************)
(* How the exporters' transcripts become messages (parser.go and import.go *)
(* of internal/signal, internal/imessage and internal/whatsapp, the hash of *)
(* signal/message.go), while chats go on: messages are sent, people react  *)
(* to old ones, chats get other names, and the exports are read again.     *)
(*                                                                         *)
(* A line is a record.  "text" is what a person writes, of which pad says  *)
(* that it ends in a blank and n counts the files behind it; the other      *)
(* kinds are what the formats give a meaning to, and a person may imitate.  *)
(***************************************************************************)
EXTENDS Absent, Integers, Sequences, FiniteSets, SequencesExt, FiniteSetsExt

CONSTANTS
  Dialogue,   \* chats: [source, jid, local]; the last two are WhatsApp's
  FirstName,  \* their names, which are tuples: a name and what was added to it
  NewName,    \* the names that WhatsApp chats may get
  Saying,     \* what may be sent, by source: a set of [from, lines, files, timed]
  Reactor,
  Me, System, \* the senders "Me" and "No-Sender"
  Together,   \* bound: sets of chats that are busy in one behaviour
  MaxSent,    \* bound: messages
  MaxChanges  \* bound: reactions and changes of a name

\* What is said is lines, without files of their own.
SayingOK(say) ==
  /\ say.files \in Nat
  /\ say.lines \in Seq(ToSet(say.lines))
  /\ \A i \in DOMAIN say.lines : LET line == say.lines[i] IN
       /\ line.k # "files"
       /\ line.k = "blank" => line = [k |-> "blank"]
       /\ line.k = "trailer" => line.n = 0
       /\ line.k = "text" => /\ line.pad \in BOOLEAN
                             /\ line = [k |-> "text", t |-> line.t, pad |-> line.pad, n |-> 0]

\* Exporters name the transcripts of Signal and iMessage by the chat, and WhatsApp's
\* chats have ids; a chat's first name is not among those it gets later.
ASSUME DialogueAssumption ==
  /\ IsFiniteSet(Dialogue)
  /\ FirstName = [c \in Dialogue |-> FirstName[c]]
  /\ \A c \in Dialogue :
       /\ c.source \in {"signal", "imessage", "whatsapp"}
       /\ c.source = "whatsapp" => c.jid \in Int
       /\ FirstName[c] \notin NewName
  /\ \A c, d \in Dialogue : c.source = d.source /\ c # d =>
       IF c.source = "whatsapp" THEN c.jid # d.jid ELSE FirstName[c] # FirstName[d]
  /\ \A name \in NewName \union {FirstName[c] : c \in Dialogue} : name # None => name \in Seq(ToSet(name))

ASSUME SayingAssumption ==
  \A c \in Dialogue : \A say \in Saying[c.source] : SayingOK(say)

VARIABLES
  sent,    \* per chat, what was sent: [ts, say, reacted]
  named,   \* per chat, its name or None
  rows,    \* per conversation <<source, name>>, its rows of the archive
  fresh,   \* the sources that were imported since anything changed in a chat
  changes

transcriptVars == <<sent, named, rows, fresh, changes>>

Text(t)    == [k |-> "text", t |-> t, pad |-> FALSE, n |-> 0]
Blank      == [k |-> "blank"]
Indented   == [k |-> "indented"]
Tapbacks   == [k |-> "tapbacks"]
Tapback(r) == [k |-> "tapback", r |-> r]
Stamp(ts)  == [k |-> "stamp", ts |-> ts]
Files(n)   == [k |-> "files", n |-> n]
Trailer(reactions, n)    == [k |-> "trailer", reactions |-> reactions, n |-> n]
Anchor(ts, sender, line) == [k |-> "anchor", ts |-> ts, sender |-> sender, line |-> line]

IsBlank(line) == line.k = "blank"

TrimEnd(lines) == SubSeq(lines, 1, Max({i \in DOMAIN lines : ~IsBlank(lines[i])} \union {0}))

-----------------------------------------------------------------------------
(* What the parsers share: the number among messages that look the same,    *)
(* and the hash.                                                           *)

Alike(a, b) == a.ts = b.ts /\ a.sender = b.sender /\ a.body = b.body

AsRow(m, seq) ==
  [ts |-> m.ts, sender |-> m.sender, body |-> m.body, files |-> m.files, reactions |-> m.reactions,
   seq |-> seq]

\* Mutant: the number is the place in the conversation.
WithSeqByPlace(out) == [i \in DOMAIN out |-> AsRow(out[i], i - 1)]

WithSeq(out) ==
  [i \in DOMAIN out |-> AsRow(out[i], Cardinality({j \in 1 .. i - 1 : Alike(out[j], out[i])}))]

HashWithSource(conv, m) == <<conv, m.ts, m.sender, m.body, m.seq>>

-----------------------------------------------------------------------------
(* Signal: chat.md, in which a message begins with "[time] sender: ".       *)

\* The text before a trailer, without the blanks that it ends in.
Cleaned(lines) ==
  LET rest == TrimEnd(lines)
  IN IF rest # <<>> /\ Last(rest).k = "text" THEN [rest EXCEPT ![Len(rest)].pad = FALSE] ELSE rest

\* Mutant: the first line that looks like a trailer is taken for it.
extractReactionsFirst(body) ==
  LET at == {i \in DOMAIN body : body[i].k = "trailer"}
      i == Min(at)
  IN IF at = {} \/ (\E j \in i + 1 .. Len(body) : ~IsBlank(body[j])) \/ body[i].reactions = {}
     THEN [body |-> body, reactions |-> {}]
     ELSE [body |-> Cleaned(SubSeq(body, 1, i - 1)) \o
                    (IF body[i].n > 0 THEN <<Files(body[i].n)>> ELSE <<>>),
           reactions |-> body[i].reactions]

\* The reactions are the last such line, if nothing follows and it names any: a
\* note in the same brackets is text.  The files behind them stay in the body.
extractReactions(body) ==
  LET at == {i \in DOMAIN body : body[i].k = "trailer"}
      i == Max(at)
  IN IF at = {} \/ (\E j \in i + 1 .. Len(body) : ~IsBlank(body[j])) \/ body[i].reactions = {}
     THEN [body |-> body, reactions |-> {}]
     ELSE [body |-> Cleaned(SubSeq(body, 1, i - 1)) \o
                    (IF body[i].n > 0 THEN <<Files(body[i].n)>> ELSE <<>>),
           reactions |-> body[i].reactions]

\* How many files the links of a body name.
extract(body) ==
  LET linked(line) == IF line.k \in {"text", "files", "trailer"} THEN line.n ELSE 0
  IN Cardinality(UNION {{i} \X (1 .. linked(body[i])) : i \in DOMAIN body})

flushSignal(x) ==
  LET e == extractReactions(TrimEnd(x.lines))
  IN IF x.open THEN Append(x.out, [ts |-> x.ts, sender |-> x.sender, body |-> e.body,
                                   files |-> extract(e.body), reactions |-> e.reactions])
     ELSE x.out

\* An anchor without a time or a sender ends the message before it and begins
\* none: what follows it is skipped up to the next.
signalLine(x, line) ==
  CASE line.k = "anchor" ->
         [open |-> None \notin {line.ts, line.sender}, ts |-> line.ts, sender |-> line.sender,
          lines |-> <<line.line>>, out |-> flushSignal(x)]
    [] line.k # "anchor" /\ x.open -> [x EXCEPT !.lines = Append(@, line)]
    [] OTHER -> x

\* The loop of the parser, over the lines of one message of the transcript.
readSignal(x, lines) ==
  LET at[n \in 0 .. Len(lines)] == IF n = 0 THEN x ELSE signalLine(at[n - 1], lines[n])
  IN at[Len(lines)]

\* signal-export writes the text, the reactions on a line of their own, and the
\* files right behind these.
SignalLines(m) ==
  LET text == IF m.say.lines = <<>> THEN <<Blank>> ELSE m.say.lines
      onLast == IF Last(text).k = "text" THEN [text EXCEPT ![Len(text)].n = m.say.files]
                ELSE IF text = <<Blank>> THEN <<Files(m.say.files)>>
                ELSE Append(text, Files(m.say.files))
      all == CASE m.reacted # {} -> Append(text, Trailer(m.reacted, m.say.files))
               [] m.reacted = {} /\ m.say.files > 0 -> onLast
               [] OTHER -> text
  IN <<Anchor(m.ts, m.say.from, all[1])>> \o Tail(all) \o <<Blank>>

NoText == [open |-> FALSE, ts |-> None, sender |-> None, lines |-> <<>>, out |-> <<>>]

\* A transcript is the lines of its messages, one after the other.
ParseSignal(chat) ==
  LET at[n \in 0 .. Len(chat)] == IF n = 0 THEN NoText ELSE readSignal(at[n - 1], SignalLines(chat[n]))
  IN WithSeq(flushSignal(at[Len(chat)]))

-----------------------------------------------------------------------------
(* iMessage: the time, the sender and the text, each on lines of their own. *)

NoMessage == [open |-> FALSE, ts |-> None, sender |-> None, lines |-> <<>>, files |-> 0,
              reactions |-> {}, tapbacks |-> FALSE, awaitsSender |-> FALSE, out |-> <<>>]

flushIMessage(x) ==
  IF x.open
  THEN Append(x.out, [ts |-> x.ts, sender |-> x.sender, body |-> x.lines,
                      files |-> x.files, reactions |-> x.reactions])
  ELSE x.out

\* A message without a sender and without content takes its number, and is dropped.
IsEmpty(m) == m.sender = None /\ m.body = <<>> /\ m.files = 0 /\ m.reactions = {}

WithoutEmpty(list) ==
  LET kept   == {i \in DOMAIN list : ~IsEmpty(list[i])}
      nth(n) == CHOOSE i \in kept : Cardinality({j \in kept : j < i}) = n - 1
  IN [n \in 1 .. Cardinality(kept) |-> list[nth(n)]]

\* Blank lines and indented ones, the quotes of a reply, are no content.
classifyContent(x, line) ==
  CASE line.k = "files" -> [x EXCEPT !.files = @ + line.n]
    [] line.k \in {"blank", "indented", "tapback"} -> x
    [] OTHER -> [x EXCEPT !.lines = Append(@, line)]

imessageLine(x, line) ==
  CASE line.k = "stamp" ->
         [NoMessage EXCEPT !.open = TRUE, !.ts = line.ts, !.awaitsSender = TRUE, !.out = flushIMessage(x)]
    [] line.k # "stamp" /\ ~x.open -> x
    [] line.k # "stamp" /\ x.open /\ x.awaitsSender ->
         [x EXCEPT !.sender = IF IsBlank(line) THEN None ELSE IF line.k = "text" THEN line.t ELSE line,
                   !.awaitsSender = FALSE]
    [] line.k = "tapbacks" /\ x.open /\ ~x.awaitsSender -> [x EXCEPT !.tapbacks = TRUE]
    [] line.k = "tapback" /\ x.open /\ ~x.awaitsSender /\ x.tapbacks ->
         [x EXCEPT !.reactions = @ \union {line.r}]
    [] OTHER -> classifyContent([x EXCEPT !.tapbacks = FALSE], line)

readIMessage(x, lines) ==
  LET at[n \in 0 .. Len(lines)] == IF n = 0 THEN x ELSE imessageLine(at[n - 1], lines[n])
  IN at[Len(lines)]

\* imessage-exporter: a file is a path on a line of its own.
IMessageLines(m) ==
  <<Stamp(m.ts), IF m.say.from = None THEN Blank ELSE Text(m.say.from)>>
  \o (IF m.say.files > 0 THEN <<Files(m.say.files)>> ELSE <<>>) \o m.say.lines
  \o (IF m.reacted # {} THEN <<Tapbacks>> \o SetToSeq({Tapback(r) : r \in m.reacted}) ELSE <<>>)
  \o <<Blank>>

ParseIMessage(chat) ==
  LET at[n \in 0 .. Len(chat)] == IF n = 0 THEN NoMessage ELSE readIMessage(at[n - 1], IMessageLines(chat[n]))
  IN WithoutEmpty(WithSeq(flushIMessage(at[Len(chat)])))

-----------------------------------------------------------------------------
(* WhatsApp: a JSON object of chats, and in each an object of entries.      *)

\* A name that is taken gets the chat's number added, and then a counter.
FreeName(called, c, taken) ==
  LET plain == IF called[c] = None THEN <<c.local>> ELSE called[c]
      base  == Append(plain, c.local)
      tries == <<plain, base>> \o [n \in DOMAIN taken |-> Append(base, n + 1)]
  IN tries[Min({i \in DOMAIN tries : \A j \in DOMAIN taken : taken[j] # tries[i]})]

\* In the order of their ids, so that no two become one conversation.
ChatNames(called, chats) ==
  LET names[n \in 0 .. Len(chats)] ==
        IF n = 0 THEN <<>> ELSE Append(names[n - 1], FreeName(called, chats[n], names[n - 1]))
  IN names[Len(chats)]

\* An event of the timeline, the owner, a member of a group, or the chat itself.
mapMessage(conv, e) ==
  [ts |-> e.ts, body |-> TrimEnd(e.say.lines), files |-> e.say.files, reactions |-> e.reacted,
   sender |-> CASE e.say.from = System /\ e.say.files = 0 -> System
                [] e.say.from \in {None, System} /\ ~(e.say.from = System /\ e.say.files = 0) -> conv[2]
                [] OTHER -> e.say.from]

\* By time, then in the order of the exporter's keys; an entry without a time is
\* skipped.
parseChatMessages(conv, entries) ==
  LET kept == {i \in DOMAIN entries : entries[i].ts # None}
      before(i) == {j \in kept : entries[j].ts < entries[i].ts \/ (entries[j].ts = entries[i].ts /\ j < i)}
      nth(n) == CHOOSE i \in kept : Cardinality(before(i)) = n - 1
  IN WithSeq([n \in 1 .. Cardinality(kept) |-> mapMessage(conv, entries[nth(n)])])

-----------------------------------------------------------------------------
Chats(source) == {c \in Dialogue : c.source = source}
\* Which conversation each chat of a source is, as the chats are called.
Conversations(called, source) ==
  LET before(c) == {d \in Chats(source) : d.jid < c.jid}
      byId == [n \in 1 .. Cardinality(Chats(source)) |->
                 CHOOSE c \in Chats(source) : Cardinality(before(c)) = n - 1]
  IN [c \in Chats(source) |->
        <<source, IF source = "whatsapp" THEN ChatNames(called, byId)[Cardinality(before(c)) + 1] ELSE called[c]>>]

Parse(conv, chat) ==
  CASE conv[1] = "signal"   -> ParseSignal(chat)
    [] conv[1] = "imessage" -> ParseIMessage(chat)
    [] conv[1] = "whatsapp" -> parseChatMessages(conv, chat)

TranscriptsInit ==
  /\ sent = [c \in Dialogue |-> <<>>]
  /\ named = FirstName
  /\ rows = <<>>
  /\ fresh = {}
  /\ changes = 0

\* A message, with the times that a transcript is ordered by; WhatsApp's may come
\* late, and an exporter may not know a time.
Send(c) ==
  /\ FoldLeft(LAMBDA n, d : n + Len(sent[d]), 0, SetToSeq(Dialogue)) < MaxSent
  /\ \E busy \in Together : {c} \union {d \in Dialogue : sent[d] # <<>>} \subseteq busy
  /\ \E say \in Saying[c.source], ts \in {1, 2} :
       /\ c.source # "whatsapp" => \A i \in DOMAIN sent[c] : sent[c][i].ts \in {None} \union 1 .. ts
       /\ sent' = [sent EXCEPT ![c] = Append(@,
                    [ts |-> IF say.timed THEN ts ELSE None, say |-> say, reacted |-> {}])]
  /\ fresh' = fresh \ {c.source}
  /\ UNCHANGED <<named, rows, changes>>

React(c) ==
  /\ changes < MaxChanges
  /\ changes' = changes + 1
  /\ \E i \in DOMAIN sent[c], r \in Reactor :
       sent' = [sent EXCEPT ![c][i].reacted = @ \union {r}]
  /\ fresh' = fresh \ {c.source}
  /\ UNCHANGED <<named, rows>>

Rename(c) ==
  /\ changes < MaxChanges
  /\ changes' = changes + 1
  /\ c.source = "whatsapp" /\ \E d \in Chats("whatsapp") : sent[d] # <<>>
  /\ \E name \in NewName \ {named[c]} : named' = [named EXCEPT ![c] = name]
  /\ fresh' = fresh \ {c.source}
  /\ UNCHANGED <<sent, rows>>

\* The chats of a source that have messages replace what their conversations had.
Import(source) ==
  LET conv == Conversations(named, source)
      parsed == [c \in DOMAIN conv |-> Parse(conv[c], sent[c])]
      full == {c \in DOMAIN conv : parsed[c] # <<>>}
  IN /\ rows' = [v \in DOMAIN rows \union {conv[c] : c \in full} |->
                  IF \E c \in full : conv[c] = v THEN parsed[CHOOSE c \in full : conv[c] = v] ELSE rows[v]]
     /\ fresh' = fresh \union {source}
     /\ UNCHANGED <<sent, named, changes>>

TranscriptsNext ==
  \/ \E c \in Dialogue : Send(c)
  \/ \E c \in Dialogue : React(c)
  \/ \E c \in Dialogue : Rename(c)
  \/ \E source \in {"signal", "imessage", "whatsapp"} : Import(source)

TranscriptsSpec == TranscriptsInit /\ [][TranscriptsNext]_transcriptVars

-----------------------------------------------------------------------------
\* The archive's hashes are unique, as their column demands of every insert: not
\* even two chats of one name, or two messages that look the same, share one.
HashesUnique ==
  \A c, d \in DOMAIN rows : \A i \in DOMAIN rows[c], j \in DOMAIN rows[d] :
    HashWithSource(c, rows[c][i]) = HashWithSource(d, rows[d][j]) => <<c, i>> = <<d, j>>

\* Lines that a format gives no meaning to.
Plain(source, lines) ==
  CASE source = "signal"   -> /\ \A i \in 2 .. Len(lines) : lines[i].k # "anchor"
                              /\ \A i \in DOMAIN lines : lines[i].k = "trailer" /\ lines[i].reactions # {} =>
                                   \E j \in i + 1 .. Len(lines) : ~IsBlank(lines[j])
    [] source = "imessage" -> \A i \in DOMAIN lines : lines[i].k = "text"
    [] source = "whatsapp" -> TRUE

\* What is written in a line, which may not be there.
WrittenAt(lines, i) ==
  CASE i \notin DOMAIN lines -> Blank
    [] i \in DOMAIN lines /\ lines[i].k = "files" -> Blank
    [] i \in DOMAIN lines /\ lines[i].k = "text" -> Text(lines[i].t)
    [] OTHER -> lines[i]

\* A row says what was sent.
Says(row, m) ==
  /\ row.ts = m.ts
  /\ row.files = m.say.files
  /\ row.reactions = m.reacted
  /\ m.say.from \notin {None, System} => row.sender = m.say.from
  /\ \A i \in DOMAIN row.body \union DOMAIN m.say.lines : WrittenAt(row.body, i) = WrittenAt(m.say.lines, i)

\* An import finds every message with its sender, text, files and reactions, in
\* the order in which they were sent at one time.  A line that imitates the format
\* only ever spoils the message that it is in, and an entry without a time itself.
ImportIsFaithful ==
  \A source \in fresh :
    LET conv == Conversations(named, source)
    IN \A c \in DOMAIN conv :
         LET due == {i \in DOMAIN sent[c] :
                       LET say == sent[c][i].say
                       IN /\ sent[c][i].ts # None
                          /\ say.from = None => source # "signal" /\ say.lines # <<>>
                          /\ Plain(source, say.lines)}
             out == rows[conv[c]]
         IN due # {} =>
              \E at \in [due -> DOMAIN out] :
                /\ \A i \in due : Says(out[at[i]], sent[c][i])
                /\ \A i, j \in due : i < j /\ sent[c][i].ts = sent[c][j].ts => at[i] < at[j]

\* An import leaves the messages that were sent, each once.
ImportHolds == HashesUnique /\ ImportIsFaithful

\* What a first reaction does to the hash: signal-export takes the files from the
\* end of the text to a line of their own, and blanks before the reactions go.
Rehashed(conv, m) ==
  /\ conv[1] = "signal" /\ m.reactions = {} /\ m.body # <<>>
  /\ \/ m.files > 0 /\ m.body # <<Files(m.files)>>
     \/ Last(m.body).k = "text" /\ Last(m.body).pad

Imitated(c) == \E i \in DOMAIN sent[c] : ~Plain(c.source, sent[c][i].say.lines)

\* Hashes are for good: as long as chats keep their names, a message that was read
\* once has its hash after every import, whatever was sent, came late or was
\* reacted to since, so that what hangs on the hash (vectors, facts, scores) stays.
\* (A last line that imitates reactions is text once there are real ones.)
IdentityKept ==
  [][named' = FirstName =>
       \A conv \in DOMAIN rows : \A i \in DOMAIN rows[conv] :
         \/ Rehashed(conv, rows[conv][i])
         \/ \E c \in Dialogue : conv = <<c.source, named[c]>> /\ Imitated(c)
         \/ \E j \in DOMAIN rows'[conv] :
              HashWithSource(conv, rows'[conv][j]) = HashWithSource(conv, rows[conv][i])
    ]_transcriptVars
=============================================================================
