------------------------------- MODULE MCParts -------------------------------
(***************************************************************************)
(* The parts around the archive that share no state: who the people are,   *)
(* how transcripts are read, what a reader is shown, the calendar, and the *)
(* snapshots.  A behaviour is about one of them, its part; the variables   *)
(* of the others keep one initial value.                                   *)
(***************************************************************************)
EXTENDS MCContacts, Reader, Transcripts, Calendar, MCBackup, TLC

CONSTANTS
  Part,  \* the parts an instance has
  Ann, Bob, L, hi, ok, one, two, g1, g2

ASSUME PartAssumption == Part \subseteq {"contacts", "reader", "transcripts", "calendar", "backup"}

\* Reader: two conversations, one of which has three messages in one second; of
\* the posts some hold the words, some have a vector, a file or a link.
U(p)     == [domain |-> 1, path |-> p]
Post(n, ts, url, files) == [n |-> n, ts |-> ts, url |-> url, files |-> files]
MCPost   == <<Post(1, 1, U(1), 0), Post(2, 2, None, 2), Post(3, 2, U(2), 1), Post(4, 2, U(1), 0),
              Post(5, 1, U(2), 1), Post(6, 2, None, 0)>>
MCPosts(numbers) == [i \in DOMAIN numbers |-> MCPost[numbers[i]]]
MCContent == one :> {MCPosts(<<1, 2, 3>>), MCPosts(<<1, 2, 3, 4>>), MCPosts(<<2, 3>>)}
             @@ two :> {MCPosts(<<5>>), MCPosts(<<5, 6>>)}
MCWorded  == ToSet(MCPosts(<<1, 3, 6>>))
MCIndexed == ToSet(MCPosts(<<2, 3, 6>>))

\* Transcripts: a chat of each exporter and three of one WhatsApp name, and
\* messages with and without text, files, and lines that imitate the formats.
Dialog(source, jid) == [source |-> source, jid |-> jid, local |-> L]
MCDialogue == {Dialog("signal", 0), Dialog("imessage", 0)} \union {Dialog("whatsapp", j) : j \in 1 .. 3}
MCTogether == {{Dialog("signal", 0), Dialog("imessage", 0)}, {Dialog("whatsapp", 1), Dialog("whatsapp", 2)}}
MCNewName   == {<<Bob>>}
MCFirstName == [c \in MCDialogue |-> <<Ann>>]
Say(from, lines, files) == [from |-> from, lines |-> lines, files |-> files, timed |-> TRUE]
MCSaying ==
  [signal   |-> {Say(Me, <<Text(hi)>>, 1),
                 Say(Ann, <<[Text(ok) EXCEPT !.pad = TRUE], Blank>>, 0),
                 Say(Me, <<Text(hi), Trailer({Bob}, 0)>>, 0),
                 Say(Me, <<Trailer({Bob}, 0), Text(hi), Blank>>, 1),
                 Say(None, <<Text(hi), Text(ok)>>, 0),
                 Say(Me, <<Text(hi), Anchor(1, Bob, Text(hi)), Text(ok)>>, 0),
                 [Say(Me, <<Text(hi), Text(ok)>>, 0) EXCEPT !.timed = FALSE]},
   imessage |-> {Say(Me, <<Text(hi)>>, 1), Say(None, <<>>, 0),
                 Say(Ann, <<Text(hi), Stamp(1), Text(ok)>>, 1),
                 Say(Me, <<Tapbacks, Text(ok)>>, 0), Say(Me, <<Text(hi), Indented>>, 0)},
   whatsapp |-> {Say(Me, <<Text(hi)>>, 0), Say(None, <<Text(hi)>>, 0),
                 [Say(System, <<>>, 0) EXCEPT !.timed = FALSE], Say(System, <<>>, 1)}]

\* Calendar: the days around the end of a leap February.
MCDate == {<<2024, 2, 29>>, <<2024, 3, 1>>}
Ask(day, year, month) == [day |-> day, year |-> year, month |-> month]
MCAsked == {Ask(None, None, None), Ask(<<2024, 2, 29>>, None, None), Ask(<<2024, 2, 27>>, None, None),
            Ask(None, 2024, 2), Ask(None, 2023, None), Ask(None, 1969, 13)}

VARIABLE part

vars == <<part, contactsVars, readerVars, transcriptVars, calendarVars, backupVars>>

Init ==
  /\ part \in Part
  /\ ContactsInit /\ ReaderInit /\ TranscriptsInit /\ CalendarInit /\ BackupInit
  /\ part # "contacts" => db = NoDB
  /\ part # "calendar" => configured = g1

contactsOnly   == UNCHANGED <<readerVars, transcriptVars, calendarVars, backupVars>>
readerOnly     == UNCHANGED <<contactsVars, transcriptVars, calendarVars, backupVars>>
transcriptOnly == UNCHANGED <<contactsVars, readerVars, calendarVars, backupVars>>
calendarOnly   == UNCHANGED <<contactsVars, readerVars, transcriptVars, backupVars>>
backupOnly     == UNCHANGED <<contactsVars, readerVars, transcriptVars, calendarVars>>

Next ==
  /\ part' = part
  /\ \/ part = "contacts" /\ ContactsNext /\ contactsOnly
     \/ part = "reader" /\ ReaderNext /\ readerOnly
     \/ part = "transcripts" /\ TranscriptsNext /\ transcriptOnly
     \/ part = "calendar" /\ CalendarNext /\ calendarOnly
     \/ part = "backup" /\ BackupNext /\ backupOnly

Spec == Init /\ [][Next]_vars

\* The variables of the part that moves have their types.
PartsTypeOK ==
  /\ part = "contacts" => ContactsTypeOK
  /\ part = "reader" => ReaderTypeOK
  /\ part = "backup" => BackupTypeOK
=============================================================================
