------------------------------- MODULE Archive -------------------------------
(***************************************************************************)
(* The messages of the store, as the pipelines that derive data from them  *)
(* see them (internal/store): every message has one time, its place in its *)
(* conversation, and a content hash that survives a re-import.             *)
(*                                                                         *)
(* A message is its time, a positive number: (ts_unix, id) orders a        *)
(* conversation, and messages of one second are told apart by their id,    *)
(* which the model does not need.                                          *)
(***************************************************************************)
EXTENDS Naturals, FiniteSets

CONSTANTS
  Msg,     \* the messages an archive may hold
  System,  \* system lines and empty bodies
  Out,     \* messages the archive's owner sent
  Conv,    \* conversations
  ConvOf,  \* the conversation of a message
  Day,     \* days, as numbers: UTC buckets of ts_unix
  DayOf    \* the day of a message

ASSUME ArchiveAssumption ==
  /\ Msg \subseteq Nat \ {0} /\ IsFiniteSet(Msg)
  /\ System \subseteq Msg /\ Out \subseteq Msg
  /\ ConvOf \in [Msg -> Conv]
  /\ DayOf \in [Msg -> Day]

VARIABLE messages  \* the hashes in the messages table

\* Real messages: neither system lines nor empty. Every pipeline reads these.
Real(S)    == S \ System
Within(c)  == {m \in messages : ConvOf[m] = c}
Dated(d)   == {m \in messages : DayOf[m] = d}
Greatest(S) == CHOOSE m \in S : \A n \in S : n <= m

\* ReplaceConversationMessages: one transaction deletes the conversation's
\* messages and inserts those of its transcript.
Replace(c, S) == messages' = (messages \ Within(c)) \union S

\* The record p, but for the fields that e has.
Changed(p, e) == [f \in DOMAIN p |-> IF f \in DOMAIN e THEN e[f] ELSE p[f]]
=============================================================================
