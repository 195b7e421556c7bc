----------------------------- MODULE MCContacts ------------------------------
(* Instances of Contacts for TLC.                                          *)
EXTENDS Contacts

CONSTANTS imessage, whatsapp, signal, f1

\* One person's number with and without a country code, as the name of an iMessage
\* thread and behind a WhatsApp chat, and her name on Signal; a thread of two
\* people that an old version took for one.
Long  == Number("+", <<1, 2, 2>>, FALSE)
Short == Number("", <<2, 2>>, FALSE)
Third == Number("+", <<3, 2, 2>>, FALSE)
Mom   == Words("mom", 6)

iMom  == [source |-> imessage, name |-> Long, hint |-> None, group |-> FALSE, label |-> Mom]
iBoth == [source |-> imessage, name |-> List({Long, Third}), hint |-> None, group |-> FALSE, label |-> None]
wMom  == [source |-> whatsapp, name |-> Mom, hint |-> Short, group |-> FALSE, label |-> Mom]
sMom  == [source |-> signal, name |-> Mom, hint |-> None, group |-> FALSE, label |-> Mom]

MCChat   == {iMom, wMom, sMom}
MCLegacy == <<wMom, iBoth>>
NoLegacy == <<>>
=============================================================================
