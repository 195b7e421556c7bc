------------------------------ MODULE Contacts -------------------------------
(***************************************************************************)
(* Who the archive's conversations are with: internal/store's contacts,    *)
(* their identifiers and the journal of merge and split decisions          *)
(* (contactmerge.go, contactrepair.go, store.go, sources.go), with the     *)
(* matching rules of internal/contacts and the Contacts settings tab.      *)
(*                                                                         *)
(* Every operation is one transaction, so the database is one variable and *)
(* an operation is a function of it.  Importers, the settings tab and the  *)
(* Disable button work at the same time, and every phase of an import is   *)
(* best effort: any phase may follow any other.                            *)
(***************************************************************************)
EXTENDS Absent, Integers, Sequences, FiniteSets, SequencesExt, FiniteSetsExt

CONSTANTS
  Source,    \* the exporters
  Chat,      \* what they export: [source, name, hint, group, label]
  Legacy,    \* the chats an old version has imported, in row order
  Fact,      \* what the facts pipeline may learn about a person
  PhoneMin,  \* phoneMinDigits
  MaxActs    \* bound: what the user does

ASSUME LegacyAssumption == Len(Legacy) \in Nat

VARIABLES
  db,    \* the tables contacts, contact_identifiers, conversations, contact_links, contact_facts,
         \* and history: what a repair has renamed, and whom an import has left
  rules, \* the row of contact_merge_rules
  shown, \* the Contacts tab as it was last rendered: [candidates, merged]
  acts   \* how often the user has acted

contactsVars == <<db, rules, shown, acts>>

(***************************************************************************)
(* Texts: numbers as they are written, mail addresses, words, and the names *)
(* of threads that list several of these.                                  *)
(***************************************************************************)
Number(prefix, digits, spaced) ==
  [shape |-> "number", prefix |-> prefix, digits |-> digits, spaced |-> spaced]
Mail(address, upper) == [shape |-> "mail", address |-> address, upper |-> upper]
Words(of, size)      == [shape |-> "words", of |-> of, size |-> size]
List(parts)          == [shape |-> "list", parts |-> parts]

NormalizePhone(t) ==
  [t EXCEPT !.prefix = IF @ \in {"+", "00"} THEN "+" ELSE "", !.spaced = FALSE]
NormalizeEmail(t) == [t EXCEPT !.upper = FALSE]

IsPhone(t) == t.shape = "number" /\ Len(t.digits) \in PhoneMin .. 15
IsEmail(t) == t.shape = "mail"

\* A text that is neither a phone number nor a mail address is kept as it is.
Normalize(t) ==
  IF IsPhone(t) THEN NormalizePhone(t) ELSE IF IsEmail(t) THEN NormalizeEmail(t) ELSE t

handleShaped(t) == t # None /\ (IsPhone(t) \/ IsEmail(t))

IsMultiRecipientName(t) ==
  t.shape = "list" /\ Cardinality({part \in t.parts : handleShaped(part)}) >= 2

\* The length in bytes, as far as one label may be longer than another.
Size(t) == CASE t.shape = "number" -> Len(t.digits) + (IF t.prefix = "" THEN 0 ELSE 1)
             [] t.shape = "words" -> t.size
             [] OTHER -> 20

\* Who a conversation is with: what the exporter knows outranks the name.
DeriveIdentity(name, hint, group) ==
  [group |-> group \/ IsMultiRecipientName(name),
   name |-> name,
   id |-> IF group \/ IsMultiRecipientName(name) THEN None
          ELSE Normalize(IF handleShaped(hint) THEN hint ELSE name)]

(***************************************************************************)
(* Matching (internal/contacts/match.go).                                  *)
(***************************************************************************)
\* A number without a country code is the same as one that has one of up to
\* three digits in front of it.
PhonesMatch(a, b) ==
  LET extends(intl, natl) ==
        /\ intl.prefix = "+" /\ natl.prefix = ""
        /\ Len(intl.digits) - Len(natl.digits) \in 1 .. 3
        /\ IsSuffix(natl.digits, intl.digits)
  IN a.digits = b.digits \/ extends(a, b) \/ extends(b, a)

Match(a, b, r) ==
  LET x == Normalize(a)
      y == Normalize(b)
  IN \/ r.email /\ IsEmail(x) /\ x = y
     \/ r.phone /\ IsPhone(x) /\ IsPhone(y) /\ PhonesMatch(x, y)

\* Names that are equal but for case, spaces and signs; a short one says nothing.
SameName(a, b) ==
  /\ a.shape = "words" /\ b.shape = "words"
  /\ a.of = b.of /\ a.size >= 6

(***************************************************************************)
(* Reading the tables.                                                     *)
(***************************************************************************)
Owner(d, pair) == IF pair \in DOMAIN d.owner THEN d.owner[pair] ELSE 0

contactPairs(d, id) == {pair \in DOMAIN d.owner : d.owner[pair] = id}

\* INTEGER PRIMARY KEY without AUTOINCREMENT: ids are used again.
LastRow(table) == Max(DOMAIN table \union {0})
NewId(d) == LastRow(d.contacts) + 1

Orphan(d, id) ==
  /\ contactPairs(d, id) = {}
  /\ \A i \in DOMAIN d.convs : d.convs[i].contact # id

Decisions(d, kind) == {l \in DOMAIN d.links : d.links[l].kind = kind}

PairsOfPeople(d) == {c \in (DOMAIN d.contacts) \X (DOMAIN d.contacts) : c[1] < c[2]}

Candidates(d, r) ==
  {c \in PairsOfPeople(d) :
     \E p \in contactPairs(d, c[1]), q \in contactPairs(d, c[2]) : Match(p[2], q[2], r)}

\* Equal names only count for people who share no source.
NamedAlike(d) ==
  {c \in PairsOfPeople(d) :
     /\ SameName(d.contacts[c[1]], d.contacts[c[2]])
     /\ \A p \in contactPairs(d, c[1]), q \in contactPairs(d, c[2]) : p[1] # q[1]}

CandidatesWithNames(d, r) == Candidates(d, r) \union (IF r.names THEN NamedAlike(d) ELSE {})

\* Mutant: a split is only seen between identifiers of one source.
splitBlocksWithin(d, a, b) ==
  \E p \in contactPairs(d, a), q \in contactPairs(d, b) :
    p[1] = q[1] /\ {p, q} \in Decisions(d, "split")

splitBlocks(d, a, b) ==
  \E p \in contactPairs(d, a), q \in contactPairs(d, b) : {p, q} \in Decisions(d, "split")

\* What the settings tab offers to merge, and what it offers to split.
MergeCandidates(d, r) == {c \in CandidatesWithNames(d, r) : ~splitBlocks(d, c[1], c[2])}
MergedContacts(d) ==
  {[id |-> id, pairs |-> contactPairs(d, id)] :
     id \in {i \in DOMAIN d.contacts : Cardinality(contactPairs(d, i)) >= 2}}

Render(d, r) == [candidates |-> MergeCandidates(d, r), merged |-> MergedContacts(d)]

(***************************************************************************)
(* The transactions.                                                       *)
(***************************************************************************)
isMeaningfulName(d, id) == \A p \in contactPairs(d, id) : p[2] # d.contacts[id]

pickWinner(d, a, b) ==
  CASE isMeaningfulName(d, a) /\ ~isMeaningfulName(d, b) -> a
    [] isMeaningfulName(d, b) /\ ~isMeaningfulName(d, a) -> b
    [] OTHER -> Min({a, b})

Without(f, gone) == [x \in DOMAIN f \ gone |-> f[x]]

\* Everything of the loser becomes the winner's; equal facts become one.
unionContacts(d, winner, loser) ==
  [d EXCEPT
    !.contacts = Without(@, {loser}),
    !.owner = [p \in DOMAIN @ |-> IF @[p] = loser THEN winner ELSE @[p]],
    !.convs = [i \in DOMAIN @ |->
                 IF @[i].contact = loser THEN [@[i] EXCEPT !.contact = winner] ELSE @[i]],
    !.facts = [id \in DOMAIN @ \ {loser} |->
                 IF id = winner THEN @[winner] \union @[loser] ELSE @[id]],
    !.left = @ \ {loser}]

unionByRule(d, a, b) ==
  LET winner == pickWinner(d, a, b)
  IN unionContacts(d, winner, IF winner = a THEN b ELSE a)

\* One decision for every pair of the two sets; an earlier one stays unless this
\* is the user's.
recordLinks(links, decision, A, B) ==
  LET new == {{p, q} : p \in A, q \in B}
  IN [l \in DOMAIN links \union new |->
        IF l \in new /\ (l \notin DOMAIN links \/ decision.origin = "manual")
        THEN decision ELSE links[l]]

\* Mutant: the decision is taken down after the identifiers have moved.
MergeContactsFirst(d, a, b) ==
  LET x == unionByRule(d, a, b)
  IN [x EXCEPT !.links = recordLinks(@, [kind |-> "merge", origin |-> "manual"],
                                     contactPairs(x, a), contactPairs(x, b))]

MergeContacts(d, a, b) ==
  unionByRule([d EXCEPT !.links = recordLinks(@, [kind |-> "merge", origin |-> "manual"],
                                              contactPairs(d, a), contactPairs(d, b))], a, b)

\* The new person has the name of the first identifier, and of the conversations
\* those whose NAME is one of them.
SplitContact(d, id, moved, first) ==
  LET new == NewId(d)
      remaining == contactPairs(d, id) \ moved
  IN [d EXCEPT
       !.contacts = [x \in DOMAIN @ \union {new} |-> IF x = new THEN first[2] ELSE @[x]],
       !.owner = [p \in DOMAIN @ |-> IF p \in moved THEN new ELSE @[p]],
       !.convs = [i \in DOMAIN @ |->
                    IF <<@[i].source, @[i].name>> \in moved /\ @[i].contact = id
                    THEN [@[i] EXCEPT !.contact = new] ELSE @[i]],
       !.links = recordLinks(@, [kind |-> "split", origin |-> "manual"], moved, remaining),
       !.facts = [x \in DOMAIN @ \union {new} |-> IF x = new THEN {} ELSE @[x]]]

\* The people of two identifiers become one.
Refolded(d, link) ==
  LET p == CHOOSE p \in link : TRUE
      q == CHOOSE q \in link : q # p
  IN IF Owner(d, p) # Owner(d, q) THEN unionByRule(d, Owner(d, p), Owner(d, q)) ELSE d

\* Step 1 of a reconcile: the stored merges, in the order the rows are read.
Refold(d, order) ==
  LET fold[n \in 0 .. Len(order)] == IF n = 0 THEN d ELSE Refolded(fold[n - 1], order[n])
  IN fold[Len(order)]

\* The merges it re-applies: those of two identifiers that are both there and
\* not yet one person's.
Applied(d, r) ==
  {l \in Decisions(d, "merge") :
     /\ r.auto \/ d.links[l].origin = "manual"
     /\ \A p \in l : Owner(d, p) # 0
     /\ \E p, q \in l : Owner(d, p) # Owner(d, q)}

Before(c, e) == c[1] < e[1] \/ (c[1] = e[1] /\ c[2] < e[2])

\* Candidates in the order of their ids: the i-th is the one that i - 1 come before.
InOrder(candidates) ==
  [i \in 1 .. Cardinality(candidates) |->
     CHOOSE c \in candidates : Cardinality({e \in candidates : Before(e, c)}) = i - 1]

\* One candidate of the rules; "now" says what has become of a person.
AutoMerged(x, c) ==
  LET a == x.now[c[1]]
      b == x.now[c[2]]
      w == pickWinner(x.d, a, b)
  IN IF a = b \/ splitBlocks(x.d, a, b) THEN x
     ELSE [d |-> unionByRule([x.d EXCEPT !.links =
                   recordLinks(@, [kind |-> "merge", origin |-> "auto"],
                               contactPairs(x.d, a), contactPairs(x.d, b))], a, b),
           now |-> [id \in DOMAIN x.now |-> IF x.now[id] \in {a, b} THEN w ELSE x.now[id]]]

\* Step 2: the rules' own merges.
AutoMerge(d, r) ==
  LET candidates == InOrder(Candidates(d, r))
      fold[n \in 0 .. Len(candidates)] ==
        IF n = 0 THEN [d |-> d, now |-> [id \in DOMAIN d.contacts |-> id]]
        ELSE AutoMerged(fold[n - 1], candidates[n])
  IN fold[Len(candidates)].d

Reconciled(d, r, order) == IF r.auto THEN AutoMerge(Refold(d, order), r) ELSE Refold(d, order)

\* An identifier gives way to another.
Renamed(d, from, to) ==
  [d EXCEPT !.owner = [p \in (DOMAIN @ \ {from}) \union {to} |-> IF p = to THEN @[from] ELSE @[p]],
            !.renamed = @ \union {{from, to}}]

\* One conversation of the repair: a thread of several people loses its person,
\* an identifier that is the name gives way to the handle, unless that is taken.
RepairConversation(x, i) ==
  LET conv == x.d.convs[i]
      identity == DeriveIdentity(conv.name, None, conv.group)
      from == <<conv.source, conv.name>>
      to == <<conv.source, IF handleShaped(conv.handle) THEN Normalize(conv.handle) ELSE identity.id>>
      mine == Owner(x.d, from) = conv.contact /\ conv.contact # 0
  IN CASE identity.group /\ (~conv.group \/ conv.contact # 0) ->
            [d |-> [x.d EXCEPT
                      !.convs[i] = [@ EXCEPT !.group = TRUE, !.contact = 0],
                      !.owner = IF mine THEN Without(@, {from}) ELSE @],
             touched |-> x.touched \union ({conv.contact} \ {0})]
       [] ~identity.group /\ mine /\ from # to /\ to \notin DOMAIN x.d.owner ->
            [x EXCEPT !.d = Renamed(@, from, to)]
       [] OTHER -> x

Delete(d, ids) ==
  [d EXCEPT !.contacts = Without(@, ids), !.facts = Without(@, ids), !.left = @ \ ids]

Repaired(d) ==
  LET fold[n \in 0 .. LastRow(d.convs)] ==
        IF n = 0 THEN [d |-> d, touched |-> {}]
        ELSE IF n \in DOMAIN d.convs THEN RepairConversation(fold[n - 1], n) ELSE fold[n - 1]
      x == fold[LastRow(d.convs)]
  IN Delete(x.d, {id \in x.touched : Orphan(x.d, id)})

\* The row of a conversation, or the one after the last.
Row(d, source, name) ==
  IF \E i \in DOMAIN d.convs : d.convs[i].source = source /\ d.convs[i].name = name
  THEN CHOOSE i \in DOMAIN d.convs : d.convs[i].source = source /\ d.convs[i].name = name
  ELSE LastRow(d.convs) + 1

Inserted(convs, i, conv) == [j \in DOMAIN convs \union {i} |-> IF j = i THEN conv ELSE convs[j]]

\* A conversation that has nobody gets the owner of its identifier, who is new
\* if nobody has it.
Linked(d, i, identity) ==
  LET pair == <<d.convs[i].source, identity.id>>
      new == NewId(d)
  IN CASE d.convs[i].contact # 0 -> d
       [] d.convs[i].contact = 0 /\ Owner(d, pair) # 0 ->
            [d EXCEPT !.convs[i].contact = Owner(d, pair)]
       [] OTHER ->
            [d EXCEPT
              !.contacts = [id \in DOMAIN @ \union {new} |-> IF id = new THEN identity.name ELSE @[id]],
              !.facts = [id \in DOMAIN @ \union {new} |-> IF id = new THEN {} ELSE @[id]],
              !.owner = [p \in DOMAIN @ \union {pair} |-> IF p = pair THEN new ELSE @[p]],
              !.convs[i].contact = new]

UpsertConversationIdentity(d, chat) ==
  LET identity == DeriveIdentity(chat.name, chat.hint, chat.group)
      i == Row(d, chat.source, chat.name)
      fresh == [source |-> chat.source, name |-> chat.name, group |-> identity.group,
                handle |-> None, contact |-> 0]
      there == IF i \in DOMAIN d.convs THEN d.convs[i] ELSE fresh
  IN IF identity.group
     THEN [d EXCEPT !.convs = Inserted(@, i, [there EXCEPT !.group = TRUE, !.contact = 0]),
                    !.left = @ \union ({there.contact} \ {0})]
     ELSE Linked([d EXCEPT !.convs =
                    Inserted(@, i, [there EXCEPT !.handle =
                                      IF handleShaped(identity.id) THEN identity.id ELSE @])],
                 i, identity)

\* Everything of a source goes, and whoever has nothing left; whatever was
\* decided about its identifiers stays.
DeleteSourceData(d, source) ==
  LET kept == [d EXCEPT
                !.convs = Without(@, {i \in DOMAIN @ : @[i].source = source}),
                !.owner = Without(@, {p \in DOMAIN @ : p[1] = source})]
  IN Delete(kept, {id \in DOMAIN d.contacts : Orphan(kept, id)})

\* A row of the old rule: the name is the identifier, whatever it looks like.
LegacyRow(d, chat) ==
  LET i == LastRow(d.convs) + 1
  IN Linked([d EXCEPT !.convs =
               Inserted(@, i, [source |-> chat.source, name |-> chat.name,
                               group |-> FALSE, handle |-> None, contact |-> 0])],
            i, [group |-> FALSE, name |-> chat.name, id |-> chat.name])

-----------------------------------------------------------------------------
NoDB == [contacts |-> <<>>, owner |-> <<>>, convs |-> <<>>, links |-> <<>>, facts |-> <<>>,
         renamed |-> {}, left |-> {}]

\* What an old version has made of some chats.
Archived(old) ==
  LET fold[n \in 0 .. Len(old)] == IF n = 0 THEN NoDB ELSE LegacyRow(fold[n - 1], old[n])
  IN fold[Len(old)]

\* A new archive, or one that an old version has filled.
ContactsInit ==
  /\ db \in {NoDB, Archived(Legacy)}
  /\ rules = [auto |-> FALSE, phone |-> TRUE, email |-> TRUE, names |-> TRUE]
  /\ shown = [candidates |-> {}, merged |-> {}]
  /\ acts = 0

ImportStep(d) ==
  /\ db' = d
  /\ UNCHANGED <<rules, shown, acts>>

\* The phases of an import.
Upsert(chat) == ImportStep(UpsertConversationIdentity(db, chat))
RepairContactIdentities == ImportStep(Repaired(db))
ReconcileContacts ==
  \E order \in SetToAllKPermutations(Applied(db, rules)) :
    /\ order \in Seq(Applied(db, rules)) /\ ToSet(order) = Applied(db, rules)
    /\ ImportStep(Reconciled(db, rules, order))

\* A person who is called by a handle gets the label that most of the messages
\* have, which of the conversations' labels it is being a matter of their numbers.
RepairHandleNamedContacts ==
  \E id \in DOMAIN db.contacts, chat \in Chat :
    /\ ~isMeaningfulName(db, id)
    /\ \E i \in DOMAIN db.convs : /\ db.convs[i].contact = id
                                  /\ db.convs[i].source = chat.source
                                  /\ db.convs[i].name = chat.name
    /\ chat.label # None /\ ~handleShaped(chat.label)
    /\ Size(chat.label) > Size(db.contacts[id])
    /\ ImportStep([db EXCEPT !.contacts[id] = chat.label])

\* A fact about a person, from the facts pipeline.  Bound: one is learned anew
\* only when nobody knows it.
PutFact ==
  \E id \in DOMAIN db.contacts, f \in Fact :
    /\ \A other \in DOMAIN db.facts : f \notin db.facts[other]
    /\ ImportStep([db EXCEPT !.facts[id] = @ \union {f}])

\* A POST of the settings tab, which renders the tab again.
Act(d, r) ==
  /\ acts < MaxActs
  /\ acts' = acts + 1
  /\ db' = d
  /\ rules' = r
  /\ shown' = Render(d, r)

\* The forms hold ids and were made when the tab was rendered: what is there no
\* longer is an error, and somebody else may have the id by now.
handleSettingsMerge ==
  \E c \in shown.candidates :
    /\ {c[1], c[2]} \subseteq DOMAIN db.contacts
    /\ contactPairs(db, c[1]) \union contactPairs(db, c[2]) # {}
    /\ Act(MergeContacts(db, c[1], c[2]), rules)

handleSettingsSplit ==
  \E row \in shown.merged :
    \E moved \in (SUBSET row.pairs) \ {{}} :
      /\ moved \subseteq contactPairs(db, row.id)
      /\ moved # contactPairs(db, row.id)
      /\ \E first \in moved : Act(SplitContact(db, row.id, moved, first), rules)

handleSettingsMergeRules ==
  \E auto, names \in BOOLEAN :
    Act(db, [rules EXCEPT !.auto = auto, !.names = names])

handleSettingsContacts ==
  /\ shown' = Render(db, rules)
  /\ UNCHANGED <<db, rules, acts>>

\* Disable (internal/web/disable.go), which does not render the tab.
Disable ==
  /\ acts < MaxActs
  /\ acts' = acts + 1
  /\ \E s \in Source : db' = DeleteSourceData(db, s)
  /\ UNCHANGED <<rules, shown>>

ContactsNext ==
  \/ \E chat \in Chat : Upsert(chat)
  \/ RepairContactIdentities
  \/ RepairHandleNamedContacts
  \/ ReconcileContacts
  \/ PutFact
  \/ handleSettingsMerge
  \/ handleSettingsSplit
  \/ handleSettingsMergeRules
  \/ handleSettingsContacts
  \/ Disable

ContactsSpec == ContactsInit /\ [][ContactsNext]_contactsVars

-----------------------------------------------------------------------------
\* The tables refer to each other as their foreign keys say, and nobody is
\* offered to be merged with herself.
ContactsTypeOK ==
  /\ DOMAIN db.contacts \subseteq Nat \ {0}
  /\ DOMAIN db.facts = DOMAIN db.contacts
  /\ \A id \in DOMAIN db.facts : db.facts[id] \subseteq Fact
  /\ \A p \in DOMAIN db.owner : p[1] \in Source /\ db.owner[p] \in DOMAIN db.contacts
  /\ DOMAIN db.convs \subseteq Nat \ {0}
  /\ \A i \in DOMAIN db.convs : db.convs[i].contact \in DOMAIN db.contacts \union {0}
  /\ \A l \in DOMAIN db.links : Cardinality(l) = 2 /\ db.links[l].kind \in {"merge", "split"}
  /\ db.left \subseteq DOMAIN db.contacts
  /\ rules \in [auto : BOOLEAN, phone : BOOLEAN, email : BOOLEAN, names : BOOLEAN]
  /\ \A c \in shown.candidates : c[1] # c[2]
  /\ acts \in 0 .. MaxActs

\* Nobody is invented and nobody is left over: a contact has an identifier or a
\* conversation, unless an import found a conversation of hers to be a group's,
\* which no repair notices any more.
NoGhosts ==
  \A id \in DOMAIN db.contacts \ db.left : ~Orphan(db, id)

\* A chain of links leads from p to q: there is one from each set that has p and
\* not q to the rest.
Chained(p, q, links) ==
  \A S \in SUBSET ({p} \union UNION links) :
    p \in S /\ q \notin S => \E l \in links : l \intersect S # {} /\ l \ S # {}

\* Nobody is merged without a record of it: as long as nothing was split, two
\* identifiers of one person are joined by decisions, so that a source that is
\* disabled and imported again comes back to the same people.  A decision names
\* an identifier by the text it had, which a repair may have replaced since.
MergesAreRecorded ==
  Decisions(db, "split") = {} =>
    \A p, q \in DOMAIN db.owner :
      p # q /\ db.owner[p] = db.owner[q] => Chained(p, q, Decisions(db, "merge") \union db.renamed)

\* The people of the archive are its own, and merged by decisions only.
\* (internal/store/contactmerge.go, contactrepair.go, sources.go.)
PeopleHold == NoGhosts /\ MergesAreRecorded

\* What joins identifiers before the rules do: having one owner, and stored merges.
Stored(d, r) == {contactPairs(d, id) : id \in DOMAIN d.contacts} \union Applied(d, r)

\* A reconcile does what is decided, and leaves nothing for a second one to do:
\* the user's merges hold after it, and two identifiers that a split keeps apart
\* are only brought together by stored merges, never by the rules.
ReconcileHolds ==
  [][ReconcileContacts =>
     /\ Applied(db', rules) = {} /\ Reconciled(db', rules, <<>>) = db'
     /\ \A p, q \in DOMAIN db.owner :
          LET decided(kind) == /\ {p, q} \in DOMAIN db.links
                               /\ db.links[{p, q}] = [kind |-> kind, origin |-> "manual"]
              together == db'.owner[p] = db'.owner[q]
          IN /\ decided("merge") => together
             /\ decided("split") /\ together => Chained(p, q, Stored(db, rules))]_contactsVars

\* What the documents say of a split: no reconcile brings the two together again.
SplitHolds ==
  [][ReconcileContacts => \A p, q \in DOMAIN db.owner :
       {p, q} \in Decisions(db, "split") /\ db.owner[p] # db.owner[q]
         => db'.owner[p] # db'.owner[q]]_contactsVars

Facts(d) == UNION {d.facts[id] : id \in DOMAIN d.facts}

\* What is known about a person is only lost when a source is disabled, or with
\* a person who never was.
FactsKept ==
  [][Facts(db) \subseteq Facts(db') \/ Disable \/ RepairContactIdentities]_contactsVars

\* What the user has decided about people, and what is known of them, outlives
\* every import and every reconcile.
PeopleKept == ReconcileHolds /\ FactsKept
=============================================================================
