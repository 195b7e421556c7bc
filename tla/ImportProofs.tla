---------------------------- MODULE ImportProofs -----------------------------
(***************************************************************************)
(* Proofs about what the imports make of the exporters' chats.  Contacts:  *)
(* for any exporters, chats, old versions, facts, rules and number of       *)
(* actions.  Transcripts: for any chats and names, anything said in lines,  *)
(* and any number of messages, reactions and new names.                    *)
(***************************************************************************)
EXTENDS PartsProofs, Contacts, Transcripts, SequenceTheorems

(* Loops (Contacts, Transcripts).                                          *)

\* The k-th step of a loop.
Step(kind, x, s, k) ==
  CASE kind = "refold"       -> Refolded(x, s[k])
    [] kind = "auto"         -> AutoMerged(x, s[k])
    [] kind = "legacy"       -> LegacyRow(x, s[k])
    [] kind = "repair"       -> IF k \in DOMAIN s.convs THEN RepairConversation(x, k) ELSE x
    [] kind = "signal"       -> signalLine(x, s[k])
    [] kind = "imessage"     -> imessageLine(x, s[k])
    [] kind = "signalChat"   -> readSignal(x, SignalLines(s[k]))
    [] kind = "imessageChat" -> readIMessage(x, IMessageLines(s[k]))
    [] kind = "names"        -> Append(x, FreeName(s[1], s[2][k], x))

Runs(run, kind, x, s, n) ==
  run = [k \in 0 .. n |-> IF k = 0 THEN x ELSE Step(kind, run[k - 1], s, k)]

\* A loop has a result.
LEMMA RunsExist ==
  ASSUME NEW kind, NEW x, NEW s, NEW n \in Nat
  PROVE  \E run : Runs(run, kind, x, s, n)
<1> DEFINE Bad == {k \in Nat : ~(\E run : Runs(run, kind, x, s, k))}
<1> SUFFICES ASSUME Bad # {} PROVE FALSE
  OBVIOUS
<1>1. PICK m \in Bad : \A k \in Bad : m <= k
  BY LeastOf
<1>2. m \in Nat /\ ~(\E run : Runs(run, kind, x, s, m))
  OBVIOUS
<1>3. m # 0
  <2> SUFFICES ASSUME m = 0 PROVE FALSE
    OBVIOUS
  <2>1. PICK run : run = [k \in 0 .. 0 |-> x]
    OBVIOUS
  <2>2. Runs(run, kind, x, s, 0)
    BY <2>1 DEF Runs
  <2> QED
    BY <1>2, <2>2
<1>4. m - 1 \in Nat /\ m - 1 \notin Bad
  BY <1>1, <1>2, <1>3
<1>5. PICK r : Runs(r, kind, x, s, m - 1)
  BY <1>4
<1>6. PICK q : q = [k \in 0 .. m |-> IF k = m THEN Step(kind, r[m - 1], s, m) ELSE r[k]]
  OBVIOUS
<1>7. ASSUME NEW k \in 0 .. m PROVE q[k] = IF k = 0 THEN x ELSE Step(kind, q[k - 1], s, k)
  <2>1. k # 0 => k - 1 \in 0 .. m - 1 /\ q[k - 1] = r[k - 1]
    BY <1>2, <1>6
  <2>2. CASE k = m
    BY <1>2, <1>3, <1>6, <2>1, <2>2
  <2>3. CASE k # m
    <3>1. k \in 0 .. m - 1
      BY <1>2, <2>3
    <3>2. r[k] = IF k = 0 THEN x ELSE Step(kind, r[k - 1], s, k)
      BY <1>5, <3>1 DEF Runs
    <3>3. q[k] = r[k]
      BY <1>6, <2>3
    <3> QED
      BY <2>1, <3>2, <3>3
  <2> QED
    BY <2>2, <2>3
<1>8. q = [k \in 0 .. m |-> q[k]]
  BY <1>6
<1>9. Runs(q, kind, x, s, m)
  BY <1>7, <1>8 DEF Runs
<1> QED
  BY <1>2, <1>9

-----------------------------------------------------------------------------
(* The people (Contacts): the tables refer to each other, whoever is one   *)
(* person is joined by decisions, and nobody is there without a reason.    *)

Fields == {"contacts", "owner", "convs", "links", "facts", "renamed", "left"}
Columns == {"source", "name", "group", "handle", "contact"}

\* A decision is about two identifiers.
Binary(links) ==
  \A l \in DOMAIN links : (\E p, q : p # q /\ l = {p, q}) /\ links[l].kind \in {"merge", "split"}

\* The tables, as far as they refer to each other.
Typed(d) ==
  /\ DOMAIN d = Fields
  /\ IsFiniteSet(DOMAIN d.contacts) /\ DOMAIN d.contacts \subseteq Nat \ {0}
  /\ DOMAIN d.facts = DOMAIN d.contacts
  /\ \A p \in DOMAIN d.owner : d.owner[p] \in DOMAIN d.contacts
  /\ IsFiniteSet(DOMAIN d.convs) /\ DOMAIN d.convs \subseteq Nat \ {0}
  /\ \A i \in DOMAIN d.convs :
       DOMAIN d.convs[i] = Columns /\ d.convs[i].contact \in DOMAIN d.contacts \union {0}
  /\ Binary(d.links)
  /\ d.left \subseteq DOMAIN d.contacts

\* Two identifiers of one person are joined, by decisions of either kind or by
\* what a repair has replaced.
HeldTogether(d) ==
  \A p, q \in DOMAIN d.owner : d.owner[p] = d.owner[q] =>
    \A S : p \in S /\ q \notin S =>
      \E l \in DOMAIN d.links \union d.renamed : l \intersect S # {} /\ l \ S # {}

Peopled(d) == \A id \in DOMAIN d.contacts \ d.left : ~Orphan(d, id)

DbOK(d) == Typed(d) /\ HeldTogether(d) /\ Peopled(d)

LEMMA RowAfter ==
  ASSUME NEW t, IsFiniteSet(DOMAIN t), DOMAIN t \subseteq Nat \ {0}
  PROVE  /\ LastRow(t) \in Nat /\ LastRow(t) + 1 \notin DOMAIN t
         /\ \A i \in DOMAIN t : i <= LastRow(t)
<1>1. PICK S : S = DOMAIN t \union {0}
  OBVIOUS
<1>2. IsFiniteSet(S)
  BY <1>1, FS_AddElement
<1>3. S \subseteq Nat /\ S \subseteq Int /\ S # {}
  BY <1>1
<1>4. Max(S) \in S /\ \A y \in S : y <= Max(S)
  BY <1>2, <1>3, GreatestInt
<1>5. LastRow(t) = Max(S)
  BY <1>1 DEF LastRow
<1>6. PICK m \in Nat : m = LastRow(t) /\ \A y \in S : y <= m
  BY <1>3, <1>4, <1>5
<1>7. m + 1 \notin S
  <2> SUFFICES ASSUME m + 1 \in S PROVE FALSE
    OBVIOUS
  <2>1. m + 1 <= m
    BY <1>6
  <2> QED
    BY <2>1
<1> QED
  BY <1>1, <1>6, <1>7

\* Whom a row is with.
With(d, i) == IF i \in DOMAIN d.convs THEN d.convs[i].contact ELSE 0

Writes(d, e, i, conv) ==
  i \in Nat \ {0} /\ DOMAIN conv = Columns /\ e = [d EXCEPT !.convs = Inserted(@, i, conv)]

Regroups(d, e, i, conv) ==
  /\ i \in Nat \ {0} /\ DOMAIN conv = Columns
  /\ e = [d EXCEPT !.convs = Inserted(@, i, conv), !.left = @ \union ({With(d, i)} \ {0})]

\* A row is written, which says of its conversation whom it was with before.
LEMMA InsertedKeeps ==
  ASSUME NEW d, DbOK(d), NEW i, NEW conv, conv.contact = With(d, i), NEW e, Writes(d, e, i, conv)
  PROVE  /\ DbOK(e) /\ Facts(e) = Facts(d) /\ e.owner = d.owner /\ e.contacts = d.contacts
         /\ i \in DOMAIN e.convs /\ e.convs[i] = conv
<1>0. i \in Nat \ {0} /\ DOMAIN conv = Columns
  BY DEF Writes
<1>1. /\ DOMAIN e = Fields /\ e.contacts = d.contacts /\ e.owner = d.owner /\ e.links = d.links
      /\ e.facts = d.facts /\ e.renamed = d.renamed /\ e.left = d.left
      /\ e.convs = Inserted(d.convs, i, conv)
  BY DEF Writes, DbOK, Typed, Fields
<1>2. /\ DOMAIN e.convs = DOMAIN d.convs \union {i}
      /\ \A j \in DOMAIN e.convs : e.convs[j] = IF j = i THEN conv ELSE d.convs[j]
  BY <1>1 DEF Inserted
<1>3. IsFiniteSet(DOMAIN e.convs)
  BY <1>2, FS_AddElement DEF DbOK, Typed
<1>4. Typed(e)
  <2>1. ASSUME NEW j \in DOMAIN e.convs
        PROVE  DOMAIN e.convs[j] = Columns /\ e.convs[j].contact \in DOMAIN e.contacts \union {0}
    BY <1>0, <1>1, <1>2 DEF DbOK, Typed, With
  <2>2. DOMAIN e.convs \subseteq Nat \ {0}
    BY <1>0, <1>2 DEF DbOK, Typed
  <2>3. e.left \subseteq DOMAIN e.contacts
    BY <1>1 DEF DbOK, Typed, With
  <2> QED
    BY <1>1, <1>3, <2>1, <2>2, <2>3 DEF DbOK, Typed
<1>5. HeldTogether(e)
  BY <1>1 DEF DbOK, HeldTogether
<1>6. \A id : Orphan(e, id) => id = 0 \/ Orphan(d, id)
  BY <1>1, <1>2 DEF Orphan, contactPairs, With
<1>7. Peopled(e)
  BY <1>1, <1>6 DEF DbOK, Peopled, Typed
<1> QED
  BY <1>1, <1>2, <1>4, <1>5, <1>7 DEF DbOK, Facts

\* A conversation turns out to be a group's.
LEMMA RegroupedKeeps ==
  ASSUME NEW d, DbOK(d), NEW i, NEW conv, conv.contact = 0, NEW e, Regroups(d, e, i, conv)
  PROVE  DbOK(e) /\ Facts(e) = Facts(d)
<1>0. i \in Nat \ {0} /\ DOMAIN conv = Columns
  BY DEF Regroups
<1>1. /\ DOMAIN e = Fields /\ e.contacts = d.contacts /\ e.owner = d.owner /\ e.links = d.links
      /\ e.facts = d.facts /\ e.renamed = d.renamed
      /\ e.left = d.left \union ({With(d, i)} \ {0})
      /\ e.convs = Inserted(d.convs, i, conv)
  BY DEF Regroups, DbOK, Typed, Fields
<1>2. /\ DOMAIN e.convs = DOMAIN d.convs \union {i}
      /\ \A j \in DOMAIN e.convs : e.convs[j] = IF j = i THEN conv ELSE d.convs[j]
  BY <1>1 DEF Inserted
<1>3. IsFiniteSet(DOMAIN e.convs)
  BY <1>2, FS_AddElement DEF DbOK, Typed
<1>4. Typed(e)
  <2>1. ASSUME NEW j \in DOMAIN e.convs
        PROVE  DOMAIN e.convs[j] = Columns /\ e.convs[j].contact \in DOMAIN e.contacts \union {0}
    BY <1>0, <1>1, <1>2 DEF DbOK, Typed, With
  <2>2. DOMAIN e.convs \subseteq Nat \ {0}
    BY <1>0, <1>2 DEF DbOK, Typed
  <2>3. e.left \subseteq DOMAIN e.contacts
    BY <1>1 DEF DbOK, Typed, With
  <2> QED
    BY <1>1, <1>3, <2>1, <2>2, <2>3 DEF DbOK, Typed
<1>5. HeldTogether(e)
  BY <1>1 DEF DbOK, HeldTogether
<1>6. ASSUME NEW id \in DOMAIN e.contacts \ e.left PROVE ~Orphan(e, id)
  <2>1. ~Orphan(d, id) /\ (i \in DOMAIN d.convs => d.convs[i].contact # id) /\ id # 0
    BY <1>1, <1>6 DEF DbOK, Peopled, Typed, With
  <2> QED
    BY <1>1, <1>2, <2>1 DEF Orphan, contactPairs
<1> QED
  BY <1>1, <1>4, <1>5, <1>6 DEF DbOK, Peopled, Facts

\* Whoever a conversation gets, it is with somebody then.
LEMMA LinkedKeeps ==
  ASSUME NEW d, DbOK(d), NEW i \in DOMAIN d.convs, NEW identity
  PROVE  DbOK(Linked(d, i, identity)) /\ Facts(d) \subseteq Facts(Linked(d, i, identity))
<1>1. PICK pair : pair = <<d.convs[i].source, identity.id>>
  OBVIOUS
<1>2. PICK new : new = NewId(d)
  OBVIOUS
<1>3. new \in Nat \ {0} /\ new \notin DOMAIN d.contacts
  BY <1>2, RowAfter DEF NewId, DbOK, Typed
<1>4. CASE d.convs[i].contact # 0
  BY <1>4 DEF Linked
<1>5. CASE d.convs[i].contact = 0 /\ Owner(d, pair) # 0
  <2>1. PICK who : who = Owner(d, pair)
    OBVIOUS
  <2>2. who \in DOMAIN d.contacts
    BY <1>5, <2>1 DEF Owner, DbOK, Typed
  <2>3. PICK e : e = Linked(d, i, identity)
    OBVIOUS
  <2>4. e = [d EXCEPT !.convs[i].contact = who]
    BY <1>1, <1>5, <2>1, <2>3 DEF Linked
  <2>5. /\ DOMAIN e = Fields /\ e.contacts = d.contacts /\ e.owner = d.owner /\ e.links = d.links
        /\ e.facts = d.facts /\ e.renamed = d.renamed /\ e.left = d.left
        /\ DOMAIN e.convs = DOMAIN d.convs
        /\ \A j \in DOMAIN d.convs : j # i => e.convs[j] = d.convs[j]
        /\ DOMAIN e.convs[i] = Columns /\ e.convs[i].contact = who
    BY <2>4 DEF DbOK, Typed, Fields, Columns
  <2>6. Typed(e)
    BY <2>2, <2>5 DEF DbOK, Typed
  <2>7. HeldTogether(e)
    BY <2>5 DEF DbOK, HeldTogether
  <2>8. \A id : Orphan(e, id) => id = 0 \/ Orphan(d, id)
    BY <1>5, <2>5 DEF Orphan, contactPairs
  <2>9. Peopled(e)
    BY <2>5, <2>8 DEF DbOK, Peopled, Typed
  <2> QED
    BY <2>3, <2>5, <2>6, <2>7, <2>9 DEF DbOK, Facts
<1>6. CASE d.convs[i].contact = 0 /\ Owner(d, pair) = 0
  <2>1. pair \notin DOMAIN d.owner
    BY <1>6 DEF Owner, DbOK, Typed
  <2>2. PICK e : e = Linked(d, i, identity)
    OBVIOUS
  <2>3. e = [d EXCEPT
              !.contacts = [id \in DOMAIN @ \union {new} |-> IF id = new THEN identity.name ELSE @[id]],
              !.facts = [id \in DOMAIN @ \union {new} |-> IF id = new THEN {} ELSE @[id]],
              !.owner = [p \in DOMAIN @ \union {pair} |-> IF p = pair THEN new ELSE @[p]],
              !.convs[i].contact = new]
    BY <1>1, <1>2, <1>6, <2>2 DEF Linked
  <2>4. /\ DOMAIN e = Fields /\ e.links = d.links /\ e.renamed = d.renamed /\ e.left = d.left
        /\ DOMAIN e.contacts = DOMAIN d.contacts \union {new}
        /\ e.facts = [id \in DOMAIN d.facts \union {new} |-> IF id = new THEN {} ELSE d.facts[id]]
        /\ e.owner = [p \in DOMAIN d.owner \union {pair} |-> IF p = pair THEN new ELSE d.owner[p]]
        /\ DOMAIN e.convs = DOMAIN d.convs
        /\ \A j \in DOMAIN d.convs : j # i => e.convs[j] = d.convs[j]
        /\ DOMAIN e.convs[i] = Columns /\ e.convs[i].contact = new
    BY <2>3 DEF DbOK, Typed, Fields, Columns
  <2>5. IsFiniteSet(DOMAIN e.contacts)
    BY <2>4, FS_AddElement DEF DbOK, Typed
  <2>6. Typed(e)
    <3>1. \A p \in DOMAIN e.owner : e.owner[p] \in DOMAIN e.contacts
      BY <2>4 DEF DbOK, Typed
    <3>2. ASSUME NEW j \in DOMAIN e.convs
          PROVE  DOMAIN e.convs[j] = Columns /\ e.convs[j].contact \in DOMAIN e.contacts \union {0}
      BY <2>4 DEF DbOK, Typed
    <3>3. DOMAIN e.contacts \subseteq Nat \ {0} /\ DOMAIN e.facts = DOMAIN e.contacts
      BY <1>3, <2>4 DEF DbOK, Typed
    <3> QED
      BY <2>4, <2>5, <3>1, <3>2, <3>3 DEF DbOK, Typed
  <2>7. HeldTogether(e)
    <3> SUFFICES ASSUME NEW p \in DOMAIN e.owner, NEW q \in DOMAIN e.owner, e.owner[p] = e.owner[q],
                        NEW S, p \in S, q \notin S
                 PROVE  \E l \in DOMAIN e.links \union e.renamed : l \intersect S # {} /\ l \ S # {}
      BY DEF HeldTogether
    <3>1. p # q
      OBVIOUS
    <3>2. \A x \in DOMAIN d.owner : d.owner[x] # new
      BY <1>3 DEF DbOK, Typed
    <3>3. p \in DOMAIN d.owner /\ q \in DOMAIN d.owner /\ d.owner[p] = d.owner[q]
      BY <2>1, <2>4, <3>1, <3>2
    <3> QED
      BY <2>4, <3>3 DEF DbOK, HeldTogether
  <2>8. ASSUME NEW id \in DOMAIN e.contacts \ e.left PROVE ~Orphan(e, id)
    <3>1. CASE id = new
      BY <2>4, <3>1 DEF Orphan
    <3>2. CASE id # new
      <4>1. ~Orphan(d, id) /\ id # 0
        BY <2>4, <2>8, <3>2 DEF DbOK, Peopled, Typed
      <4>2. contactPairs(d, id) \subseteq contactPairs(e, id)
        BY <2>1, <2>4, <3>2 DEF contactPairs
      <4>3. \A j \in DOMAIN d.convs : d.convs[j].contact = id => e.convs[j].contact = id
        BY <1>6, <2>4, <4>1
      <4> QED
        BY <2>4, <4>1, <4>2, <4>3 DEF Orphan
    <3> QED
      BY <3>1, <3>2
  <2>9. Facts(d) \subseteq Facts(e)
    BY <1>3, <2>4 DEF Facts, DbOK, Typed
  <2> QED
    BY <2>2, <2>6, <2>7, <2>8, <2>9 DEF DbOK, Peopled
<1> QED
  BY <1>4, <1>5, <1>6

LEMMA WinnerIs ==
  ASSUME NEW d, NEW a \in Nat, NEW b \in Nat
  PROVE  pickWinner(d, a, b) \in {a, b}
<1>1. {a, b} \subseteq Int /\ {a, b} # {}
  OBVIOUS
<1>2. IsFiniteSet({a, b})
  <2>1. IsFiniteSet({}) /\ {a, b} = ({} \union {a}) \union {b}
    BY FS_EmptySet
  <2>2. IsFiniteSet({} \union {a})
    BY <2>1, FS_AddElement
  <2> QED
    BY <2>1, <2>2, FS_AddElement
<1>3. Min({a, b}) \in {a, b}
  BY <1>1, <1>2, LeastInt
<1> QED
  BY <1>3 DEF pickWinner

\* What has become of two people, a and b.
United(d, e, a, b) ==
  LET w == pickWinner(d, a, b)
  IN /\ w \in {a, b}
     /\ DOMAIN e.contacts = (DOMAIN d.contacts \ {a, b}) \union {w}
     /\ DOMAIN e.owner = DOMAIN d.owner
     /\ \A p \in DOMAIN d.owner : e.owner[p] = IF d.owner[p] \in {a, b} THEN w ELSE d.owner[p]
     /\ e.links = d.links /\ e.renamed = d.renamed

LEMMA UnionKeeps ==
  ASSUME NEW d, DbOK(d), NEW a \in DOMAIN d.contacts, NEW b \in DOMAIN d.contacts, a # b,
         \/ contactPairs(d, a) = {} \/ contactPairs(d, b) = {}
         \/ \E p \in contactPairs(d, a), q \in contactPairs(d, b) : {p, q} \in DOMAIN d.links,
         NEW e, e = unionByRule(d, a, b)
  PROVE  DbOK(e) /\ United(d, e, a, b) /\ Facts(d) \subseteq Facts(e)
<1>1. PICK w : w = pickWinner(d, a, b)
  OBVIOUS
<1>2. w \in {a, b}
  BY <1>1, WinnerIs DEF DbOK, Typed
<1>3. PICK l : l = IF w = a THEN b ELSE a
  OBVIOUS
<1>4. w # l /\ {a, b} = {w, l} /\ w \in DOMAIN d.contacts /\ l \in DOMAIN d.contacts /\ w # 0 /\ l # 0
  BY <1>2, <1>3 DEF DbOK, Typed
<1>5. e = unionContacts(d, w, l)
  BY <1>1, <1>3 DEF unionByRule
<1>6. /\ DOMAIN e = Fields /\ e.links = d.links /\ e.renamed = d.renamed /\ e.left = d.left \ {l}
      /\ DOMAIN e.contacts = DOMAIN d.contacts \ {l}
      /\ e.owner = [p \in DOMAIN d.owner |-> IF d.owner[p] = l THEN w ELSE d.owner[p]]
      /\ e.convs = [i \in DOMAIN d.convs |->
                      IF d.convs[i].contact = l THEN [d.convs[i] EXCEPT !.contact = w] ELSE d.convs[i]]
      /\ e.facts = [id \in DOMAIN d.facts \ {l} |-> IF id = w THEN d.facts[w] \union d.facts[l] ELSE d.facts[id]]
  BY <1>5 DEF unionContacts, Without, DbOK, Typed, Fields
<1>7. \A i \in DOMAIN d.convs :
        /\ DOMAIN e.convs[i] = Columns
        /\ e.convs[i].contact = IF d.convs[i].contact = l THEN w ELSE d.convs[i].contact
  BY <1>6 DEF DbOK, Typed, Columns
<1>8. Typed(e)
  <2>1. DOMAIN e.contacts \in SUBSET (DOMAIN d.contacts)
    BY <1>6
  <2>2. IsFiniteSet(DOMAIN e.contacts)
    BY <2>1, FS_Subset DEF DbOK, Typed
  <2>3. \A p \in DOMAIN e.owner : e.owner[p] \in DOMAIN e.contacts
    BY <1>4, <1>6 DEF DbOK, Typed
  <2>4. \A i \in DOMAIN e.convs :
          DOMAIN e.convs[i] = Columns /\ e.convs[i].contact \in DOMAIN e.contacts \union {0}
    BY <1>4, <1>6, <1>7 DEF DbOK, Typed
  <2>5. DOMAIN e.contacts \subseteq Nat \ {0} /\ DOMAIN e.facts = DOMAIN e.contacts /\ DOMAIN e.convs = DOMAIN d.convs
    BY <1>6 DEF DbOK, Typed
  <2>6. e.left \subseteq DOMAIN e.contacts
    BY <1>6 DEF DbOK, Typed
  <2> QED
    BY <1>6, <2>2, <2>3, <2>4, <2>5, <2>6 DEF DbOK, Typed
<1>9. United(d, e, a, b)
  <2>1. \A p \in DOMAIN d.owner : e.owner[p] = IF d.owner[p] \in {a, b} THEN w ELSE d.owner[p]
    BY <1>4, <1>6
  <2>2. DOMAIN e.contacts = (DOMAIN d.contacts \ {a, b}) \union {w}
    BY <1>4, <1>6
  <2>3. DOMAIN e.owner = DOMAIN d.owner
    BY <1>6
  <2> QED
    BY <1>1, <1>2, <1>6, <2>1, <2>2, <2>3 DEF United
<1>10. HeldTogether(e)
  <2> SUFFICES ASSUME NEW p \in DOMAIN e.owner, NEW q \in DOMAIN e.owner, e.owner[p] = e.owner[q],
                      NEW S, p \in S, q \notin S
               PROVE  \E k \in DOMAIN e.links \union e.renamed : k \intersect S # {} /\ k \ S # {}
    BY DEF HeldTogether
  <2>0. p \in DOMAIN d.owner /\ q \in DOMAIN d.owner
    BY <1>6
  <2>1. CASE d.owner[p] = d.owner[q]
    BY <1>6, <2>0, <2>1 DEF DbOK, HeldTogether
  <2>2. CASE d.owner[p] # d.owner[q]
    <3>1. d.owner[p] \in {a, b} /\ d.owner[q] \in {a, b}
      BY <1>4, <1>6, <2>0, <2>2
    <3>2. contactPairs(d, a) # {} /\ contactPairs(d, b) # {}
      BY <2>0, <2>2, <3>1 DEF contactPairs
    <3>3. PICK x, y : /\ x \in contactPairs(d, a) /\ y \in contactPairs(d, b) /\ {x, y} \in DOMAIN d.links
      BY <3>2
    <3>4. PICK s, t : /\ {s, t} \in DOMAIN d.links /\ s \in DOMAIN d.owner /\ t \in DOMAIN d.owner
                      /\ d.owner[s] = d.owner[p] /\ d.owner[t] = d.owner[q]
      <4>1. {x, y} = {y, x} /\ x \in DOMAIN d.owner /\ y \in DOMAIN d.owner /\ d.owner[x] = a /\ d.owner[y] = b
        BY <3>3 DEF contactPairs
      <4> QED
        BY <2>2, <3>1, <3>3, <4>1
    <3>5. CASE s \notin S
      BY <1>6, <2>0, <3>4, <3>5 DEF DbOK, HeldTogether
    <3>6. CASE t \in S
      BY <1>6, <2>0, <3>4, <3>6 DEF DbOK, HeldTogether
    <3>7. CASE s \in S /\ t \notin S
      BY <1>6, <3>4, <3>7
    <3> QED
      BY <3>5, <3>6, <3>7
  <2> QED
    BY <2>1, <2>2
<1>11. ASSUME NEW id \in DOMAIN e.contacts \ e.left PROVE ~Orphan(e, id)
  <2>1. id \in DOMAIN d.contacts /\ id # l /\ ~Orphan(d, id)
    BY <1>6, <1>11 DEF DbOK, Peopled
  <2>2. contactPairs(d, id) \subseteq contactPairs(e, id)
    BY <1>6, <2>1 DEF contactPairs
  <2>3. \A i \in DOMAIN d.convs : d.convs[i].contact = id => e.convs[i].contact = id
    BY <1>7, <2>1
  <2> QED
    BY <1>6, <2>1, <2>2, <2>3 DEF Orphan
<1>12. Facts(d) \subseteq Facts(e)
  <2> SUFFICES ASSUME NEW id \in DOMAIN d.facts, NEW f \in d.facts[id] PROVE \E o \in DOMAIN e.facts : f \in e.facts[o]
    BY DEF Facts
  <2>1. w \in DOMAIN e.facts /\ e.facts[w] = d.facts[w] \union d.facts[l]
    BY <1>4, <1>6 DEF DbOK, Typed
  <2>2. id # w /\ id # l => id \in DOMAIN e.facts /\ e.facts[id] = d.facts[id]
    BY <1>6
  <2> QED
    BY <2>1, <2>2
<1> QED
  BY <1>8, <1>9, <1>10, <1>11, <1>12 DEF DbOK, Peopled

\* What is written down of a decision between the identifiers A and B.
Recorded(d, e, decision, A, B) ==
  /\ DOMAIN e = Fields
  /\ e.contacts = d.contacts /\ e.owner = d.owner /\ e.convs = d.convs
  /\ e.facts = d.facts /\ e.renamed = d.renamed /\ e.left = d.left
  /\ \A l : l \in DOMAIN e.links <=> l \in DOMAIN d.links \/ \E p \in A, q \in B : l = {p, q}
  /\ \A l \in DOMAIN d.links : decision.origin = "manual" \/ e.links[l] = d.links[l]
  /\ \A l \in DOMAIN e.links :
       e.links[l] = decision \/ (l \in DOMAIN d.links /\ e.links[l] = d.links[l])
  /\ decision.origin = "manual" => \A p \in A, q \in B : e.links[{p, q}] = decision
  /\ \A l \in DOMAIN e.links : ~(\E p \in A, q \in B : l = {p, q}) => e.links[l] = d.links[l]

LEMMA RecordKeeps ==
  ASSUME NEW d, DbOK(d), NEW A, NEW B, A \intersect B = {},
         NEW decision, decision.kind \in {"merge", "split"},
         NEW e, e = [d EXCEPT !.links = recordLinks(@, decision, A, B)]
  PROVE  DbOK(e) /\ Recorded(d, e, decision, A, B)
<1> DEFINE new == {{p, q} : p \in A, q \in B}
<1>2. \A l : l \in new <=> \E p \in A, q \in B : l = {p, q}
  OBVIOUS
<1>3. /\ DOMAIN e = Fields /\ e.contacts = d.contacts /\ e.owner = d.owner /\ e.convs = d.convs
      /\ e.facts = d.facts /\ e.renamed = d.renamed /\ e.left = d.left
      /\ e.links = recordLinks(d.links, decision, A, B)
  BY DEF DbOK, Typed, Fields
<1>4. e.links = [l \in DOMAIN d.links \union new |->
                   IF l \in new /\ (l \notin DOMAIN d.links \/ decision.origin = "manual")
                   THEN decision ELSE d.links[l]]
  BY <1>3 DEF recordLinks
<1> HIDE DEF new
<1>5. Recorded(d, e, decision, A, B)
  <2>1. \A l : l \in DOMAIN e.links <=> l \in DOMAIN d.links \/ l \in new
    BY <1>4
  <2>2. \A l \in DOMAIN d.links : decision.origin = "manual" \/ e.links[l] = d.links[l]
    BY <1>4
  <2>3. \A l \in DOMAIN e.links :
          e.links[l] = decision \/ (l \in DOMAIN d.links /\ e.links[l] = d.links[l])
    BY <1>4
  <2>4. decision.origin = "manual" => \A l \in new : e.links[l] = decision
    BY <1>4
  <2>5. \A l \in DOMAIN e.links : l \notin new => e.links[l] = d.links[l]
    BY <1>4
  <2> QED
    BY <1>2, <1>3, <2>1, <2>2, <2>3, <2>4, <2>5 DEF Recorded
<1>6. Binary(e.links)
  <2> SUFFICES ASSUME NEW l \in DOMAIN e.links
               PROVE  (\E p, q : p # q /\ l = {p, q}) /\ e.links[l].kind \in {"merge", "split"}
    BY DEF Binary
  <2>1. e.links[l].kind \in {"merge", "split"}
    <3>1. e.links[l] = decision \/ (l \in DOMAIN d.links /\ e.links[l] = d.links[l])
      BY <1>4
    <3> QED
      BY <3>1 DEF DbOK, Typed, Binary
  <2>2. \E p, q : p # q /\ l = {p, q}
    <3>1. CASE l \in DOMAIN d.links
      BY <3>1 DEF DbOK, Typed, Binary
    <3>2. CASE l \in new
      BY <1>2, <3>2
    <3> QED
      BY <1>4, <3>1, <3>2
  <2> QED
    BY <2>1, <2>2
<1>7. Typed(e)
  BY <1>3, <1>6 DEF DbOK, Typed
<1>8. HeldTogether(e)
  <2>1. DOMAIN d.links \subseteq DOMAIN e.links
    BY <1>4
  <2> QED
    BY <1>3, <2>1 DEF DbOK, HeldTogether
<1>9. Peopled(e)
  BY <1>3 DEF DbOK, Peopled, Orphan, contactPairs
<1> QED
  BY <1>5, <1>7, <1>8, <1>9 DEF DbOK

\* A decision to merge is written down, then carried out.
LEMMA MergeKeeps ==
  ASSUME NEW d, DbOK(d), NEW a \in DOMAIN d.contacts, NEW b \in DOMAIN d.contacts, a # b,
         NEW decision, decision.kind = "merge",
         NEW r, r = [d EXCEPT !.links = recordLinks(@, decision, contactPairs(d, a), contactPairs(d, b))],
         NEW e, e = unionByRule(r, a, b)
  PROVE  /\ DbOK(e) /\ Facts(d) \subseteq Facts(e)
         /\ Recorded(d, r, decision, contactPairs(d, a), contactPairs(d, b))
         /\ United(r, e, a, b) /\ pickWinner(r, a, b) = pickWinner(d, a, b)
<1>1. contactPairs(d, a) \intersect contactPairs(d, b) = {}
  BY DEF contactPairs
<1>2. DbOK(r) /\ Recorded(d, r, decision, contactPairs(d, a), contactPairs(d, b))
  BY <1>1, RecordKeeps
<1>3. r.contacts = d.contacts /\ r.owner = d.owner /\ r.facts = d.facts
  BY <1>2 DEF Recorded
<1>4. \A x : contactPairs(r, x) = contactPairs(d, x)
  BY <1>3 DEF contactPairs
<1>5. pickWinner(r, a, b) = pickWinner(d, a, b)
  BY <1>3, <1>4 DEF pickWinner, isMeaningfulName
<1>6. \/ contactPairs(r, a) = {} \/ contactPairs(r, b) = {}
      \/ \E p \in contactPairs(r, a), q \in contactPairs(r, b) : {p, q} \in DOMAIN r.links
  BY <1>2, <1>4 DEF Recorded
<1>7. DbOK(e) /\ United(r, e, a, b) /\ Facts(r) \subseteq Facts(e)
  BY <1>2, <1>3, <1>6, UnionKeeps
<1> QED
  BY <1>2, <1>3, <1>5, <1>7 DEF Facts

\* A set of identifiers that what joins them does not leave.
Closed(d, L, S) ==
  \A x, y \in DOMAIN d.owner :
    x \in S /\ (d.owner[x] = d.owner[y] \/ \E l \in L : x \in l /\ y \in l) => y \in S

\* What some of the stored merges make of the people.
Refolds(d, e, L) ==
  /\ DbOK(e) /\ Facts(d) \subseteq Facts(e)
  /\ e.links = d.links /\ DOMAIN e.owner = DOMAIN d.owner
  /\ \A p, q \in DOMAIN d.owner : d.owner[p] = d.owner[q] => e.owner[p] = e.owner[q]
  /\ \A S : Closed(d, L, S) =>
       \A p, q \in DOMAIN d.owner : e.owner[p] = e.owner[q] /\ p \in S => q \in S

Stores(d, link) == link \in DOMAIN d.links /\ link \subseteq DOMAIN d.owner

\* The same of one of them.
Joins(d, e, link) ==
  /\ DbOK(e) /\ Facts(d) \subseteq Facts(e)
  /\ e.links = d.links /\ DOMAIN e.owner = DOMAIN d.owner
  /\ \A p, q \in DOMAIN d.owner : d.owner[p] = d.owner[q] => e.owner[p] = e.owner[q]
  /\ \A p, q \in link : e.owner[p] = e.owner[q]
  /\ \A p, q \in DOMAIN d.owner : e.owner[p] = e.owner[q] /\ d.owner[p] # d.owner[q] =>
       \E x, y \in link : d.owner[x] = d.owner[p] /\ d.owner[y] = d.owner[q]

LEMMA RefoldedJoins ==
  ASSUME NEW d, DbOK(d), NEW link, Stores(d, link)
  PROVE  Joins(d, Refolded(d, link), link)
<1>1. PICK e : e = Refolded(d, link)
  OBVIOUS
<1> DEFINE p == CHOOSE p \in link : TRUE
           q == CHOOSE q \in link : q # p
<1>2. e = IF Owner(d, p) # Owner(d, q) THEN unionByRule(d, Owner(d, p), Owner(d, q)) ELSE d
  BY <1>1 DEF Refolded
<1>4. \E s, t : s # t /\ link = {s, t}
  BY DEF Stores, DbOK, Typed, Binary
<1>5. p \in link
  BY <1>4
<1>6. q \in link /\ q # p
  BY <1>4, <1>5
<1> HIDE DEF p, q
<1>7. link = {p, q} /\ link \in DOMAIN d.links /\ p \in DOMAIN d.owner /\ q \in DOMAIN d.owner
  BY <1>4, <1>5, <1>6 DEF Stores
<1>8. Owner(d, p) = d.owner[p] /\ Owner(d, q) = d.owner[q]
  BY <1>7 DEF Owner
<1>9. e = IF d.owner[p] # d.owner[q] THEN unionByRule(d, d.owner[p], d.owner[q]) ELSE d
  BY <1>2, <1>8
<1>10. CASE d.owner[p] = d.owner[q]
  BY <1>1, <1>7, <1>9, <1>10 DEF Joins
<1>11. CASE d.owner[p] # d.owner[q]
  <2>1. PICK a \in DOMAIN d.contacts, b \in DOMAIN d.contacts : a = d.owner[p] /\ b = d.owner[q]
    BY <1>7 DEF DbOK, Typed
  <2>2. p \in contactPairs(d, a) /\ q \in contactPairs(d, b) /\ {p, q} \in DOMAIN d.links
    BY <1>7, <2>1 DEF contactPairs
  <2>3. DbOK(e) /\ United(d, e, a, b) /\ Facts(d) \subseteq Facts(e)
    <3>1. e = unionByRule(d, a, b) /\ a # b
      BY <1>9, <1>11, <2>1
    <3>2. \E x \in contactPairs(d, a), y \in contactPairs(d, b) : {x, y} \in DOMAIN d.links
      BY <2>2
    <3> QED
      BY <3>1, <3>2, UnionKeeps
  <2>4. PICK w : w \in {a, b} /\ \A x \in DOMAIN d.owner : e.owner[x] = IF d.owner[x] \in {a, b} THEN w ELSE d.owner[x]
    BY <2>3 DEF United
  <2>5. \A x, y \in link : e.owner[x] = e.owner[y]
    BY <1>7, <2>1, <2>4
  <2>6. ASSUME NEW x \in DOMAIN d.owner, NEW y \in DOMAIN d.owner, e.owner[x] = e.owner[y], d.owner[x] # d.owner[y]
        PROVE  \E s, t \in link : d.owner[s] = d.owner[x] /\ d.owner[t] = d.owner[y]
    <3>1. d.owner[x] \in {a, b} /\ d.owner[y] \in {a, b}
      BY <2>4, <2>6
    <3> QED
      BY <1>7, <2>1, <2>6, <3>1
  <2> QED
    BY <1>1, <2>3, <2>4, <2>5, <2>6 DEF Joins, United
<1> QED
  BY <1>10, <1>11

Lists(order, L) == Len(order) \in Nat /\ L = {order[i] : i \in 1 .. Len(order)}

\* What the stored merges make of the people, they make of each link, and only
\* along the links.
LEMMA RefoldIs ==
  ASSUME NEW d, DbOK(d), NEW order, NEW L, Lists(order, L), \A l \in L : Stores(d, l)
  PROVE  /\ Refolds(d, Refold(d, order), L)
         /\ \A l \in L : \A p, q \in l : Refold(d, order).owner[p] = Refold(d, order).owner[q]
<1>1. PICK n \in Nat : n = Len(order) /\ L = {order[i] : i \in 1 .. Len(order)}
  BY DEF Lists
<1>2. PICK run : /\ run = [k \in 0 .. n |-> IF k = 0 THEN d ELSE Refolded(run[k - 1], order[k])]
                 /\ Refold(d, order) = run[n]
  <2> DEFINE fold == CHOOSE fold : fold = [k \in 0 .. n |-> IF k = 0 THEN d ELSE Refolded(fold[k - 1], order[k])]
  <2>1. fold = [k \in 0 .. n |-> IF k = 0 THEN d ELSE Refolded(fold[k - 1], order[k])]
    <3>1. \E run : Runs(run, "refold", d, order, n)
      BY RunsExist
    <3> QED
      BY <3>1 DEF Runs, Step
  <2>2. Refold(d, order) = fold[n]
    BY <1>1 DEF Refold
  <2> QED
    BY <2>1, <2>2
<1>3. run[0] = d /\ \A k \in 1 .. n : run[k] = Refolded(run[k - 1], order[k])
  BY <1>2
<1> DEFINE Good(k) == /\ Refolds(d, run[k], L)
                      /\ \A i \in 1 .. k : \A p, q \in order[i] : run[k].owner[p] = run[k].owner[q]
           Bad == {k \in 0 .. n : ~Good(k)}
<1>4. Good(0)
  BY <1>3 DEF Refolds, Closed
<1>5. ASSUME NEW k \in 1 .. n, Good(k - 1) PROVE Good(k)
  <2>1. PICK x, e, link : x = run[k - 1] /\ e = run[k] /\ link = order[k]
    OBVIOUS
  <2>2. link \in L /\ Stores(d, link)
    BY <1>1, <2>1
  <2>3. Refolds(d, x, L)
    BY <1>5, <2>1
  <2>4. Stores(x, link)
    BY <2>2, <2>3 DEF Stores, Refolds
  <2>5. Joins(x, e, link)
    BY <1>3, <2>1, <2>3, <2>4, RefoldedJoins DEF Refolds
  <2>6. ASSUME NEW S, Closed(d, L, S), NEW p \in DOMAIN d.owner, NEW q \in DOMAIN d.owner,
               e.owner[p] = e.owner[q], p \in S
        PROVE  q \in S
    <3>1. CASE x.owner[p] = x.owner[q]
      BY <2>3, <2>6, <3>1 DEF Refolds
    <3>2. CASE x.owner[p] # x.owner[q]
      <4>1. PICK s \in link, t \in link : x.owner[s] = x.owner[p] /\ x.owner[t] = x.owner[q]
        BY <2>3, <2>5, <2>6, <3>2 DEF Joins, Refolds
      <4>2. s \in DOMAIN d.owner /\ t \in DOMAIN d.owner
        BY <2>2 DEF Stores
      <4>3. s \in S
        BY <2>3, <2>6, <4>1, <4>2 DEF Refolds
      <4>4. t \in S
        BY <2>2, <2>6, <4>2, <4>3 DEF Closed
      <4> QED
        BY <2>3, <2>6, <4>1, <4>2, <4>4 DEF Refolds
    <3> QED
      BY <3>1, <3>2
  <2>7. Refolds(d, e, L)
    BY <2>3, <2>5, <2>6 DEF Refolds, Joins
  <2>8. ASSUME NEW i \in 1 .. k, NEW p \in order[i], NEW q \in order[i] PROVE e.owner[p] = e.owner[q]
    <3>1. CASE i = k
      BY <2>1, <2>5, <2>8, <3>1 DEF Joins
    <3>2. CASE i # k
      <4>1. i \in 1 .. k - 1
        BY <3>2
      <4>2. x.owner[p] = x.owner[q]
        BY <1>5, <2>1, <2>8, <4>1
      <4>3. order[i] \in L
        BY <1>1, <4>1
      <4>4. p \in DOMAIN x.owner /\ q \in DOMAIN x.owner
        BY <2>3, <2>8, <4>3 DEF Stores, Refolds
      <4> QED
        BY <2>5, <4>2, <4>4 DEF Joins
    <3> QED
      BY <3>1, <3>2
  <2> QED
    BY <2>1, <2>7, <2>8
<1> HIDE DEF Good
<1>6. Bad = {}
  <2> SUFFICES ASSUME Bad # {} PROVE FALSE
    OBVIOUS
  <2>1. PICK k \in Bad : \A j \in Bad : k <= j
    <3>1. Bad \subseteq Nat
      OBVIOUS
    <3> HIDE DEF Bad
    <3> QED
      BY <3>1, LeastOf
  <2>2. k \in 0 .. n /\ ~Good(k) /\ k # 0
    BY <1>4
  <2>3. k \in 1 .. n /\ k - 1 \in 0 .. n /\ k - 1 \notin Bad
    BY <2>1, <2>2
  <2> QED
    BY <1>5, <2>2, <2>3
<1>7. Good(n)
  BY <1>6
<1> QED
  BY <1>1, <1>2, <1>7 DEF Good

\* The rules' own merges.  What is joined stays so, nothing that a split keeps
\* apart is, and the candidates before the n-th are either one person or rest apart.
AutoStep(d, r, x) ==
  /\ DbOK(x.d) /\ Facts(d) \subseteq Facts(x.d) /\ DOMAIN x.d.owner = DOMAIN d.owner
  /\ \A p \in DOMAIN d.owner : x.d.owner[p] = x.now[d.owner[p]]
  /\ DOMAIN x.now = DOMAIN d.contacts
  /\ \A id \in DOMAIN d.contacts : x.now[id] \in DOMAIN x.d.contacts
  /\ \A l \in DOMAIN d.links : l \in DOMAIN x.d.links /\ x.d.links[l] = d.links[l]
  /\ \A l \in DOMAIN x.d.links : l \in DOMAIN d.links \/
       /\ x.d.links[l].kind = "merge"
       /\ \A p, q \in l : p \in DOMAIN d.owner /\ q \in DOMAIN d.owner /\ x.d.owner[p] = x.d.owner[q]
  /\ \A p, q \in DOMAIN d.owner :
       {p, q} \in Decisions(d, "split") /\ d.owner[p] # d.owner[q] => x.d.owner[p] # x.d.owner[q]

Settled(x, c) == x.now[c[1]] = x.now[c[2]] \/ splitBlocks(x.d, x.now[c[1]], x.now[c[2]])

LEMMA SplitsStay ==
  ASSUME NEW d, NEW r, NEW x, DbOK(d), AutoStep(d, r, x)
  PROVE  Decisions(x.d, "split") = Decisions(d, "split")
BY DEF AutoStep, Decisions

LEMMA AutoMergedSettles ==
  ASSUME NEW d, DbOK(d), NEW r, NEW x, AutoStep(d, r, x),
         NEW c \in Candidates(d, r), NEW C, C \subseteq Candidates(d, r), \A e \in C : Settled(x, e)
  PROVE  /\ AutoStep(d, r, AutoMerged(x, c))
         /\ \A e \in C \union {c} : Settled(AutoMerged(x, c), e)
<1>1. PICK a, b, y : a = x.now[c[1]] /\ b = x.now[c[2]] /\ y = AutoMerged(x, c)
  OBVIOUS
<1>2. \A e \in Candidates(d, r) : e[1] \in DOMAIN d.contacts /\ e[2] \in DOMAIN d.contacts
  BY DEF Candidates, PairsOfPeople
<1>3. a \in DOMAIN x.d.contacts /\ b \in DOMAIN x.d.contacts
  BY <1>1, <1>2 DEF AutoStep
<1>4. CASE a = b \/ splitBlocks(x.d, a, b)
  <2>1. y = x
    BY <1>1, <1>4 DEF AutoMerged
  <2> QED
    BY <1>1, <1>4, <2>1 DEF Settled
<1>5. CASE ~(a = b \/ splitBlocks(x.d, a, b))
  <2>1. PICK w, A, B, decision :
          /\ w = pickWinner(x.d, a, b) /\ decision = [kind |-> "merge", origin |-> "auto"]
          /\ A = contactPairs(x.d, a) /\ B = contactPairs(x.d, b)
    OBVIOUS
  <2>2. PICK s : s = [x.d EXCEPT !.links = recordLinks(@, decision, A, B)]
    OBVIOUS
  <2>3. PICK u : u = unionByRule(s, a, b)
    OBVIOUS
  <2>4. y = [d |-> u, now |-> [id \in DOMAIN x.now |-> IF x.now[id] \in {a, b} THEN w ELSE x.now[id]]]
    BY <1>1, <1>5, <2>1, <2>2, <2>3 DEF AutoMerged
  <2>5. y.d = u /\ y.now = [id \in DOMAIN x.now |-> IF x.now[id] \in {a, b} THEN w ELSE x.now[id]]
    BY <2>4
  <2>6. /\ DbOK(u) /\ Facts(x.d) \subseteq Facts(u)
        /\ Recorded(x.d, s, decision, A, B)
        /\ United(s, u, a, b) /\ pickWinner(s, a, b) = w
    <3>1. decision.kind = "merge" /\ DbOK(x.d) /\ a # b
      BY <1>5, <2>1 DEF AutoStep
    <3> QED
      BY <1>3, <2>1, <2>2, <2>3, <3>1, MergeKeeps
  <2>7. /\ w \in {a, b} /\ DOMAIN u.contacts = (DOMAIN x.d.contacts \ {a, b}) \union {w}
        /\ DOMAIN u.owner = DOMAIN x.d.owner
        /\ \A p \in DOMAIN x.d.owner : u.owner[p] = IF x.d.owner[p] \in {a, b} THEN w ELSE x.d.owner[p]
        /\ u.links = s.links
    BY <2>6 DEF United, Recorded
  <2>8. /\ \A l \in DOMAIN x.d.links : l \in DOMAIN u.links /\ u.links[l] = x.d.links[l]
        /\ \A l \in DOMAIN u.links : l \in DOMAIN x.d.links \/
             (u.links[l] = decision /\ \E p \in A, q \in B : l = {p, q})
    BY <2>1, <2>6, <2>7 DEF Recorded
  <2>9. Decisions(u, "split") = Decisions(x.d, "split")
    BY <2>1, <2>8 DEF Decisions
  <2>10. \A p \in DOMAIN d.owner : u.owner[p] = y.now[d.owner[p]]
    BY <2>5, <2>7 DEF AutoStep, DbOK, Typed
  <2>11. \A id \in DOMAIN d.contacts : y.now[id] \in DOMAIN u.contacts
    BY <2>5, <2>7 DEF AutoStep
  <2>12. \A l \in DOMAIN u.links : l \in DOMAIN d.links \/
           /\ u.links[l].kind = "merge"
           /\ \A p, q \in l : p \in DOMAIN d.owner /\ q \in DOMAIN d.owner /\ u.owner[p] = u.owner[q]
    <3> SUFFICES ASSUME NEW l \in DOMAIN u.links, l \notin DOMAIN d.links
                 PROVE  /\ u.links[l].kind = "merge"
                        /\ \A p, q \in l : p \in DOMAIN d.owner /\ q \in DOMAIN d.owner /\ u.owner[p] = u.owner[q]
      OBVIOUS
    <3>1. CASE l \in DOMAIN x.d.links
      <4>1. /\ x.d.links[l].kind = "merge"
            /\ \A p, q \in l : p \in DOMAIN d.owner /\ q \in DOMAIN d.owner /\ x.d.owner[p] = x.d.owner[q]
        BY <3>1 DEF AutoStep
      <4> QED
        BY <2>7, <2>8, <3>1, <4>1 DEF AutoStep
    <3>2. CASE l \notin DOMAIN x.d.links
      <4>1. PICK p \in A, q \in B : l = {p, q} /\ u.links[l] = decision
        BY <2>8, <3>2
      <4>2. p \in DOMAIN x.d.owner /\ q \in DOMAIN x.d.owner /\ u.owner[p] = w /\ u.owner[q] = w
        BY <2>1, <2>7, <4>1 DEF contactPairs
      <4> QED
        BY <2>1, <4>1, <4>2 DEF AutoStep
    <3> QED
      BY <3>1, <3>2
  <2>13. ASSUME NEW p \in DOMAIN d.owner, NEW q \in DOMAIN d.owner,
                {p, q} \in Decisions(d, "split"), d.owner[p] # d.owner[q]
         PROVE  u.owner[p] # u.owner[q]
    <3>1. x.d.owner[p] # x.d.owner[q] /\ {p, q} \in Decisions(x.d, "split")
      BY <2>13, SplitsStay DEF AutoStep
    <3>2. SUFFICES ASSUME u.owner[p] = u.owner[q] PROVE FALSE
      OBVIOUS
    <3>3. p \in DOMAIN x.d.owner /\ q \in DOMAIN x.d.owner
      BY DEF AutoStep
    <3>4. x.d.owner[p] \in {a, b} /\ x.d.owner[q] \in {a, b}
      BY <2>7, <3>1, <3>2, <3>3
    <3>5. splitBlocks(x.d, a, b)
      <4>1. PICK i, j : i = x.d.owner[p] /\ j = x.d.owner[q]
        OBVIOUS
      <4>2. p \in contactPairs(x.d, i) /\ q \in contactPairs(x.d, j)
        BY <3>3, <4>1 DEF contactPairs
      <4>3. {p, q} = {q, p}
        OBVIOUS
      <4>4. (i = a /\ j = b) \/ (i = b /\ j = a)
        BY <3>1, <3>4, <4>1
      <4> QED
        BY <3>1, <4>2, <4>3, <4>4 DEF splitBlocks
    <3> QED
      BY <1>5, <3>5
  <2>14. AutoStep(d, r, y)
    <3>1. Facts(d) \subseteq Facts(u) /\ DOMAIN u.owner = DOMAIN d.owner /\ DOMAIN y.now = DOMAIN d.contacts
      BY <2>5, <2>6, <2>7 DEF AutoStep
    <3>2. \A l \in DOMAIN d.links : l \in DOMAIN u.links /\ u.links[l] = d.links[l]
      BY <2>8 DEF AutoStep
    <3>3. y.d = u
      BY <2>5
    <3>4. /\ DbOK(y.d) /\ Facts(d) \subseteq Facts(y.d) /\ DOMAIN y.d.owner = DOMAIN d.owner
          /\ \A p \in DOMAIN d.owner : y.d.owner[p] = y.now[d.owner[p]]
          /\ DOMAIN y.now = DOMAIN d.contacts
          /\ \A id \in DOMAIN d.contacts : y.now[id] \in DOMAIN y.d.contacts
      BY <2>6, <2>10, <2>11, <3>1, <3>3
    <3>5. \A l \in DOMAIN y.d.links : l \in DOMAIN d.links \/
            /\ y.d.links[l].kind = "merge"
            /\ \A p, q \in l : p \in DOMAIN d.owner /\ q \in DOMAIN d.owner /\ y.d.owner[p] = y.d.owner[q]
      BY <2>12, <3>3
    <3>6. \A p, q \in DOMAIN d.owner :
            {p, q} \in Decisions(d, "split") /\ d.owner[p] # d.owner[q] => y.d.owner[p] # y.d.owner[q]
      BY <2>13, <3>3
    <3>7. \A l \in DOMAIN d.links : l \in DOMAIN y.d.links /\ y.d.links[l] = d.links[l]
      BY <3>2, <3>3
    <3> QED
      BY <3>4, <3>5, <3>6, <3>7 DEF AutoStep
  <2>15. ASSUME NEW e \in C \union {c} PROVE Settled(y, e)
    <3>1. PICK i, j : i = x.now[e[1]] /\ j = x.now[e[2]]
      OBVIOUS
    <3>2. e[1] \in DOMAIN x.now /\ e[2] \in DOMAIN x.now
      BY <1>2, <2>15 DEF AutoStep
    <3>3. PICK k, m : k = y.now[e[1]] /\ m = y.now[e[2]]
      OBVIOUS
    <3>4. k = (IF i \in {a, b} THEN w ELSE i) /\ m = (IF j \in {a, b} THEN w ELSE j)
      BY <2>5, <3>1, <3>2, <3>3
    <3>5. CASE i = j \/ e = c
      BY <1>1, <3>1, <3>3, <3>4, <3>5 DEF Settled
    <3>6. CASE i # j /\ e # c
      <4>1. splitBlocks(x.d, i, j)
        BY <2>15, <3>1, <3>6 DEF Settled
      <4>2. PICK p \in contactPairs(x.d, i), q \in contactPairs(x.d, j) : {p, q} \in Decisions(x.d, "split")
        BY <4>1 DEF splitBlocks
      <4>3. p \in contactPairs(u, k) /\ q \in contactPairs(u, m)
        BY <2>7, <3>4, <4>2 DEF contactPairs
      <4>4. splitBlocks(u, k, m)
        BY <2>9, <4>2, <4>3 DEF splitBlocks
      <4> QED
        BY <2>5, <3>3, <4>4 DEF Settled
    <3> QED
      BY <3>5, <3>6
  <2> QED
    BY <1>1, <2>14, <2>15
<1> QED
  BY <1>4, <1>5

LEMMA MatchIsMutual ==
  ASSUME NEW a, NEW b, NEW r
  PROVE  Match(a, b, r) <=> Match(b, a, r)
<1>1. \A x, y : PhonesMatch(x, y) <=> PhonesMatch(y, x)
  BY DEF PhonesMatch
<1> QED
  BY <1>1 DEF Match

LEMMA CandidatesFinite ==
  ASSUME NEW d, Typed(d), NEW r
  PROVE  IsFiniteSet(Candidates(d, r))
<1>1. IsFiniteSet((DOMAIN d.contacts) \X (DOMAIN d.contacts))
  BY FS_Product DEF Typed
<1>2. Candidates(d, r) \in SUBSET ((DOMAIN d.contacts) \X (DOMAIN d.contacts))
  BY DEF Candidates, PairsOfPeople
<1> QED
  BY <1>1, <1>2, FS_Subset

\* Step 2 of a reconcile takes every candidate in turn.
AutoRun(d, r, C, run, s, n) ==
  /\ n \in Nat /\ s \in [1 .. n -> C] /\ \A c \in C : \E i \in 1 .. n : s[i] = c
  /\ run[0] = [d |-> d, now |-> [id \in DOMAIN d.contacts |-> id]]
  /\ \A k \in 1 .. n : run[k] = AutoMerged(run[k - 1], s[k])
  /\ AutoMerge(d, r) = run[n].d

LEMMA AutoRuns ==
  ASSUME NEW d, DbOK(d), NEW r, NEW C, C = Candidates(d, r)
  PROVE  \E run, s, n : AutoRun(d, r, C, run, s, n)
<1>1. IsFiniteSet(C)
  BY CandidatesFinite DEF DbOK
<1>2. PICK R : R = {t \in C \X C : Before(t[1], t[2])}
  OBVIOUS
<1>3. \A c \in C : c[1] \in Nat /\ c[2] \in Nat /\ c = <<c[1], c[2]>>
  BY DEF Candidates, PairsOfPeople, DbOK, Typed
<1>4. \A c, e \in C : <<c, e>> \in R <=> Before(c, e)
  BY <1>2
<1>5. Orders(R, C)
  <2>1. \A e \in C : ~Before(e, e)
    BY <1>3 DEF Before
  <2>2. ASSUME NEW e \in C, NEW f \in C PROVE e = f \/ Before(e, f) \/ Before(f, e)
    <3>1. PICK i \in Nat, j \in Nat, k \in Nat, m \in Nat : i = e[1] /\ j = e[2] /\ k = f[1] /\ m = f[2]
      BY <1>3
    <3>2. e = <<i, j>> /\ f = <<k, m>>
      BY <1>3, <3>1
    <3> QED
      BY <3>1, <3>2 DEF Before
  <2>3. ASSUME NEW e \in C, NEW f \in C, NEW g \in C, Before(e, f), Before(f, g) PROVE Before(e, g)
    BY <1>3, <2>3 DEF Before
  <2> QED
    BY <1>4, <2>1, <2>2, <2>3 DEF Orders
<1>6. PICK n : n = Cardinality(C)
  OBVIOUS
<1>7. PICK s : s = InOrder(C)
  OBVIOUS
<1>8. ByRank(s, C, R)
  <2>1. \A c \in C : {x \in C : <<x, c>> \in R} = {x \in C : Before(x, c)}
    BY <1>4
  <2> DEFINE f(i) == CHOOSE c \in C : Cardinality({x \in C : Before(x, c)}) = i - 1
             g(i) == CHOOSE c \in C : Cardinality({x \in C : <<x, c>> \in R}) = i - 1
  <2>2. ASSUME NEW i PROVE f(i) = g(i)
    BY <2>1
  <2>3. s = [i \in 1 .. n |-> f(i)]
    BY <1>6, <1>7 DEF InOrder
  <2> HIDE DEF f, g
  <2>4. s = [i \in 1 .. n |-> g(i)]
    BY <2>2, <2>3
  <2> QED
    BY <1>6, <2>4 DEF ByRank, g
<1>9. n \in Nat /\ s \in [1 .. n -> C] /\ \A c \in C : \E i \in 1 .. n : s[i] = c
  BY <1>1, <1>5, <1>6, <1>8, RanksAre
<1>10. Len(s) = n
  BY <1>9
<1> DEFINE fold == CHOOSE fold : fold =
             [k \in 0 .. n |-> IF k = 0 THEN [d |-> d, now |-> [id \in DOMAIN d.contacts |-> id]]
                               ELSE AutoMerged(fold[k - 1], s[k])]
<1>11. fold = [k \in 0 .. n |-> IF k = 0 THEN [d |-> d, now |-> [id \in DOMAIN d.contacts |-> id]]
                                ELSE AutoMerged(fold[k - 1], s[k])]
  <2>1. PICK x : x = [d |-> d, now |-> [id \in DOMAIN d.contacts |-> id]]
    OBVIOUS
  <2>2. \E run : Runs(run, "auto", x, s, n)
    BY <1>9, RunsExist
  <2>3. \E run : run = [k \in 0 .. n |-> IF k = 0 THEN x ELSE AutoMerged(run[k - 1], s[k])]
    BY <2>2 DEF Runs, Step
  <2> QED
    BY <2>1, <2>3
<1>12. AutoMerge(d, r) = fold[n].d
  BY <1>7, <1>10 DEF AutoMerge
<1>13. PICK run : run = fold
  OBVIOUS
<1> HIDE DEF fold
<1>14. run[0] = [d |-> d, now |-> [id \in DOMAIN d.contacts |-> id]]
  BY <1>9, <1>11, <1>13
<1>15. ASSUME NEW k \in 1 .. n PROVE run[k] = AutoMerged(run[k - 1], s[k])
  <2>1. k \in 0 .. n /\ k # 0
    BY <1>9
  <2> DEFINE body(j) == IF j = 0 THEN [d |-> d, now |-> [id \in DOMAIN d.contacts |-> id]]
                        ELSE AutoMerged(run[j - 1], s[j])
  <2>2. run = [j \in 0 .. n |-> body(j)]
    BY <1>11, <1>13
  <2>3. body(k) = AutoMerged(run[k - 1], s[k])
    BY <2>1
  <2> HIDE DEF body
  <2> QED
    BY <2>1, <2>2, <2>3
<1>16. AutoRun(d, r, C, run, s, n)
  BY <1>9, <1>12, <1>13, <1>14, <1>15 DEF AutoRun
<1> QED
  BY <1>16

\* What the rules make of the people.
ByRules(d, r, e) ==
  /\ DbOK(e) /\ Facts(d) \subseteq Facts(e) /\ DOMAIN e.owner = DOMAIN d.owner
  /\ \A p, q \in DOMAIN d.owner : d.owner[p] = d.owner[q] => e.owner[p] = e.owner[q]
  /\ \A l \in DOMAIN d.links : l \in DOMAIN e.links /\ e.links[l] = d.links[l]
  /\ \A l \in DOMAIN e.links : l \in DOMAIN d.links \/
       /\ e.links[l].kind = "merge"
       /\ \A p, q \in l : p \in DOMAIN d.owner /\ q \in DOMAIN d.owner /\ e.owner[p] = e.owner[q]
  /\ \A p, q \in DOMAIN d.owner :
       {p, q} \in Decisions(d, "split") /\ d.owner[p] # d.owner[q] => e.owner[p] # e.owner[q]
  /\ \A c \in Candidates(e, r) : splitBlocks(e, c[1], c[2])

LEMMA AutoIs ==
  ASSUME NEW d, DbOK(d), NEW r
  PROVE  ByRules(d, r, AutoMerge(d, r))
<1>1. PICK C : C = Candidates(d, r)
  OBVIOUS
<1>2. PICK run, s, n : AutoRun(d, r, C, run, s, n)
  BY <1>1, AutoRuns
<1>3. /\ n \in Nat /\ s \in [1 .. n -> C] /\ \A c \in C : \E i \in 1 .. n : s[i] = c
      /\ run[0] = [d |-> d, now |-> [id \in DOMAIN d.contacts |-> id]]
      /\ \A k \in 1 .. n : run[k] = AutoMerged(run[k - 1], s[k])
      /\ AutoMerge(d, r) = run[n].d
  BY <1>2 DEF AutoRun
<1> DEFINE Good(k) == AutoStep(d, r, run[k]) /\ \A i \in 1 .. k : Settled(run[k], s[i])
           Bad == {k \in 0 .. n : ~Good(k)}
<1>4. Good(0)
  BY <1>3 DEF AutoStep, DbOK, Typed
<1>5. ASSUME NEW k \in 1 .. n, Good(k - 1) PROVE Good(k)
  <2>1. PICK x, y, c : x = run[k - 1] /\ y = run[k] /\ c = s[k]
    OBVIOUS
  <2>2. PICK D : D = {s[i] : i \in 1 .. k - 1}
    OBVIOUS
  <2>3. c \in Candidates(d, r) /\ D \subseteq Candidates(d, r) /\ y = AutoMerged(x, c)
    BY <1>1, <1>3, <1>3, <2>1, <2>2
  <2>4. AutoStep(d, r, x) /\ \A e \in D : Settled(x, e)
    BY <1>5, <2>1, <2>2
  <2>5. AutoStep(d, r, y) /\ \A e \in D \union {c} : Settled(y, e)
    BY <2>3, <2>4, AutoMergedSettles
  <2>6. \A i \in 1 .. k : s[i] \in D \union {c}
    BY <1>3, <2>1, <2>2
  <2> QED
    BY <2>1, <2>5, <2>6
<1> HIDE DEF Good
<1>6. Bad = {}
  <2> SUFFICES ASSUME Bad # {} PROVE FALSE
    OBVIOUS
  <2>1. PICK k \in Bad : \A j \in Bad : k <= j
    <3>1. Bad \subseteq Nat
      OBVIOUS
    <3> HIDE DEF Bad
    <3> QED
      BY <3>1, LeastOf
  <2>2. k \in 0 .. n /\ ~Good(k) /\ k # 0
    BY <1>4
  <2>3. k \in 1 .. n /\ k - 1 \in 0 .. n /\ k - 1 \notin Bad
    BY <1>3, <2>1, <2>2
  <2> QED
    BY <1>5, <2>2, <2>3
<1>7. PICK x : x = run[n]
  OBVIOUS
<1>8. AutoStep(d, r, x) /\ \A c \in C : Settled(x, c)
  <2>1. Good(n)
    BY <1>3, <1>6
  <2>2. AutoStep(d, r, x) /\ \A i \in 1 .. n : Settled(x, s[i])
    BY <1>7, <2>1 DEF Good
  <2> QED
    BY <1>3, <2>2
<1>9. PICK e : e = x.d /\ AutoMerge(d, r) = e
  BY <1>3, <1>7
<1>10. \A p, q \in DOMAIN d.owner : d.owner[p] = d.owner[q] => e.owner[p] = e.owner[q]
  BY <1>8, <1>9 DEF AutoStep
<1>11. ASSUME NEW c \in Candidates(e, r) PROVE splitBlocks(e, c[1], c[2])
  <2>1. PICK p \in contactPairs(e, c[1]), q \in contactPairs(e, c[2]) : Match(p[2], q[2], r)
    BY <1>11 DEF Candidates
  <2>2. c[1] # c[2]
    BY <1>8, <1>9 DEF Candidates, PairsOfPeople, AutoStep, DbOK, Typed
  <2>3. p \in DOMAIN d.owner /\ q \in DOMAIN d.owner /\ e.owner[p] = c[1] /\ e.owner[q] = c[2]
    BY <1>8, <1>9, <2>1 DEF contactPairs, AutoStep
  <2>4. PICK i \in DOMAIN d.contacts, j \in DOMAIN d.contacts : i = d.owner[p] /\ j = d.owner[q]
    BY <2>3 DEF DbOK, Typed
  <2>5. i \in Nat /\ j \in Nat
    BY DEF DbOK, Typed
  <2>6. x.now[i] = c[1] /\ x.now[j] = c[2] /\ i # j
    BY <1>8, <1>9, <2>2, <2>3, <2>4 DEF AutoStep
  <2>7. p \in contactPairs(d, i) /\ q \in contactPairs(d, j)
    BY <2>3, <2>4 DEF contactPairs
  <2>8. CASE i < j
    <3>1. <<i, j>> \in Candidates(d, r)
      BY <2>1, <2>7, <2>8 DEF Candidates, PairsOfPeople
    <3> QED
      BY <1>1, <1>8, <1>9, <2>2, <2>6, <3>1 DEF Settled
  <2>9. CASE j < i
    <3>1. Match(q[2], p[2], r)
      BY <2>1, MatchIsMutual
    <3>2. <<j, i>> \in Candidates(d, r)
      BY <2>7, <2>9, <3>1 DEF Candidates, PairsOfPeople
    <3>3. splitBlocks(e, c[2], c[1])
      BY <1>1, <1>8, <1>9, <2>2, <2>6, <3>2 DEF Settled
    <3>4. \A y, z : {y, z} = {z, y}
      OBVIOUS
    <3> QED
      BY <3>3, <3>4 DEF splitBlocks
  <2> QED
    BY <2>5, <2>6, <2>8, <2>9
<1>12. ByRules(d, r, e)
  <2>1. /\ DbOK(e) /\ Facts(d) \subseteq Facts(e) /\ DOMAIN e.owner = DOMAIN d.owner
        /\ \A l \in DOMAIN d.links : l \in DOMAIN e.links /\ e.links[l] = d.links[l]
        /\ \A l \in DOMAIN e.links : l \in DOMAIN d.links \/
             /\ e.links[l].kind = "merge"
             /\ \A p, q \in l : p \in DOMAIN d.owner /\ q \in DOMAIN d.owner /\ e.owner[p] = e.owner[q]
        /\ \A p, q \in DOMAIN d.owner :
             {p, q} \in Decisions(d, "split") /\ d.owner[p] # d.owner[q] => e.owner[p] # e.owner[q]
    BY <1>8, <1>9 DEF AutoStep
  <2> QED
    BY <1>10, <1>11, <2>1 DEF ByRules
<1> QED
  BY <1>9, <1>12

\* They have nothing to do when they have done it.
LEMMA AutoRests ==
  ASSUME NEW d, DbOK(d), NEW r, \A c \in Candidates(d, r) : splitBlocks(d, c[1], c[2])
  PROVE  AutoMerge(d, r) = d
<1>1. PICK C : C = Candidates(d, r)
  OBVIOUS
<1>2. PICK run, s, n : AutoRun(d, r, C, run, s, n)
  BY <1>1, AutoRuns
<1>3. PICK x : x = [d |-> d, now |-> [id \in DOMAIN d.contacts |-> id]]
  OBVIOUS
<1>4. /\ n \in Nat /\ s \in [1 .. n -> C] /\ AutoMerge(d, r) = run[n].d
      /\ run[0] = x /\ \A k \in 1 .. n : run[k] = AutoMerged(run[k - 1], s[k])
  BY <1>2, <1>3 DEF AutoRun
<1>5. \A c \in C : AutoMerged(x, c) = x
  <2> SUFFICES ASSUME NEW c \in C PROVE AutoMerged(x, c) = x
    OBVIOUS
  <2>1. c[1] \in DOMAIN d.contacts /\ c[2] \in DOMAIN d.contacts
    BY <1>1 DEF Candidates, PairsOfPeople
  <2>2. x.now[c[1]] = c[1] /\ x.now[c[2]] = c[2] /\ x.d = d
    BY <1>3, <2>1
  <2>3. splitBlocks(d, c[1], c[2])
    BY <1>1
  <2> QED
    BY <2>2, <2>3 DEF AutoMerged
<1> DEFINE Bad == {k \in 0 .. n : run[k] # x}
<1>6. Bad = {}
  <2> SUFFICES ASSUME Bad # {} PROVE FALSE
    OBVIOUS
  <2>1. PICK k \in Bad : \A j \in Bad : k <= j
    <3>1. Bad \subseteq Nat
      OBVIOUS
    <3> HIDE DEF Bad
    <3> QED
      BY <3>1, LeastOf
  <2>2. k \in 1 .. n /\ run[k] # x
    BY <1>4
  <2>3. k - 1 \in 0 .. n /\ k - 1 \notin Bad
    BY <1>4, <2>1, <2>2
  <2>4. run[k - 1] = x /\ s[k] \in C
    BY <1>4, <2>2, <2>3
  <2> QED
    BY <1>4, <1>5, <2>2, <2>4
<1>7. run[n] = x
  BY <1>4, <1>6
<1> QED
  BY <1>3, <1>4, <1>7

LEMMA RefoldNone ==
  ASSUME NEW d
  PROVE  Refold(d, <<>>) = d
<1> DEFINE fold == CHOOSE fold : fold = [n \in 0 .. 0 |-> IF n = 0 THEN d ELSE Refolded(fold[n - 1], (<<>>)[n])]
<1>1. \E run : run = [n \in 0 .. 0 |-> IF n = 0 THEN d ELSE Refolded(run[n - 1], (<<>>)[n])]
  <2>1. \E run : Runs(run, "refold", d, <<>>, 0)
    BY RunsExist
  <2> QED
    BY <2>1 DEF Runs, Step
<1>2. fold = [n \in 0 .. 0 |-> IF n = 0 THEN d ELSE Refolded(fold[n - 1], (<<>>)[n])]
  BY <1>1
<1>3. Len(<<>>) = 0
  OBVIOUS
<1>4. Refold(d, <<>>) = fold[0]
  BY <1>3 DEF Refold
<1> HIDE DEF fold
<1> QED
  BY <1>2, <1>4

\* What a reconcile, by the rules r, has made of d when it is e.
Reconciles(d, r, e) ==
  /\ Applied(e, r) = {} /\ Reconciled(e, r, <<>>) = e
  /\ \A p, q \in DOMAIN d.owner :
       LET decided(kind) == {p, q} \in DOMAIN d.links /\ d.links[{p, q}] = [kind |-> kind, origin |-> "manual"]
           together == e.owner[p] = e.owner[q]
       IN /\ decided("merge") => together
          /\ decided("split") /\ together => Chained(p, q, Stored(d, r))

\* After the stored merges, m, and after the rules, e.
LEMMA ReconcileIs ==
  ASSUME NEW d, DbOK(d), NEW r, NEW order \in Seq(Applied(d, r)), ToSet(order) = Applied(d, r),
         NEW e, e = Reconciled(d, r, order)
  PROVE  DbOK(e) /\ Facts(d) \subseteq Facts(e) /\ Reconciles(d, r, e)
<1>1. PICK m, L : m = Refold(d, order) /\ L = Applied(d, r)
  OBVIOUS
<1>2. Lists(order, L)
  <2>1. DOMAIN order = 1 .. Len(order) /\ Len(order) \in Nat
    OBVIOUS
  <2> QED
    BY <1>1, <2>1 DEF ToSet, Lists
<1>3. \A l \in L : Stores(d, l)
  BY <1>1 DEF Applied, Decisions, Stores, Owner
<1>4. Refolds(d, m, L) /\ \A l \in L : \A p, q \in l : m.owner[p] = m.owner[q]
  BY <1>1, <1>2, <1>3, RefoldIs
<1>5. /\ DbOK(e) /\ Facts(d) \subseteq Facts(e) /\ DOMAIN e.owner = DOMAIN d.owner
      /\ \A p, q \in DOMAIN d.owner : m.owner[p] = m.owner[q] => e.owner[p] = e.owner[q]
      /\ \A l \in DOMAIN d.links : l \in DOMAIN e.links /\ e.links[l] = d.links[l]
      /\ \A l \in DOMAIN e.links : l \in DOMAIN d.links \/ \A p, q \in l : e.owner[p] = e.owner[q]
      /\ \A p, q \in DOMAIN d.owner :
           {p, q} \in Decisions(d, "split") /\ e.owner[p] = e.owner[q] => m.owner[p] = m.owner[q]
      /\ Reconciled(e, r, <<>>) = e
  <2>1. CASE r.auto
    <3>1. e = AutoMerge(m, r)
      BY <1>1, <2>1 DEF Reconciled
    <3>2. ByRules(m, r, e)
      BY <1>4, <3>1, AutoIs DEF Refolds
    <3>3. Reconciled(e, r, <<>>) = e
      BY <2>1, <3>2, RefoldNone, AutoRests DEF Reconciled, ByRules
    <3>4. Decisions(d, "split") = Decisions(m, "split")
      BY <1>4 DEF Refolds, Decisions
    <3> QED
      BY <1>4, <3>2, <3>3, <3>4 DEF Refolds, ByRules
  <2>2. CASE ~r.auto
    <3>1. e = m
      BY <1>1, <2>2 DEF Reconciled
    <3>2. Reconciled(e, r, <<>>) = e
      BY <2>2, RefoldNone DEF Reconciled
    <3> QED
      BY <1>4, <3>1, <3>2 DEF Refolds
  <2> QED
    BY <2>1, <2>2
<1>6. \A p, q \in DOMAIN d.owner : d.owner[p] = d.owner[q] => e.owner[p] = e.owner[q]
  BY <1>4, <1>5 DEF Refolds
<1>7. \A p : Owner(d, p) # 0 <=> p \in DOMAIN d.owner
  BY DEF Owner, DbOK, Typed
<1>8. \A p : Owner(e, p) # 0 <=> p \in DOMAIN d.owner
  BY <1>5 DEF Owner, DbOK, Typed
<1>9. ASSUME NEW l \in Decisions(d, "merge"), r.auto \/ d.links[l].origin = "manual", l \subseteq DOMAIN d.owner,
             NEW p \in l, NEW q \in l
      PROVE  e.owner[p] = e.owner[q]
  <2>1. CASE l \in L
    BY <1>4, <1>5, <1>9, <2>1
  <2>2. CASE l \notin L
    <3>1. Owner(d, p) = Owner(d, q)
      BY <1>1, <1>7, <1>9, <2>2 DEF Applied
    <3>2. d.owner[p] = d.owner[q]
      BY <1>9, <3>1 DEF Owner
    <3> QED
      BY <1>6, <1>9, <3>2
  <2> QED
    BY <2>1, <2>2
<1>10. Applied(e, r) = {}
  <2> SUFFICES ASSUME NEW l \in Applied(e, r) PROVE FALSE
    OBVIOUS
  <2>1. /\ l \in DOMAIN e.links /\ e.links[l].kind = "merge" /\ (r.auto \/ e.links[l].origin = "manual")
        /\ l \subseteq DOMAIN d.owner
    BY <1>8 DEF Applied, Decisions
  <2>2. PICK p \in l, q \in l : Owner(e, p) # Owner(e, q)
    BY DEF Applied
  <2>3. e.owner[p] # e.owner[q]
    BY <1>5, <2>1, <2>2 DEF Owner
  <2>4. l \in DOMAIN d.links /\ e.links[l] = d.links[l]
    BY <1>5, <2>1, <2>3
  <2>5. l \in Decisions(d, "merge") /\ (r.auto \/ d.links[l].origin = "manual")
    BY <2>1, <2>4 DEF Decisions
  <2> QED
    BY <1>9, <2>1, <2>3, <2>5
<1>11. ASSUME NEW p \in DOMAIN d.owner, NEW q \in DOMAIN d.owner, {p, q} \in DOMAIN d.links,
              d.links[{p, q}] = [kind |-> "merge", origin |-> "manual"]
       PROVE  e.owner[p] = e.owner[q]
  <2>1. PICK l : l = {p, q}
    OBVIOUS
  <2>2. l \in Decisions(d, "merge") /\ d.links[l].origin = "manual" /\ l \subseteq DOMAIN d.owner
    BY <1>11, <2>1 DEF Decisions
  <2> QED
    BY <1>9, <2>1, <2>2
<1>12. ASSUME NEW p \in DOMAIN d.owner, NEW q \in DOMAIN d.owner, {p, q} \in DOMAIN d.links,
              d.links[{p, q}] = [kind |-> "split", origin |-> "manual"], e.owner[p] = e.owner[q]
       PROVE  Chained(p, q, Stored(d, r))
  <2>1. {p, q} \in Decisions(d, "split")
    BY <1>12 DEF Decisions
  <2>2. m.owner[p] = m.owner[q]
    BY <1>5, <1>12, <2>1
  <2> SUFFICES ASSUME NEW S, p \in S, q \notin S
               PROVE  \E l \in Stored(d, r) : l \intersect S # {} /\ l \ S # {}
    BY DEF Chained
  <2>3. ~Closed(d, L, S)
    BY <1>4, <2>2 DEF Refolds
  <2>4. PICK x \in DOMAIN d.owner, y \in DOMAIN d.owner :
          x \in S /\ y \notin S /\ (d.owner[x] = d.owner[y] \/ \E l \in L : x \in l /\ y \in l)
    BY <2>3 DEF Closed
  <2>5. CASE d.owner[x] = d.owner[y]
    <3>1. PICK id : id = d.owner[x]
      OBVIOUS
    <3>2. id \in DOMAIN d.contacts /\ x \in contactPairs(d, id) /\ y \in contactPairs(d, id)
      BY <2>5, <3>1 DEF contactPairs, DbOK, Typed
    <3>3. contactPairs(d, id) \in Stored(d, r)
      BY <3>2 DEF Stored
    <3> QED
      BY <2>4, <3>2, <3>3
  <2>6. CASE \E l \in L : x \in l /\ y \in l
    BY <1>1, <2>4, <2>6 DEF Stored
  <2> QED
    BY <2>4, <2>5, <2>6
<1>13. Reconciles(d, r, e)
  BY <1>5, <1>10, <1>11, <1>12 DEF Reconciles
<1> QED
  BY <1>5, <1>13

\* People who have nothing left go.
LEMMA DeleteKeeps ==
  ASSUME NEW d, Typed(d), HeldTogether(d), NEW ids, \A id \in ids : Orphan(d, id),
         \A id \in DOMAIN d.contacts \ d.left : Orphan(d, id) => id \in ids
  PROVE  DbOK(Delete(d, ids))
<1>1. PICK e : e = Delete(d, ids)
  OBVIOUS
<1>2. /\ DOMAIN e = Fields /\ e.owner = d.owner /\ e.convs = d.convs /\ e.links = d.links /\ e.renamed = d.renamed
      /\ DOMAIN e.contacts = DOMAIN d.contacts \ ids /\ DOMAIN e.facts = DOMAIN d.facts \ ids
      /\ e.left = d.left \ ids
  BY <1>1 DEF Delete, Without, Typed, Fields
<1>3. Typed(e)
  <2>1. DOMAIN e.contacts \in SUBSET (DOMAIN d.contacts)
    BY <1>2
  <2>2. IsFiniteSet(DOMAIN e.contacts)
    BY <2>1, FS_Subset DEF Typed
  <2>3. \A p \in DOMAIN e.owner : e.owner[p] \in DOMAIN e.contacts
    BY <1>2 DEF Typed, Orphan, contactPairs
  <2>4. ASSUME NEW i \in DOMAIN e.convs
        PROVE  DOMAIN e.convs[i] = Columns /\ e.convs[i].contact \in DOMAIN e.contacts \union {0}
    BY <1>2 DEF Typed, Orphan
  <2>5. DOMAIN e.contacts \subseteq Nat \ {0} /\ DOMAIN e.facts = DOMAIN e.contacts /\ e.left \subseteq DOMAIN e.contacts
    BY <1>2 DEF Typed
  <2> QED
    BY <1>2, <2>2, <2>3, <2>4, <2>5 DEF Typed
<1>4. HeldTogether(e)
  BY <1>2 DEF HeldTogether
<1>5. ASSUME NEW id \in DOMAIN e.contacts \ e.left PROVE ~Orphan(e, id)
  BY <1>2 DEF Orphan, contactPairs
<1> QED
  BY <1>1, <1>3, <1>4, <1>5 DEF DbOK, Peopled

\* The repair of d, as far as it has come: whoever has nothing is touched.
Repairs(d, x) ==
  /\ Typed(x.d) /\ HeldTogether(x.d) /\ DOMAIN x.d.convs = DOMAIN d.convs
  /\ \A id \in DOMAIN x.d.contacts \ x.d.left : Orphan(x.d, id) => id \in x.touched

LEMMA RepairConversationKeeps ==
  ASSUME NEW d, NEW x, Repairs(d, x), DOMAIN x = {"d", "touched"}, NEW i \in DOMAIN d.convs
  PROVE  Repairs(d, RepairConversation(x, i)) /\ DOMAIN RepairConversation(x, i) = {"d", "touched"}
<1>1. PICK conv, identity, from, y :
        /\ conv = x.d.convs[i] /\ identity = DeriveIdentity(conv.name, None, conv.group)
        /\ from = <<conv.source, conv.name>> /\ y = RepairConversation(x, i)
  OBVIOUS
<1>2. PICK to : to = <<conv.source, IF handleShaped(conv.handle) THEN Normalize(conv.handle) ELSE identity.id>>
  OBVIOUS
<1>3. PICK mine \in BOOLEAN : mine <=> Owner(x.d, from) = conv.contact /\ conv.contact # 0
  OBVIOUS
<1>4. i \in DOMAIN x.d.convs /\ DOMAIN x.d.convs[i] = Columns /\ conv.contact \in DOMAIN x.d.contacts \union {0}
  BY <1>1 DEF Repairs, Typed
<1>5. CASE identity.group /\ (~conv.group \/ conv.contact # 0)
  <2>1. y = [d |-> [x.d EXCEPT
                      !.convs[i] = [@ EXCEPT !.group = TRUE, !.contact = 0],
                      !.owner = IF mine THEN Without(@, {from}) ELSE @],
             touched |-> x.touched \union ({conv.contact} \ {0})]
    BY <1>1, <1>2, <1>3, <1>5 DEF RepairConversation
  <2>2. PICK e : e = y.d
    OBVIOUS
  <2>3. /\ DOMAIN e = Fields /\ e.contacts = x.d.contacts /\ e.facts = x.d.facts /\ e.links = x.d.links
        /\ e.renamed = x.d.renamed /\ e.left = x.d.left /\ DOMAIN e.convs = DOMAIN x.d.convs
        /\ \A j \in DOMAIN x.d.convs : j # i => e.convs[j] = x.d.convs[j]
        /\ DOMAIN e.convs[i] = Columns /\ e.convs[i].contact = 0
        /\ e.owner = IF mine THEN Without(x.d.owner, {from}) ELSE x.d.owner
    BY <1>4, <2>1, <2>2 DEF Repairs, Typed, Fields, Columns
  <2>4. /\ DOMAIN e.owner = IF mine THEN DOMAIN x.d.owner \ {from} ELSE DOMAIN x.d.owner
        /\ \A p \in DOMAIN e.owner : e.owner[p] = x.d.owner[p]
    BY <2>3 DEF Without
  <2>5. Typed(e)
    <3>1. \A p \in DOMAIN e.owner : e.owner[p] \in DOMAIN e.contacts
      BY <2>3, <2>4 DEF Repairs, Typed
    <3>2. ASSUME NEW j \in DOMAIN e.convs
          PROVE  DOMAIN e.convs[j] = Columns /\ e.convs[j].contact \in DOMAIN e.contacts \union {0}
      BY <2>3 DEF Repairs, Typed
    <3> QED
      BY <2>3, <3>1, <3>2 DEF Repairs, Typed
  <2>6. HeldTogether(e)
    <3> SUFFICES ASSUME NEW p \in DOMAIN e.owner, NEW q \in DOMAIN e.owner, e.owner[p] = e.owner[q],
                        NEW S, p \in S, q \notin S
                 PROVE  \E l \in DOMAIN e.links \union e.renamed : l \intersect S # {} /\ l \ S # {}
      BY DEF HeldTogether
    <3>1. p \in DOMAIN x.d.owner /\ q \in DOMAIN x.d.owner /\ x.d.owner[p] = x.d.owner[q]
      BY <2>4
    <3>2. \E l \in DOMAIN x.d.links \union x.d.renamed : l \intersect S # {} /\ l \ S # {}
      BY <3>1 DEF Repairs, HeldTogether
    <3> QED
      BY <2>3, <3>2
  <2>7. ASSUME NEW id \in DOMAIN e.contacts \ e.left, Orphan(e, id) PROVE id \in y.touched
    <3>1. y.touched = x.touched \union ({conv.contact} \ {0})
      BY <2>1
    <3>2. CASE id = conv.contact
      BY <2>3, <3>1, <3>2 DEF Repairs, Typed
    <3>3. CASE id # conv.contact
      <4>1. \A j \in DOMAIN x.d.convs : x.d.convs[j].contact # id
        BY <1>1, <2>3, <2>7, <3>3 DEF Orphan
      <4>2. mine => from \notin contactPairs(x.d, id)
        BY <1>3, <3>3 DEF contactPairs, Owner
      <4>3. contactPairs(x.d, id) \subseteq contactPairs(e, id)
        BY <2>4, <4>2 DEF contactPairs
      <4>4. Orphan(x.d, id)
        BY <2>7, <4>1, <4>3 DEF Orphan
      <4> QED
        BY <2>3, <3>1, <4>4 DEF Repairs
    <3> QED
      BY <3>2, <3>3
  <2>8. DOMAIN y = {"d", "touched"} /\ DOMAIN e.convs = DOMAIN d.convs
    BY <2>1, <2>3 DEF Repairs
  <2>9. Repairs(d, y)
    BY <2>2, <2>5, <2>6, <2>7, <2>8 DEF Repairs
  <2> QED
    BY <1>1, <2>8, <2>9
<1>6. CASE ~identity.group /\ mine /\ from # to /\ to \notin DOMAIN x.d.owner
  <2>1. y = [x EXCEPT !.d = Renamed(@, from, to)]
    BY <1>1, <1>2, <1>3, <1>6 DEF RepairConversation
  <2>2. PICK e : e = y.d
    OBVIOUS
  <2>4. from \in DOMAIN x.d.owner /\ x.d.owner[from] = conv.contact
    BY <1>3, <1>6 DEF Owner
  <2>3. /\ DOMAIN e = Fields /\ e.contacts = x.d.contacts /\ e.facts = x.d.facts /\ e.links = x.d.links
        /\ e.left = x.d.left /\ e.convs = x.d.convs /\ e.renamed = x.d.renamed \union {{from, to}}
        /\ e.owner = [p \in (DOMAIN x.d.owner \ {from}) \union {to} |-> IF p = to THEN conv.contact ELSE x.d.owner[p]]
        /\ y.touched = x.touched /\ DOMAIN y = {"d", "touched"}
    <3>1. e = Renamed(x.d, from, to) /\ y.touched = x.touched /\ DOMAIN y = {"d", "touched"}
      BY <2>1, <2>2
    <3>2. DOMAIN x.d = Fields
      BY DEF Repairs, Typed
    <3> QED
      BY <2>4, <3>1, <3>2 DEF Fields, Renamed
  <2>5. Typed(e)
    <3>1. \A p \in DOMAIN e.owner : e.owner[p] \in DOMAIN e.contacts
      BY <2>3, <2>4 DEF Repairs, Typed
    <3> QED
      BY <2>3, <3>1 DEF Repairs, Typed
  <2>6. HeldTogether(e)
    <3> SUFFICES ASSUME NEW p \in DOMAIN e.owner, NEW q \in DOMAIN e.owner, e.owner[p] = e.owner[q],
                        NEW S, p \in S, q \notin S
                 PROVE  \E l \in DOMAIN e.links \union e.renamed : l \intersect S # {} /\ l \ S # {}
      BY DEF HeldTogether
    <3> DEFINE was(z) == IF z = to THEN from ELSE z
    <3>1. \A z \in DOMAIN e.owner : was(z) \in DOMAIN x.d.owner /\ x.d.owner[was(z)] = e.owner[z]
      BY <2>3, <2>4
    <3>2. CASE was(p) \in S /\ was(q) \notin S
      <4>1. PICK s, t : s = was(p) /\ t = was(q)
        OBVIOUS
      <4>2. s \in DOMAIN x.d.owner /\ t \in DOMAIN x.d.owner /\ x.d.owner[s] = x.d.owner[t] /\ s \in S /\ t \notin S
        BY <3>1, <3>2, <4>1
      <4>3. \E l \in DOMAIN x.d.links \union x.d.renamed : l \intersect S # {} /\ l \ S # {}
        BY <4>2 DEF Repairs, HeldTogether
      <4> QED
        BY <2>3, <4>3
    <3>3. CASE was(p) \notin S
      <4>1. p = to /\ from \notin S /\ {from, to} \in e.renamed
        BY <2>3, <3>3
      <4> QED
        BY <4>1
    <3>4. CASE was(q) \in S
      <4>1. q = to /\ from \in S /\ {from, to} \in e.renamed
        BY <2>3, <3>4
      <4> QED
        BY <4>1
    <3> QED
      BY <3>2, <3>3, <3>4
  <2>7. ASSUME NEW id \in DOMAIN e.contacts \ e.left, Orphan(e, id) PROVE id \in y.touched
    <3>1. contactPairs(e, id) = {} /\ \A j \in DOMAIN x.d.convs : x.d.convs[j].contact # id
      BY <2>3, <2>7 DEF Orphan
    <3>2. id # conv.contact
      BY <1>1, <1>4, <3>1
    <3>3. contactPairs(x.d, id) \subseteq contactPairs(e, id)
      BY <1>6, <2>3, <2>4, <3>2 DEF contactPairs
    <3>4. Orphan(x.d, id)
      BY <3>1, <3>3 DEF Orphan
    <3> QED
      BY <2>3, <3>4 DEF Repairs
  <2> QED
    BY <1>1, <2>2, <2>3, <2>5, <2>6, <2>7 DEF Repairs
<1>7. CASE /\ ~(identity.group /\ (~conv.group \/ conv.contact # 0))
           /\ ~(~identity.group /\ mine /\ from # to /\ to \notin DOMAIN x.d.owner)
  <2>1. y = x
    BY <1>1, <1>2, <1>3, <1>7 DEF RepairConversation
  <2> QED
    BY <1>1, <2>1
<1> QED
  BY <1>5, <1>6, <1>7

LEMMA RepairedKeeps ==
  ASSUME NEW d, DbOK(d)
  PROVE  DbOK(Repaired(d))
<1>1. PICK n \in Nat : n = LastRow(d.convs)
  BY RowAfter DEF DbOK, Typed
<1> DEFINE fold == CHOOSE fold : fold =
             [k \in 0 .. n |-> IF k = 0 THEN [d |-> d, touched |-> {}]
                               ELSE IF k \in DOMAIN d.convs THEN RepairConversation(fold[k - 1], k) ELSE fold[k - 1]]
<1>2. fold = [k \in 0 .. n |-> IF k = 0 THEN [d |-> d, touched |-> {}]
                               ELSE IF k \in DOMAIN d.convs THEN RepairConversation(fold[k - 1], k) ELSE fold[k - 1]]
  <2>1. PICK run : Runs(run, "repair", [d |-> d, touched |-> {}], d, n)
    BY RunsExist
  <2>2. ASSUME NEW x, NEW k PROVE Step("repair", x, d, k) = IF k \in DOMAIN d.convs THEN RepairConversation(x, k) ELSE x
    BY DEF Step
  <2>3. run = [k \in 0 .. n |-> IF k = 0 THEN [d |-> d, touched |-> {}] ELSE Step("repair", run[k - 1], d, k)]
    BY <2>1 DEF Runs
  <2>4. run = [k \in 0 .. n |-> IF k = 0 THEN [d |-> d, touched |-> {}]
                                ELSE IF k \in DOMAIN d.convs THEN RepairConversation(run[k - 1], k) ELSE run[k - 1]]
    BY <2>2, <2>3
  <2> QED
    BY <2>4
<1>3. PICK x : x = fold[n] /\ Repaired(d) = Delete(x.d, {id \in x.touched : Orphan(x.d, id)})
  BY <1>1 DEF Repaired
<1> HIDE DEF fold
<1> DEFINE Good(k) == Repairs(d, fold[k]) /\ DOMAIN fold[k] = {"d", "touched"}
           Bad == {k \in 0 .. n : ~Good(k)}
<1>4. Good(0)
  <2>1. fold[0] = [d |-> d, touched |-> {}]
    BY <1>2
  <2> QED
    BY <2>1 DEF Repairs, DbOK, Peopled
<1>5. ASSUME NEW k \in 1 .. n, Good(k - 1) PROVE Good(k)
  <2>1. k \in 0 .. n /\ k # 0
    OBVIOUS
  <2>2. fold[k] = IF k \in DOMAIN d.convs THEN RepairConversation(fold[k - 1], k) ELSE fold[k - 1]
    BY <1>2, <2>1
  <2> QED
    BY <1>5, <2>2, RepairConversationKeeps
<1> HIDE DEF Good
<1>6. Bad = {}
  <2> SUFFICES ASSUME Bad # {} PROVE FALSE
    OBVIOUS
  <2>1. PICK k \in Bad : \A j \in Bad : k <= j
    <3>1. Bad \subseteq Nat
      OBVIOUS
    <3> HIDE DEF Bad
    <3> QED
      BY <3>1, LeastOf
  <2>2. k \in 1 .. n /\ ~Good(k)
    BY <1>4
  <2>3. k - 1 \in 0 .. n /\ k - 1 \notin Bad
    BY <2>1, <2>2
  <2> QED
    BY <1>5, <2>2, <2>3
<1>7. Repairs(d, x)
  BY <1>3, <1>6 DEF Good
<1>8. PICK ids : ids = {id \in x.touched : Orphan(x.d, id)}
  OBVIOUS
<1>9. \A id \in ids : Orphan(x.d, id)
  BY <1>8
<1>10. \A id \in DOMAIN x.d.contacts \ x.d.left : Orphan(x.d, id) => id \in ids
  BY <1>7, <1>8 DEF Repairs
<1>11. DbOK(Delete(x.d, ids))
  BY <1>7, <1>9, <1>10, DeleteKeeps DEF Repairs
<1> QED
  BY <1>3, <1>8, <1>11

LEMMA DisabledKeeps ==
  ASSUME NEW d, DbOK(d), NEW source
  PROVE  DbOK(DeleteSourceData(d, source))
<1>1. PICK rest : rest = [d EXCEPT !.convs = Without(@, {i \in DOMAIN @ : @[i].source = source}),
                                   !.owner = Without(@, {p \in DOMAIN @ : p[1] = source})]
  OBVIOUS
<1>2. PICK ids : ids = {id \in DOMAIN d.contacts : Orphan(rest, id)}
  OBVIOUS
<1>3. DeleteSourceData(d, source) = Delete(rest, ids)
  BY <1>1, <1>2 DEF DeleteSourceData
<1>4. /\ DOMAIN rest = Fields /\ rest.contacts = d.contacts /\ rest.facts = d.facts /\ rest.links = d.links
      /\ rest.renamed = d.renamed /\ rest.left = d.left
      /\ DOMAIN rest.convs \subseteq DOMAIN d.convs /\ \A i \in DOMAIN rest.convs : rest.convs[i] = d.convs[i]
      /\ DOMAIN rest.owner \subseteq DOMAIN d.owner /\ \A p \in DOMAIN rest.owner : rest.owner[p] = d.owner[p]
  BY <1>1 DEF Without, DbOK, Typed, Fields
<1>5. Typed(rest)
  <2>1. DOMAIN rest.convs \in SUBSET (DOMAIN d.convs)
    BY <1>4
  <2>2. IsFiniteSet(DOMAIN rest.convs)
    BY <2>1, FS_Subset DEF DbOK, Typed
  <2>3. \A p \in DOMAIN rest.owner : rest.owner[p] \in DOMAIN rest.contacts
    BY <1>4 DEF DbOK, Typed
  <2>4. ASSUME NEW i \in DOMAIN rest.convs
        PROVE  DOMAIN rest.convs[i] = Columns /\ rest.convs[i].contact \in DOMAIN rest.contacts \union {0}
    BY <1>4 DEF DbOK, Typed
  <2>5. DOMAIN rest.convs \subseteq Nat \ {0}
    BY <1>4 DEF DbOK, Typed
  <2> QED
    BY <1>4, <2>2, <2>3, <2>4, <2>5 DEF DbOK, Typed
<1>6. HeldTogether(rest)
  BY <1>4 DEF DbOK, HeldTogether
<1> QED
  BY <1>2, <1>3, <1>4, <1>5, <1>6, DeleteKeeps

\* Some identifiers of a person become a new one's.
LEMMA SplitKeeps ==
  ASSUME NEW d, DbOK(d), NEW id \in DOMAIN d.contacts, NEW moved, moved # {},
         moved \subseteq contactPairs(d, id), moved # contactPairs(d, id), NEW first
  PROVE  DbOK(SplitContact(d, id, moved, first)) /\ Facts(d) \subseteq Facts(SplitContact(d, id, moved, first))
<1>1. PICK new : new = NewId(d)
  OBVIOUS
<1>2. new \in Nat \ {0} /\ new \notin DOMAIN d.contacts
  BY <1>1, RowAfter DEF NewId, DbOK, Typed
<1>3. PICK remaining : remaining = contactPairs(d, id) \ moved
  OBVIOUS
<1>4. PICK r : r = [d EXCEPT !.links = recordLinks(@, [kind |-> "split", origin |-> "manual"], moved, remaining)]
  OBVIOUS
<1>5. PICK decision : decision = [kind |-> "split", origin |-> "manual"]
  OBVIOUS
<1>6. DbOK(r) /\ Recorded(d, r, decision, moved, remaining)
  <2>1. decision.kind \in {"merge", "split"} /\ moved \intersect remaining = {}
    BY <1>3, <1>5
  <2> QED
    BY <1>4, <1>5, <2>1, RecordKeeps
<1>7. PICK e : e = SplitContact(d, id, moved, first)
  OBVIOUS
<1>8. /\ DOMAIN e = Fields /\ e.links = r.links /\ e.renamed = d.renamed /\ e.left = d.left
      /\ DOMAIN e.contacts = DOMAIN d.contacts \union {new}
      /\ e.facts = [x \in DOMAIN d.facts \union {new} |-> IF x = new THEN {} ELSE d.facts[x]]
      /\ e.owner = [p \in DOMAIN d.owner |-> IF p \in moved THEN new ELSE d.owner[p]]
      /\ e.convs = [i \in DOMAIN d.convs |->
                      IF <<d.convs[i].source, d.convs[i].name>> \in moved /\ d.convs[i].contact = id
                      THEN [d.convs[i] EXCEPT !.contact = new] ELSE d.convs[i]]
  BY <1>1, <1>3, <1>4, <1>7 DEF SplitContact, DbOK, Typed, Fields
<1>9. \A i \in DOMAIN d.convs :
        /\ DOMAIN e.convs[i] = Columns
        /\ e.convs[i].contact = d.convs[i].contact \/ (d.convs[i].contact = id /\ e.convs[i].contact = new)
  BY <1>8 DEF DbOK, Typed, Columns
<1>10. Typed(e)
  <2>1. IsFiniteSet(DOMAIN e.contacts)
    BY <1>8, FS_AddElement DEF DbOK, Typed
  <2>2. \A p \in DOMAIN e.owner : e.owner[p] \in DOMAIN e.contacts
    BY <1>8 DEF DbOK, Typed
  <2>3. ASSUME NEW i \in DOMAIN e.convs
        PROVE  DOMAIN e.convs[i] = Columns /\ e.convs[i].contact \in DOMAIN e.contacts \union {0}
    BY <1>8, <1>9 DEF DbOK, Typed
  <2>4. DOMAIN e.contacts \subseteq Nat \ {0} /\ DOMAIN e.facts = DOMAIN e.contacts /\ DOMAIN e.convs = DOMAIN d.convs
        /\ e.left \subseteq DOMAIN e.contacts
    BY <1>2, <1>8 DEF DbOK, Typed
  <2>5. Binary(e.links)
    BY <1>6, <1>8 DEF DbOK, Typed
  <2>6. IsFiniteSet(DOMAIN d.convs) /\ DOMAIN d.convs \subseteq Nat \ {0}
    BY DEF DbOK, Typed
  <2> QED
    BY <1>8, <2>1, <2>2, <2>3, <2>4, <2>5, <2>6 DEF Typed
<1>11. HeldTogether(e)
  <2> SUFFICES ASSUME NEW p \in DOMAIN e.owner, NEW q \in DOMAIN e.owner, e.owner[p] = e.owner[q],
                      NEW S, p \in S, q \notin S
               PROVE  \E l \in DOMAIN e.links \union e.renamed : l \intersect S # {} /\ l \ S # {}
    BY DEF HeldTogether
  <2>1. \A x \in DOMAIN d.owner : d.owner[x] # new
    BY <1>2 DEF DbOK, Typed
  <2>2. \A x \in moved : x \in DOMAIN d.owner /\ d.owner[x] = id
    BY DEF contactPairs
  <2>3. p \in DOMAIN d.owner /\ q \in DOMAIN d.owner /\ d.owner[p] = d.owner[q]
    BY <1>8, <2>1, <2>2
  <2>4. r.owner = d.owner /\ r.renamed = d.renamed
    BY <1>6 DEF Recorded
  <2> QED
    BY <1>6, <1>8, <2>3, <2>4 DEF DbOK, HeldTogether
<1>12. ASSUME NEW o \in DOMAIN e.contacts \ e.left PROVE ~Orphan(e, o)
  <2>1. CASE o = new
    <3>1. PICK p : p \in moved
      OBVIOUS
    <3>2. p \in contactPairs(e, o)
      BY <1>8, <2>1, <3>1 DEF contactPairs
    <3> QED
      BY <3>2 DEF Orphan
  <2>2. CASE o = id
    <3>1. PICK p : p \in contactPairs(d, id) /\ p \notin moved
      OBVIOUS
    <3>2. p \in contactPairs(e, o)
      BY <1>8, <2>2, <3>1 DEF contactPairs
    <3> QED
      BY <3>2 DEF Orphan
  <2>3. CASE o # new /\ o # id
    <3>1. o \in DOMAIN d.contacts \ d.left /\ ~Orphan(d, o)
      BY <1>8, <1>12, <2>3 DEF DbOK, Peopled
    <3>2. contactPairs(d, o) \subseteq contactPairs(e, o)
      BY <1>8, <2>3 DEF contactPairs
    <3>3. \A i \in DOMAIN d.convs : d.convs[i].contact = o => e.convs[i].contact = o
      BY <1>9, <2>3
    <3> QED
      BY <1>8, <3>1, <3>2, <3>3 DEF Orphan
  <2> QED
    BY <2>1, <2>2, <2>3
<1>13. Facts(d) \subseteq Facts(e)
  BY <1>2, <1>8 DEF Facts, DbOK, Typed
<1> QED
  BY <1>7, <1>10, <1>11, <1>12, <1>13 DEF DbOK, Peopled

LEMMA RowIs ==
  ASSUME NEW d, DbOK(d), NEW source, NEW title
  PROVE  Row(d, source, title) \in Nat \ {0}
<1>1. DOMAIN d.convs \subseteq Nat \ {0} /\ LastRow(d.convs) \in Nat
  BY RowAfter DEF DbOK, Typed
<1> QED
  BY <1>1 DEF Row

LEMMA UpsertKeeps ==
  ASSUME NEW d, DbOK(d), NEW chat
  PROVE  DbOK(UpsertConversationIdentity(d, chat)) /\ Facts(d) \subseteq Facts(UpsertConversationIdentity(d, chat))
<1>1. PICK i \in Nat \ {0} : i = Row(d, chat.source, chat.name)
  BY RowIs
<1>2. PICK identity, added, there, e :
        /\ identity = DeriveIdentity(chat.name, chat.hint, chat.group)
        /\ added = [source |-> chat.source, name |-> chat.name, group |-> identity.group,
                    handle |-> None, contact |-> 0]
        /\ there = (IF i \in DOMAIN d.convs THEN d.convs[i] ELSE added)
        /\ e = UpsertConversationIdentity(d, chat)
  OBVIOUS
<1>3. DOMAIN there = Columns /\ there.contact = With(d, i)
  BY <1>2 DEF DbOK, Typed, Columns, With
<1>4. CASE identity.group
  <2>1. PICK conv : conv = [there EXCEPT !.group = TRUE, !.contact = 0]
    OBVIOUS
  <2>2. DOMAIN conv = Columns /\ conv.contact = 0
    BY <1>3, <2>1 DEF Columns
  <2>3. e = [d EXCEPT !.convs = Inserted(@, i, conv), !.left = @ \union ({there.contact} \ {0})]
    BY <1>1, <1>2, <1>4, <2>1 DEF UpsertConversationIdentity
  <2>4. e = [d EXCEPT !.convs = Inserted(@, i, conv), !.left = @ \union ({With(d, i)} \ {0})]
    BY <1>3, <2>3
  <2>5. Regroups(d, e, i, conv)
    BY <1>1, <2>2, <2>4 DEF Regroups
  <2> QED
    BY <1>2, <2>2, <2>5, RegroupedKeeps
<1>5. CASE ~identity.group
  <2>1. PICK conv : conv = [there EXCEPT !.handle = IF handleShaped(identity.id) THEN identity.id ELSE @]
    OBVIOUS
  <2>2. DOMAIN conv = Columns /\ conv.contact = With(d, i)
    BY <1>3, <2>1 DEF Columns
  <2>3. PICK x : x = [d EXCEPT !.convs = Inserted(@, i, conv)]
    OBVIOUS
  <2>4. Writes(d, x, i, conv)
    BY <1>1, <2>2, <2>3 DEF Writes
  <2>5. e = Linked(x, i, identity)
    BY <1>1, <1>2, <1>5, <2>1, <2>3 DEF UpsertConversationIdentity
  <2>6. DbOK(x) /\ Facts(x) = Facts(d) /\ i \in DOMAIN x.convs
    BY <2>2, <2>4, InsertedKeeps
  <2>7. DbOK(e) /\ Facts(x) \subseteq Facts(e)
    BY <2>5, <2>6, LinkedKeeps
  <2> QED
    BY <1>2, <2>6, <2>7
<1> QED
  BY <1>4, <1>5

LEMMA LegacyRowKeeps ==
  ASSUME NEW d, DbOK(d), NEW chat
  PROVE  DbOK(LegacyRow(d, chat))
<1>1. PICK i, conv, identity, x :
        /\ i = LastRow(d.convs) + 1
        /\ conv = [source |-> chat.source, name |-> chat.name, group |-> FALSE, handle |-> None, contact |-> 0]
        /\ identity = [group |-> FALSE, name |-> chat.name, id |-> chat.name]
        /\ x = [d EXCEPT !.convs = Inserted(@, i, conv)]
  OBVIOUS
<1>2. i \in Nat \ {0} /\ i \notin DOMAIN d.convs
  BY <1>1, RowAfter DEF DbOK, Typed
<1>3. DOMAIN conv = Columns /\ conv.contact = With(d, i)
  BY <1>1, <1>2 DEF Columns, With
<1>4. DbOK(x) /\ i \in DOMAIN x.convs
  <2>1. Writes(d, x, i, conv)
    BY <1>1, <1>2, <1>3 DEF Writes
  <2> QED
    BY <1>3, <2>1, InsertedKeeps
<1>5. LegacyRow(d, chat) = Linked(x, i, identity)
  BY <1>1 DEF LegacyRow
<1> QED
  BY <1>4, <1>5, LinkedKeeps

LEMMA EmptyOK == DbOK(NoDB)
<1>1. DOMAIN NoDB = Fields
  BY DEF NoDB, Fields
<1>2. DOMAIN <<>> = {} /\ IsFiniteSet({})
  BY FS_EmptySet
<1>3. Binary(NoDB.links)
  BY <1>2 DEF NoDB, Binary
<1>4. /\ NoDB.contacts = <<>> /\ NoDB.owner = <<>> /\ NoDB.convs = <<>> /\ NoDB.facts = <<>>
      /\ NoDB.left = {}
  BY DEF NoDB
<1>5. Typed(NoDB)
  BY <1>1, <1>2, <1>3, <1>4 DEF Typed
<1> QED
  BY <1>2, <1>4, <1>5 DEF DbOK, HeldTogether, Peopled

LEMMA ArchivedOK ==
  ASSUME NEW old, Len(old) \in Nat
  PROVE  DbOK(Archived(old))
<1>1. PICK n \in Nat : n = Len(old)
  OBVIOUS
<1> DEFINE fold == CHOOSE fold : fold = [k \in 0 .. n |-> IF k = 0 THEN NoDB ELSE LegacyRow(fold[k - 1], old[k])]
<1>2. fold = [k \in 0 .. n |-> IF k = 0 THEN NoDB ELSE LegacyRow(fold[k - 1], old[k])]
  <2>1. \E run : Runs(run, "legacy", NoDB, old, n)
    BY RunsExist
  <2> QED
    BY <2>1 DEF Runs, Step
<1>3. Archived(old) = fold[n]
  BY <1>1 DEF Archived
<1> HIDE DEF fold
<1> DEFINE Bad == {k \in 0 .. n : ~DbOK(fold[k])}
<1>4. Bad = {}
  <2> SUFFICES ASSUME Bad # {} PROVE FALSE
    OBVIOUS
  <2>1. PICK k \in Bad : \A j \in Bad : k <= j
    <3>1. Bad \subseteq Nat
      OBVIOUS
    <3> HIDE DEF Bad
    <3> QED
      BY <3>1, LeastOf
  <2>2. fold[0] = NoDB
    BY <1>2
  <2>3. k \in 1 .. n /\ ~DbOK(fold[k])
    BY <2>2, EmptyOK
  <2>4. k - 1 \in 0 .. n /\ k - 1 \notin Bad
    BY <2>1, <2>3
  <2>5. fold[k] = LegacyRow(fold[k - 1], old[k])
    BY <1>2, <2>3
  <2> QED
    BY <2>3, <2>4, <2>5, LegacyRowKeeps
<1> QED
  BY <1>1, <1>3, <1>4

-----------------------------------------------------------------------------
Offered(s) == \A c \in s.candidates : c[1] # c[2]

PeopleOK == DbOK(db) /\ Offered(shown)

LEMMA RenderOffers ==
  ASSUME NEW d, DbOK(d), NEW r
  PROVE  Offered(Render(d, r))
<1>1. \A c \in PairsOfPeople(d) : c[1] \in Nat /\ c[2] \in Nat /\ c[1] < c[2]
  BY DEF PairsOfPeople, DbOK, Typed
<1>2. Render(d, r).candidates \subseteq PairsOfPeople(d)
  BY DEF Render, MergeCandidates, CandidatesWithNames, Candidates, NamedAlike
<1> QED
  BY <1>1, <1>2 DEF Offered

LEMMA ContactsStarts == ContactsInit => PeopleOK
<1> SUFFICES ASSUME ContactsInit PROVE PeopleOK
  OBVIOUS
<1>1. db = NoDB \/ db = Archived(Legacy)
  BY DEF ContactsInit
<1>2. DbOK(db)
  BY <1>1, EmptyOK, ArchivedOK, LegacyAssumption
<1>3. shown.candidates = {}
  BY DEF ContactsInit
<1> QED
  BY <1>2, <1>3 DEF PeopleOK, Offered

\* What a step does: the tables stay whole, nothing known is lost but by a
\* repair or a Disable, and a reconcile has reconciled.
Advances ==
  /\ PeopleOK'
  /\ Facts(db) \subseteq Facts(db') \/ Disable \/ RepairContactIdentities

LEMMA ReconcileAdvances ==
  ASSUME PeopleOK, ReconcileContacts
  PROVE  Advances /\ Reconciles(db, rules, db')
<1>1. PICK order : /\ order \in Seq(Applied(db, rules)) /\ ToSet(order) = Applied(db, rules)
                   /\ ImportStep(Reconciled(db, rules, order))
  BY DEF ReconcileContacts
<1>2. db' = Reconciled(db, rules, order) /\ UNCHANGED shown
  BY <1>1 DEF ImportStep
<1>3. DbOK(db') /\ Facts(db) \subseteq Facts(db') /\ Reconciles(db, rules, db')
  BY <1>1, <1>2, ReconcileIs DEF PeopleOK
<1> QED
  BY <1>2, <1>3 DEF Advances, PeopleOK

\* A fact or a name is written down.
LEMMA NotedKeeps ==
  ASSUME NEW d, DbOK(d), NEW id \in DOMAIN d.contacts, NEW title, NEW f
  PROVE  /\ DbOK([d EXCEPT !.contacts[id] = title]) /\ Facts(d) = Facts([d EXCEPT !.contacts[id] = title])
         /\ DbOK([d EXCEPT !.facts[id] = @ \union {f}])
         /\ Facts(d) \subseteq Facts([d EXCEPT !.facts[id] = @ \union {f}])
<1>1. PICK e : e = [d EXCEPT !.contacts[id] = title]
  OBVIOUS
<1>2. /\ DOMAIN e = Fields /\ DOMAIN e.contacts = DOMAIN d.contacts /\ e.owner = d.owner /\ e.convs = d.convs
      /\ e.links = d.links /\ e.facts = d.facts /\ e.renamed = d.renamed /\ e.left = d.left
  BY <1>1 DEF DbOK, Typed, Fields
<1>3. DbOK(e) /\ Facts(d) = Facts(e)
  <2>1. Typed(e)
    BY <1>2 DEF DbOK, Typed
  <2>2. HeldTogether(e)
    BY <1>2 DEF DbOK, HeldTogether
  <2>3. Peopled(e)
    BY <1>2 DEF DbOK, Peopled, Orphan, contactPairs
  <2> QED
    BY <1>2, <2>1, <2>2, <2>3 DEF DbOK, Facts
<1>4. PICK u : u = [d EXCEPT !.facts[id] = @ \union {f}]
  OBVIOUS
<1>5. /\ DOMAIN u = Fields /\ u.contacts = d.contacts /\ u.owner = d.owner /\ u.convs = d.convs
      /\ u.links = d.links /\ DOMAIN u.facts = DOMAIN d.facts /\ u.renamed = d.renamed /\ u.left = d.left
      /\ \A x \in DOMAIN d.facts : d.facts[x] \subseteq u.facts[x]
  BY <1>4 DEF DbOK, Typed, Fields
<1>6. DbOK(u) /\ Facts(d) \subseteq Facts(u)
  <2>1. Typed(u)
    BY <1>5 DEF DbOK, Typed
  <2>2. HeldTogether(u)
    BY <1>5 DEF DbOK, HeldTogether
  <2>3. Peopled(u)
    BY <1>5 DEF DbOK, Peopled, Orphan, contactPairs
  <2> QED
    BY <1>5, <2>1, <2>2, <2>3 DEF DbOK, Facts
<1> QED
  BY <1>1, <1>3, <1>4, <1>6

LEMMA ContactsAdvances ==
  ASSUME PeopleOK, [ContactsNext]_contactsVars
  PROVE  Advances
<1>1. DbOK(db) /\ Offered(shown)
  BY DEF PeopleOK
<1>2. ASSUME NEW chat \in Chat, Upsert(chat) PROVE Advances
  BY <1>1, <1>2, UpsertKeeps DEF Upsert, ImportStep, Advances, PeopleOK
<1>3. CASE RepairContactIdentities
  BY <1>1, <1>3, RepairedKeeps DEF RepairContactIdentities, ImportStep, Advances, PeopleOK
<1>4. CASE RepairHandleNamedContacts
  <2>1. PICK id \in DOMAIN db.contacts, chat \in Chat : ImportStep([db EXCEPT !.contacts[id] = chat.label])
    BY <1>4 DEF RepairHandleNamedContacts
  <2> QED
    BY <1>1, <2>1, NotedKeeps DEF ImportStep, Advances, PeopleOK
<1>5. CASE ReconcileContacts
  BY <1>5, ReconcileAdvances
<1>6. CASE PutFact
  <2>1. PICK id \in DOMAIN db.contacts, f \in Fact : ImportStep([db EXCEPT !.facts[id] = @ \union {f}])
    BY <1>6 DEF PutFact
  <2> QED
    BY <1>1, <2>1, NotedKeeps DEF ImportStep, Advances, PeopleOK
<1>7. CASE handleSettingsMerge
  <2>1. PICK c \in shown.candidates : {c[1], c[2]} \subseteq DOMAIN db.contacts /\ Act(MergeContacts(db, c[1], c[2]), rules)
    BY <1>7 DEF handleSettingsMerge
  <2>2. PICK a \in DOMAIN db.contacts, b \in DOMAIN db.contacts : a = c[1] /\ b = c[2] /\ a # b
    BY <1>1, <2>1 DEF Offered
  <2>3. PICK decision : decision = [kind |-> "merge", origin |-> "manual"]
    OBVIOUS
  <2>4. PICK r : r = [db EXCEPT !.links = recordLinks(@, decision, contactPairs(db, a), contactPairs(db, b))]
    OBVIOUS
  <2>5. MergeContacts(db, a, b) = unionByRule(r, a, b) /\ decision.kind = "merge"
    BY <2>3, <2>4 DEF MergeContacts
  <2>6. DbOK(MergeContacts(db, a, b)) /\ Facts(db) \subseteq Facts(MergeContacts(db, a, b))
    BY <1>1, <2>2, <2>4, <2>5, MergeKeeps
  <2> QED
    BY <2>1, <2>2, <2>6, RenderOffers DEF Act, Advances, PeopleOK
<1>8. CASE handleSettingsSplit
  <2>1. PICK row \in shown.merged : \E moved \in (SUBSET row.pairs) \ {{}} :
          /\ moved \subseteq contactPairs(db, row.id) /\ moved # contactPairs(db, row.id)
          /\ \E first \in moved : Act(SplitContact(db, row.id, moved, first), rules)
    BY <1>8 DEF handleSettingsSplit
  <2>2. PICK id, moved, first :
          /\ moved # {} /\ moved \subseteq contactPairs(db, id) /\ moved # contactPairs(db, id)
          /\ Act(SplitContact(db, id, moved, first), rules)
    BY <2>1
  <2>3. id \in DOMAIN db.contacts
    BY <1>1, <2>2 DEF contactPairs, DbOK, Typed
  <2>4. /\ DbOK(SplitContact(db, id, moved, first))
        /\ Facts(db) \subseteq Facts(SplitContact(db, id, moved, first))
    BY <1>1, <2>2, <2>3, SplitKeeps
  <2> QED
    BY <2>2, <2>4, RenderOffers DEF Act, Advances, PeopleOK
<1>9. CASE handleSettingsMergeRules
  <2>1. PICK r : Act(db, r)
    BY <1>9 DEF handleSettingsMergeRules
  <2> QED
    BY <1>1, <2>1, RenderOffers DEF Act, Advances, PeopleOK
<1>10. CASE handleSettingsContacts
  BY <1>1, <1>10, RenderOffers DEF handleSettingsContacts, Advances, PeopleOK
<1>11. CASE Disable
  BY <1>1, <1>11, DisabledKeeps DEF Disable, Advances, PeopleOK
<1>12. CASE UNCHANGED contactsVars
  BY <1>1, <1>12 DEF contactsVars, Advances, PeopleOK
<1> QED
  BY <1>2, <1>3, <1>4, <1>5, <1>6, <1>7, <1>8, <1>9, <1>10, <1>11, <1>12 DEF ContactsNext

LEMMA PeopleOKHolds == ContactsSpec => []PeopleOK
<1>1. PeopleOK /\ [ContactsNext]_contactsVars => PeopleOK'
  BY ContactsAdvances DEF Advances
<1> QED
  BY <1>1, ContactsStarts, PTL DEF ContactsSpec

\* The people of the archive are its own, and merged by decisions only.
THEOREM PeopleTrue == ContactsSpec => []PeopleHold
<1>1. ASSUME PeopleOK PROVE PeopleHold
  <2>1. NoGhosts
    BY <1>1 DEF PeopleOK, DbOK, Peopled, NoGhosts
  <2>2. MergesAreRecorded
    <3> SUFFICES ASSUME Decisions(db, "split") = {}, NEW p \in DOMAIN db.owner, NEW q \in DOMAIN db.owner,
                        db.owner[p] = db.owner[q]
                 PROVE  Chained(p, q, Decisions(db, "merge") \union db.renamed)
      BY DEF MergesAreRecorded
    <3>1. DOMAIN db.links = Decisions(db, "merge")
      BY <1>1 DEF PeopleOK, DbOK, Typed, Binary, Decisions
    <3> QED
      BY <1>1, <3>1 DEF PeopleOK, DbOK, HeldTogether, Chained
  <2> QED
    BY <2>1, <2>2 DEF PeopleHold
<1> QED
  BY <1>1, PeopleOKHolds, PTL

\* What the user has decided about people, and what is known of them, outlives
\* every import and every reconcile.
THEOREM PeopleStay == ContactsSpec => PeopleKept
<1>1. ASSUME PeopleOK, [ContactsNext]_contactsVars
      PROVE  [Facts(db) \subseteq Facts(db') \/ Disable \/ RepairContactIdentities]_contactsVars
  BY <1>1, ContactsAdvances DEF Advances
<1> DEFINE does ==
      /\ Applied(db', rules) = {} /\ Reconciled(db', rules, <<>>) = db'
      /\ \A p, q \in DOMAIN db.owner :
           LET decided(kind) == /\ {p, q} \in DOMAIN db.links
                                /\ db.links[{p, q}] = [kind |-> kind, origin |-> "manual"]
               together == db'.owner[p] = db'.owner[q]
           IN /\ decided("merge") => together
              /\ decided("split") /\ together => Chained(p, q, Stored(db, rules))
<1>2. ASSUME PeopleOK, [ContactsNext]_contactsVars
      PROVE  [ReconcileContacts => does]_contactsVars
  BY <1>2, ReconcileAdvances DEF Reconciles
<1>3. ContactsSpec => FactsKept
  BY <1>1, PeopleOKHolds, PTL DEF ContactsSpec, FactsKept
<1>4. ContactsSpec => ReconcileHolds
  BY <1>2, PeopleOKHolds, PTL DEF ContactsSpec, ReconcileHolds
<1> QED
  BY <1>3, <1>4 DEF PeopleKept

-----------------------------------------------------------------------------
(* Sequences (Transcripts).                                                *)

IsSeq(s) == Len(s) \in Nat /\ s = [i \in 1 .. Len(s) |-> s[i]]

LEMMA SeqIs ==
  ASSUME NEW s, IsSeq(s)
  PROVE  /\ Len(s) \in Nat /\ DOMAIN s = 1 .. Len(s)
         /\ \E S : s \in Seq(S) /\ S = {s[i] : i \in 1 .. Len(s)}
<1>1. PICK n \in Nat : n = Len(s)
  BY DEF IsSeq
<1>2. PICK S : S = {s[i] : i \in 1 .. n}
  OBVIOUS
<1>3. s = [i \in 1 .. n |-> s[i]]
  BY <1>1 DEF IsSeq
<1>4. DOMAIN s = 1 .. n /\ s \in [1 .. n -> S]
  BY <1>2, <1>3
<1>5. s \in Seq(S)
  BY <1>4
<1> QED
  BY <1>1, <1>2, <1>4, <1>5

LEMMA IsSeqOf ==
  ASSUME NEW S, NEW s \in Seq(S)
  PROVE  IsSeq(s)
<1>1. Len(s) \in Nat /\ s \in [1 .. Len(s) -> S]
  BY LenProperties
<1> QED
  BY <1>1 DEF IsSeq

OfLength(s, n) == n \in Nat /\ s = [i \in 1 .. n |-> s[i]]

LEMMA SeqListed ==
  ASSUME NEW n, NEW s, OfLength(s, n)
  PROVE  IsSeq(s) /\ Len(s) = n
<1> n \in Nat /\ s = [i \in 1 .. n |-> s[i]]
  BY DEF OfLength
<1>1. PICK S : S = {s[i] : i \in 1 .. n}
  OBVIOUS
<1>2. s \in [1 .. n -> S]
  BY <1>1
<1>3. s \in Seq(S)
  BY <1>2
<1>4. Len(s) = n
  BY <1>2, <1>3
<1> QED
  BY <1>4 DEF IsSeq

LEMMA SameSeq ==
  ASSUME NEW s, IsSeq(s), NEW t, IsSeq(t), Len(s) = Len(t), \A i \in 1 .. Len(s) : s[i] = t[i]
  PROVE  s = t
BY DEF IsSeq

LEMMA Appended ==
  ASSUME NEW s, IsSeq(s), NEW e, NEW t, t = Append(s, e)
  PROVE  /\ IsSeq(t) /\ Len(t) = Len(s) + 1 /\ Len(s) \in Nat
         /\ \A i \in 1 .. Len(s) : t[i] = s[i]
         /\ t[Len(s) + 1] = e
<1>1. PICK S : s \in Seq(S)
  BY SeqIs
<1>2. PICK T : T = S \union {e}
  OBVIOUS
<1>3. s \in Seq(T) /\ e \in T
  BY <1>1, <1>2, SeqMonotonic
<1>4. t \in Seq(T) /\ Len(t) = Len(s) + 1 /\ t[Len(s) + 1] = e /\ \A i \in 1 .. Len(s) : t[i] = s[i]
  BY <1>3, AppendProperties
<1>5. IsSeq(t) /\ Len(s) \in Nat
  BY <1>4, IsSeqOf DEF IsSeq
<1> QED
  BY <1>4, <1>5

Concats(t, s, u) ==
  /\ IsSeq(t) /\ Len(t) = Len(s) + Len(u) /\ Len(s) \in Nat /\ Len(u) \in Nat
  /\ \A i \in 1 .. Len(s) : t[i] = s[i]
  /\ \A i \in 1 .. Len(u) : t[Len(s) + i] = u[i]

LEMMA ConcatIs ==
  ASSUME NEW s, IsSeq(s), NEW u, IsSeq(u), NEW t, t = s \o u
  PROVE  Concats(t, s, u)
<1>1. PICK S : s \in Seq(S)
  BY SeqIs
<1>2. PICK U : u \in Seq(U)
  BY SeqIs
<1>3. PICK T : T = S \union U
  OBVIOUS
<1>4. s \in Seq(T) /\ u \in Seq(T)
  BY <1>1, <1>2, <1>3, SeqMonotonic
<1>5. t \in Seq(T) /\ Len(t) = Len(s) + Len(u)
  BY <1>4, ConcatProperties
<1>6. Len(s) \in Nat /\ Len(u) \in Nat /\ IsSeq(t)
  <2>1. IsSeq(t)
    BY <1>5, IsSeqOf
  <2> QED
    BY <2>1 DEF IsSeq
<1>7. \A i \in 1 .. Len(t) : t[i] = IF i <= Len(s) THEN s[i] ELSE u[i - Len(s)]
  BY <1>4, <1>5, ConcatProperties
<1>8. ASSUME NEW i \in 1 .. Len(s) PROVE t[i] = s[i]
  BY <1>5, <1>6, <1>7
<1>9. ASSUME NEW i \in 1 .. Len(u) PROVE t[Len(s) + i] = u[i]
  <2>1. Len(s) + i \in 1 .. Len(t) /\ ~(Len(s) + i <= Len(s)) /\ (Len(s) + i) - Len(s) = i
    BY <1>5, <1>6
  <2> QED
    BY <1>7, <2>1
<1> QED
  BY <1>5, <1>6, <1>8, <1>9 DEF Concats

LEMMA CutOff ==
  ASSUME NEW s, IsSeq(s), NEW n \in 0 .. Len(s), NEW t, t = SubSeq(s, 1, n)
  PROVE  /\ IsSeq(t) /\ Len(t) = n /\ n \in Nat
         /\ \A i \in 1 .. n : t[i] = s[i]
<1>1. Len(s) \in Nat /\ n \in Nat /\ n <= Len(s)
  BY DEF IsSeq
<1>2. t = [i \in 1 .. n |-> s[i]]
  BY <1>1
<1>3. OfLength(t, n)
  BY <1>1, <1>2 DEF OfLength
<1>4. IsSeq(t) /\ Len(t) = n
  BY <1>3, SeqListed
<1> QED
  BY <1>1, <1>2, <1>4

LEMMA Short ==
  ASSUME NEW e
  PROVE  /\ IsSeq(<<>>) /\ Len(<<>>) = 0
         /\ IsSeq(<<e>>) /\ Len(<<e>>) = 1 /\ <<e>>[1] = e
<1>1. IsSeq(<<>>) /\ Len(<<>>) = 0
  BY DEF IsSeq
<1>2. <<e>> \in Seq({e})
  OBVIOUS
<1> QED
  BY <1>1, <1>2, IsSeqOf

\* The rest is the same but for the place.
LEMMA Tailed ==
  ASSUME NEW s, IsSeq(s), s # <<>>, NEW t, t = Tail(s)
  PROVE  /\ IsSeq(t) /\ Len(t) = Len(s) - 1 /\ Len(s) \in Nat \ {0}
         /\ \A i \in 1 .. Len(t) : t[i] = s[i + 1]
<1>1. PICK S : s \in Seq(S)
  BY SeqIs
<1>2. t \in Seq(S) /\ Len(t) = Len(s) - 1 /\ \A i \in 1 .. Len(t) : t[i] = s[i + 1]
  BY <1>1, HeadTailProperties
<1>3. Len(s) \in Nat /\ Len(s) # 0
  BY <1>1, EmptySeq
<1> QED
  BY <1>2, <1>3, IsSeqOf

\* A sequence that another one continues.
Grows(s, t) == Len(s) <= Len(t) /\ \A i \in 1 .. Len(s) : t[i] = s[i]

-----------------------------------------------------------------------------
(* Lines, and what trimming leaves of them.                                *)

\* Lines as the exporters write them.
LineOK(line) ==
  /\ line.k = "blank" => line = Blank
  /\ line.k = "text" => line = [k |-> "text", t |-> line.t, pad |-> line.pad, n |-> line.n]

LinesOK(s) == IsSeq(s) /\ \A i \in 1 .. Len(s) : LineOK(s[i])

LEMMA EmptyIs ==
  ASSUME NEW s, IsSeq(s)
  PROVE  s = <<>> <=> Len(s) = 0
<1>1. PICK S : s \in Seq(S)
  BY SeqIs
<1> QED
  BY <1>1, EmptySeq

\* Trimmed is the longest prefix that does not end in a blank.
LEMMA TrimIs ==
  ASSUME NEW s, IsSeq(s), NEW t, t = TrimEnd(s)
  PROVE  /\ IsSeq(t) /\ Len(t) \in 0 .. Len(s) /\ Len(s) \in Nat
         /\ \A i \in 1 .. Len(t) : t[i] = s[i]
         /\ \A i \in 1 .. Len(s) : i > Len(t) => IsBlank(s[i])
         /\ Len(t) # 0 => ~IsBlank(s[Len(t)])
<1>1. Len(s) \in Nat /\ DOMAIN s = 1 .. Len(s)
  BY DEF IsSeq
<1>2. PICK S : S = {i \in DOMAIN s : ~IsBlank(s[i])} \union {0}
  OBVIOUS
<1>3. S \subseteq 0 .. Len(s) /\ IsFiniteSet(0 .. Len(s))
  BY <1>1, <1>2, FS_Interval
<1>4. IsFiniteSet(S) /\ S \subseteq Int /\ S # {}
  BY <1>2, <1>3, FS_Subset
<1>5. PICK n : n = Max(S)
  OBVIOUS
<1>6. n \in S /\ \A y \in S : y <= n
  BY <1>4, <1>5, GreatestInt
<1>7. n \in 0 .. Len(s) /\ t = SubSeq(s, 1, n)
  BY <1>2, <1>3, <1>5, <1>6 DEF TrimEnd
<1>8. IsSeq(t) /\ Len(t) = n /\ \A i \in 1 .. n : t[i] = s[i]
  BY <1>7, CutOff
<1>9. ASSUME NEW i \in 1 .. Len(s), i > n, ~IsBlank(s[i]) PROVE FALSE
  <2>1. i \in S
    BY <1>1, <1>2, <1>9
  <2> QED
    BY <1>1, <1>6, <1>7, <1>9, <2>1
<1>10. n # 0 => ~IsBlank(s[n])
  BY <1>2, <1>6
<1> QED
  BY <1>1, <1>7, <1>8, <1>9, <1>10

LEMMA TrimAt ==
  ASSUME NEW s, IsSeq(s), NEW n \in 0 .. Len(s), n # 0 => ~IsBlank(s[n]),
         \A i \in 1 .. Len(s) : i > n => IsBlank(s[i])
  PROVE  IsSeq(TrimEnd(s)) /\ Len(TrimEnd(s)) = n /\ \A i \in 1 .. n : TrimEnd(s)[i] = s[i]
<1>1. PICK t : t = TrimEnd(s)
  OBVIOUS
<1>2. /\ IsSeq(t) /\ Len(t) \in 0 .. Len(s) /\ Len(s) \in Nat
      /\ \A i \in 1 .. Len(t) : t[i] = s[i]
      /\ \A i \in 1 .. Len(s) : i > Len(t) => IsBlank(s[i])
      /\ Len(t) # 0 => ~IsBlank(s[Len(t)])
  BY <1>1, TrimIs
<1>3. ~(Len(t) < n)
  BY <1>2
<1>4. ~(n < Len(t))
  BY <1>2
<1>5. Len(t) = n
  BY <1>2, <1>3, <1>4
<1> QED
  BY <1>1, <1>2, <1>5

LEMMA TrimAgain ==
  ASSUME NEW s, IsSeq(s), NEW t, t = TrimEnd(s)
  PROVE  TrimEnd(t) = t
<1>1. /\ IsSeq(t) /\ Len(t) \in 0 .. Len(s) /\ Len(s) \in Nat
      /\ \A i \in 1 .. Len(t) : t[i] = s[i]
      /\ Len(t) # 0 => ~IsBlank(s[Len(t)])
  BY TrimIs
<1>2. Len(t) \in 0 .. Len(t) /\ (Len(t) # 0 => ~IsBlank(t[Len(t)])) /\ \A i \in 1 .. Len(t) : i > Len(t) => IsBlank(t[i])
  BY <1>1
<1>3. PICK u : u = TrimEnd(t)
  OBVIOUS
<1>4. IsSeq(u) /\ Len(u) = Len(t) /\ \A i \in 1 .. Len(t) : u[i] = t[i]
  BY <1>1, <1>2, <1>3, TrimAt
<1> QED
  BY <1>1, <1>3, <1>4, SameSeq

\* The text before a trailer is trimmed, and its last line ends in no blank.
Unpadded(line) == IF line.k = "text" THEN [line EXCEPT !.pad = FALSE] ELSE line

LEMMA CleanedIs ==
  ASSUME NEW s, IsSeq(s), NEW r, r = TrimEnd(s), NEW t, t = Cleaned(s)
  PROVE  /\ IsSeq(t) /\ Len(t) = Len(r)
         /\ \A i \in 1 .. Len(r) : t[i] = IF i = Len(r) THEN Unpadded(s[i]) ELSE s[i]
<1>1. /\ IsSeq(r) /\ Len(r) \in 0 .. Len(s) /\ Len(s) \in Nat
      /\ \A i \in 1 .. Len(r) : r[i] = s[i]
  BY TrimIs
<1>2. t = IF r # <<>> /\ r[Len(r)].k = "text" THEN [r EXCEPT ![Len(r)].pad = FALSE] ELSE r
  BY DEF Cleaned, Last
<1>3. r # <<>> <=> Len(r) # 0
  BY <1>1, EmptyIs
<1>4. CASE r # <<>> /\ r[Len(r)].k = "text"
  <2>1. t = [r EXCEPT ![Len(r)].pad = FALSE]
    BY <1>2, <1>4
  <2>2. r = [i \in 1 .. Len(r) |-> r[i]] /\ DOMAIN r = 1 .. Len(r)
    BY <1>1 DEF IsSeq
  <2>3. OfLength(t, Len(r))
    <3>1. t = [i \in 1 .. Len(r) |-> t[i]]
      BY <2>1, <2>2
    <3> QED
      BY <1>1, <3>1 DEF OfLength
  <2>4. ASSUME NEW i \in 1 .. Len(r) PROVE t[i] = IF i = Len(r) THEN Unpadded(s[i]) ELSE s[i]
    <3>1. t[i] = IF i = Len(r) THEN [r[i] EXCEPT !.pad = FALSE] ELSE r[i]
      BY <2>1, <2>2
    <3>2. r[i] = s[i]
      BY <1>1
    <3>3. i = Len(r) => s[i].k = "text"
      BY <1>4, <3>2
    <3> QED
      BY <3>1, <3>2, <3>3 DEF Unpadded
  <2>5. IsSeq(t) /\ Len(t) = Len(r)
    BY <2>3, SeqListed
  <2> QED
    BY <2>4, <2>5
<1>5. CASE ~(r # <<>> /\ r[Len(r)].k = "text")
  <2>1. t = r
    BY <1>2, <1>5
  <2>2. ASSUME NEW i \in 1 .. Len(r) PROVE t[i] = IF i = Len(r) THEN Unpadded(s[i]) ELSE s[i]
    BY <1>1, <1>3, <1>5, <2>1 DEF Unpadded
  <2> QED
    BY <1>1, <2>1, <2>2
<1> QED
  BY <1>4, <1>5

LEMMA UnpaddedIs ==
  ASSUME NEW line, LineOK(line)
  PROVE  /\ LineOK(Unpadded(line)) /\ Unpadded(line).k = line.k
         /\ Unpadded(Unpadded(line)) = Unpadded(line)
         /\ line.k = "text" => /\ Unpadded(line) = [k |-> "text", t |-> line.t, pad |-> FALSE, n |-> line.n]
                               /\ (line.pad = FALSE => Unpadded(line) = line)
<1>1. CASE line.k = "text"
  <2>1. line = [k |-> "text", t |-> line.t, pad |-> line.pad, n |-> line.n]
    BY <1>1 DEF LineOK
  <2>2. Unpadded(line) = [k |-> "text", t |-> line.t, pad |-> FALSE, n |-> line.n]
    BY <1>1, <2>1 DEF Unpadded
  <2> QED
    BY <1>1, <2>1, <2>2 DEF Unpadded, LineOK
<1>2. CASE line.k # "text"
  BY <1>2 DEF Unpadded, LineOK
<1> QED
  BY <1>1, <1>2

LEMMA CleanedOK ==
  ASSUME NEW s, LinesOK(s)
  PROVE  LinesOK(Cleaned(s)) /\ LinesOK(TrimEnd(s))
<1>1. PICK r, t : r = TrimEnd(s) /\ t = Cleaned(s)
  OBVIOUS
<1>2. IsSeq(s) /\ \A i \in 1 .. Len(s) : LineOK(s[i])
  BY DEF LinesOK
<1>3. IsSeq(r) /\ Len(r) \in 0 .. Len(s) /\ Len(s) \in Nat /\ \A i \in 1 .. Len(r) : r[i] = s[i]
  BY <1>1, <1>2, TrimIs
<1>4. /\ IsSeq(t) /\ Len(t) = Len(r)
      /\ \A i \in 1 .. Len(r) : t[i] = IF i = Len(r) THEN Unpadded(s[i]) ELSE s[i]
  BY <1>1, <1>2, CleanedIs
<1>5. ASSUME NEW i \in 1 .. Len(r) PROVE LineOK(s[i]) /\ LineOK(Unpadded(s[i]))
  <2>1. LineOK(s[i])
    BY <1>2, <1>3
  <2> QED
    BY <2>1, UnpaddedIs
<1> QED
  BY <1>1, <1>3, <1>4, <1>5 DEF LinesOK

\* Cleaning is idempotent, also after trimming.
LEMMA CleanedAgain ==
  ASSUME NEW s, LinesOK(s)
  PROVE  Cleaned(Cleaned(s)) = Cleaned(s) /\ Cleaned(TrimEnd(s)) = Cleaned(s)
<1>1. PICK r, t, u, w : r = TrimEnd(s) /\ t = Cleaned(s) /\ u = Cleaned(t) /\ w = Cleaned(r)
  OBVIOUS
<1>2. IsSeq(s) /\ \A i \in 1 .. Len(s) : LineOK(s[i])
  BY DEF LinesOK
<1>3. /\ IsSeq(r) /\ Len(r) \in 0 .. Len(s) /\ Len(s) \in Nat /\ \A i \in 1 .. Len(r) : r[i] = s[i]
      /\ Len(r) # 0 => ~IsBlank(s[Len(r)])
  BY <1>1, <1>2, TrimIs
<1>4. /\ IsSeq(t) /\ Len(t) = Len(r)
      /\ \A i \in 1 .. Len(r) : t[i] = IF i = Len(r) THEN Unpadded(s[i]) ELSE s[i]
  BY <1>1, <1>2, CleanedIs
<1>5. ASSUME NEW i \in 1 .. Len(r) PROVE Unpadded(s[i]).k = s[i].k /\ Unpadded(Unpadded(s[i])) = Unpadded(s[i])
  <2>1. LineOK(s[i])
    BY <1>2, <1>3
  <2> QED
    BY <2>1, UnpaddedIs
<1>6. TrimEnd(r) = r
  BY <1>1, <1>2, TrimAgain
<1>7. IsSeq(w) /\ Len(w) = Len(r) /\ \A i \in 1 .. Len(r) : w[i] = IF i = Len(r) THEN Unpadded(r[i]) ELSE r[i]
  BY <1>1, <1>3, <1>6, CleanedIs
<1>8. w = t
  <2>1. \A i \in 1 .. Len(w) : w[i] = t[i]
    BY <1>3, <1>4, <1>7
  <2> QED
    BY <1>4, <1>7, <2>1, SameSeq
<1>9. PICK q : q = TrimEnd(t)
  OBVIOUS
<1>10. Len(q) = Len(t) /\ \A i \in 1 .. Len(t) : q[i] = t[i]
  <2>1. Len(t) \in 0 .. Len(t) /\ \A i \in 1 .. Len(t) : i > Len(t) => IsBlank(t[i])
    BY <1>3, <1>4
  <2>2. Len(t) # 0 => ~IsBlank(t[Len(t)])
    BY <1>3, <1>4, <1>5 DEF IsBlank
  <2> QED
    BY <1>4, <1>9, <2>1, <2>2, TrimAt
<1>11. IsSeq(u) /\ Len(u) = Len(t) /\ \A i \in 1 .. Len(t) : u[i] = IF i = Len(t) THEN Unpadded(t[i]) ELSE t[i]
  BY <1>1, <1>4, <1>9, <1>10, CleanedIs
<1>12. u = t
  <2>1. ASSUME NEW i \in 1 .. Len(u) PROVE u[i] = t[i]
    BY <1>4, <1>5, <1>11
  <2> QED
    BY <1>4, <1>11, <2>1, SameSeq
<1> QED
  BY <1>1, <1>8, <1>12

-----------------------------------------------------------------------------
(* The number among messages that look the same.                           *)

Copies(s, m) == {j \in 1 .. Len(s) : Alike(s[j], m)}
SeqAt(s, i)  == Cardinality({j \in 1 .. i - 1 : Alike(s[j], s[i])})

Lower(E, e) == {x \in E : x < e}

\* The ranks of finitely many numbers are 0, 1 and so on.
LEMMA RankedInts ==
  ASSUME NEW E, IsFiniteSet(E), E \subseteq Int
  PROVE  /\ \A e, f \in E : e < f => Cardinality(Lower(E, e)) < Cardinality(Lower(E, f))
         /\ Cardinality(E) \in Nat
         /\ \A e \in E : Cardinality(Lower(E, e)) \in 0 .. Cardinality(E) - 1
         /\ \A n \in 0 .. Cardinality(E) - 1 : \E e \in E : Cardinality(Lower(E, e)) = n
<1> USE DEF Lower
<1>1. ASSUME NEW e \in E
      PROVE  IsFiniteSet(Lower(E, e)) /\ Cardinality(Lower(E, e)) \in 0 .. Cardinality(E) - 1 /\ Cardinality(E) \in Nat
  <2>1. Lower(E, e) \subseteq E /\ e \in E /\ e \notin Lower(E, e) /\ Lower(E, e) # E
    OBVIOUS
  <2> HIDE DEF Lower
  <2>2. IsFiniteSet(Lower(E, e)) /\ Cardinality(Lower(E, e)) \in Nat /\ Cardinality(E) \in Nat /\ Cardinality(Lower(E, e)) < Cardinality(E)
    BY <2>1, Smaller
  <2> QED
    BY <2>2
<1>2. ASSUME NEW e \in E, NEW f \in E, e < f PROVE Cardinality(Lower(E, e)) < Cardinality(Lower(E, f))
  <2>1. e \in Int /\ f \in Int
    OBVIOUS
  <2>2. ASSUME NEW x \in E, x < e PROVE x < f
    <3>1. x \in Int
      OBVIOUS
    <3> QED
      BY <1>2, <2>1, <2>2, <3>1
  <2>3. Lower(E, e) \subseteq Lower(E, f) /\ e \in Lower(E, f) /\ e \notin Lower(E, e)
    <3>1. Lower(E, e) \subseteq Lower(E, f)
      BY <2>2
    <3>2. e \in Lower(E, f)
      BY <1>2
    <3>3. ~(e < e)
      BY <2>1
    <3> QED
      BY <3>1, <3>2, <3>3
  <2>4. IsFiniteSet(Lower(E, f)) /\ Lower(E, e) # Lower(E, f)
    BY <1>1, <2>3
  <2> HIDE DEF Lower
  <2> QED
    BY <2>3, <2>4, Smaller
<1>3. Cardinality(E) \in Nat
  BY FS_CardinalityType
<1>4. PICK rank : rank = [e \in E |-> Cardinality(Lower(E, e)) + 1]
  OBVIOUS
<1>5. PICK N : N = 1 .. Cardinality(E)
  OBVIOUS
<1> HIDE DEF Lower
<1>6. IsFiniteSet(N) /\ Cardinality(N) = Cardinality(E)
  BY <1>3, <1>5, FS_Interval
<1>7. rank \in [E -> N]
  BY <1>1, <1>4, <1>5
<1>8. ASSUME NEW e \in E, NEW f \in E, rank[e] = rank[f] PROVE e = f
  <2>1. e \in Int /\ f \in Int /\ Cardinality(Lower(E, e)) \in Int /\ Cardinality(Lower(E, f)) \in Int
    BY <1>1
  <2>2. Cardinality(Lower(E, e)) = Cardinality(Lower(E, f))
    BY <1>4, <1>8, <2>1
  <2>3. ~(e < f) /\ ~(f < e)
    BY <1>2, <2>1, <2>2
  <2> QED
    BY <2>1, <2>3
<1>9. rank \in Injection(E, N)
  BY <1>7, <1>8, Fun_IsInj
<1>10. rank \in Surjection(E, N)
  BY <1>6, <1>9, FS_Injection
<1>11. ASSUME NEW n \in 0 .. Cardinality(E) - 1 PROVE \E e \in E : Cardinality(Lower(E, e)) = n
  <2>1. n + 1 \in N
    BY <1>3, <1>5
  <2>2. PICK e \in E : rank[e] = n + 1
    BY <1>10, <2>1 DEF Surjection
  <2>3. Cardinality(Lower(E, e)) \in Int /\ rank[e] = Cardinality(Lower(E, e)) + 1
    BY <1>1, <1>4
  <2> QED
    BY <2>2, <2>3
<1>12. /\ \A e, f \in E : e < f => Cardinality(Lower(E, e)) < Cardinality(Lower(E, f))
       /\ \A e \in E : Cardinality(Lower(E, e)) \in 0 .. Cardinality(E) - 1
  BY <1>1, <1>2
<1> QED
  BY <1>3, <1>11, <1>12

LEMMA WithSeqIs ==
  ASSUME NEW s, IsSeq(s), NEW t, t = WithSeq(s)
  PROVE  /\ IsSeq(t) /\ Len(t) = Len(s) /\ Len(s) \in Nat /\ DOMAIN t = 1 .. Len(s)
         /\ \A i \in 1 .. Len(s) : t[i] = AsRow(s[i], SeqAt(s, i))
<1>1. Len(s) \in Nat /\ DOMAIN s = 1 .. Len(s)
  BY DEF IsSeq
<1>2. t = [i \in 1 .. Len(s) |-> AsRow(s[i], SeqAt(s, i))]
  BY <1>1 DEF WithSeq, SeqAt
<1>3. OfLength(t, Len(s))
  BY <1>1, <1>2 DEF OfLength
<1>4. IsSeq(t) /\ Len(t) = Len(s)
  BY <1>3, SeqListed
<1> QED
  BY <1>1, <1>2, <1>4

\* The copies of a message are numbered from 0 on.
LEMMA PlacesAre ==
  ASSUME NEW s, IsSeq(s), NEW m, NEW E, E = Copies(s, m)
  PROVE  /\ IsFiniteSet(E) /\ Cardinality(E) \in Nat
         /\ \A i \in E : SeqAt(s, i) \in 0 .. Cardinality(E) - 1
         /\ \A i, j \in E : i < j => SeqAt(s, i) < SeqAt(s, j)
         /\ \A n \in 0 .. Cardinality(E) - 1 : \E i \in E : SeqAt(s, i) = n
<1>1. Len(s) \in Nat
  BY DEF IsSeq
<1>2. E \subseteq 1 .. Len(s) /\ E \subseteq Int
  BY DEF Copies
<1>3. IsFiniteSet(E)
  <2>1. IsFiniteSet(1 .. Len(s)) /\ E \in SUBSET (1 .. Len(s))
    BY <1>1, <1>2, FS_Interval
  <2> QED
    BY <2>1, FS_Subset
<1>4. ASSUME NEW i \in E PROVE SeqAt(s, i) = Cardinality(Lower(E, i))
  <2>1. {j \in 1 .. i - 1 : Alike(s[j], s[i])} = Lower(E, i)
    <3>1. i \in 1 .. Len(s) /\ Alike(s[i], m)
      BY DEF Copies
    <3>2. ASSUME NEW j \in 1 .. i - 1 PROVE Alike(s[j], s[i]) <=> j \in E
      BY <1>1, <3>1 DEF Copies, Alike
    <3>3. \A x \in E : x < i => x \in 1 .. i - 1
      BY <1>1, <1>2, <3>1
    <3>4. \A j \in 1 .. i - 1 : j < i
      BY <3>1
    <3> QED
      BY <3>2, <3>3, <3>4 DEF Lower
  <2> QED
    BY <2>1 DEF SeqAt
<1>5. /\ \A e, f \in E : e < f => Cardinality(Lower(E, e)) < Cardinality(Lower(E, f))
      /\ Cardinality(E) \in Nat
      /\ \A e \in E : Cardinality(Lower(E, e)) \in 0 .. Cardinality(E) - 1
      /\ \A n \in 0 .. Cardinality(E) - 1 : \E e \in E : Cardinality(Lower(E, e)) = n
  <2>1. IsFiniteSet(E) /\ E \subseteq Int
    BY <1>2, <1>3
  <2> QED
    BY <2>1, RankedInts
<1> QED
  BY <1>3, <1>4, <1>5

\* Rows with one number do not look the same.
LEMMA PlacesDiffer ==
  ASSUME NEW s, IsSeq(s), NEW i \in 1 .. Len(s), NEW j \in 1 .. Len(s), Alike(s[i], s[j]), SeqAt(s, i) = SeqAt(s, j)
  PROVE  i = j
<1>1. PICK E : E = Copies(s, s[j])
  OBVIOUS
<1>2. i \in E /\ j \in E
  BY <1>1 DEF Copies, Alike
<1>3. /\ Cardinality(E) \in Nat
      /\ \A k \in E : SeqAt(s, k) \in 0 .. Cardinality(E) - 1
      /\ \A k, l \in E : k < l => SeqAt(s, k) < SeqAt(s, l)
  BY <1>1, PlacesAre
<1>4. SeqAt(s, i) \in Int /\ SeqAt(s, j) \in Int /\ i \in Int /\ j \in Int
  BY <1>2, <1>3
<1>5. ~(i < j) /\ ~(j < i)
  BY <1>2, <1>3, <1>4
<1> QED
  BY <1>4, <1>5

\* A list that has at least as many copies of a message as another list has every
\* number of theirs.
LEMMA Lasting ==
  ASSUME NEW s, IsSeq(s), NEW t, IsSeq(t), NEW i \in 1 .. Len(s),
         NEW g \in [Copies(s, s[i]) -> Copies(t, s[i])],
         \A a, b \in Copies(s, s[i]) : g[a] = g[b] => a = b
  PROVE  \E j \in 1 .. Len(t) : Alike(t[j], s[i]) /\ SeqAt(t, j) = SeqAt(s, i)
<1>1. PICK E, F : E = Copies(s, s[i]) /\ F = Copies(t, s[i])
  OBVIOUS
<1>2. IsFiniteSet(E) /\ Cardinality(E) \in Nat /\ \A k \in E : SeqAt(s, k) \in 0 .. Cardinality(E) - 1
  BY <1>1, PlacesAre
<1>3. IsFiniteSet(F) /\ Cardinality(F) \in Nat /\ \A n \in 0 .. Cardinality(F) - 1 : \E k \in F : SeqAt(t, k) = n
  BY <1>1, PlacesAre
<1>4. g \in Injection(E, F)
  BY <1>1, Fun_IsInj
<1>5. Cardinality(E) <= Cardinality(F)
  BY <1>3, <1>4, FS_Injection
<1>6. i \in E
  BY <1>1 DEF Copies, Alike
<1>7. SeqAt(s, i) \in 0 .. Cardinality(F) - 1
  BY <1>2, <1>3, <1>5, <1>6
<1>8. PICK j \in F : SeqAt(t, j) = SeqAt(s, i)
  BY <1>3, <1>7
<1> QED
  BY <1>1, <1>8 DEF Copies

-----------------------------------------------------------------------------
(* What a loop collects: a list that grows, by one element in the steps D. *)

Gathers(lists, n, D, row) ==
  /\ n \in Nat /\ D \subseteq 1 .. n
  /\ \A k \in 0 .. n : IsSeq(lists[k])
  /\ \A k \in 1 .. n : Grows(lists[k - 1], lists[k])
  /\ \A k \in D : lists[k] = Append(lists[k - 1], row[k])

LEMMA GrowsOn ==
  ASSUME NEW lists, NEW n, NEW D, NEW row, Gathers(lists, n, D, row), NEW i \in 0 .. n, NEW j \in 0 .. n, i <= j
  PROVE  Grows(lists[i], lists[j])
<1> DEFINE Bad == {k \in i .. n : ~Grows(lists[i], lists[k])}
<1>1. n \in Nat /\ \A k \in 0 .. n : IsSeq(lists[k])
  BY DEF Gathers
<1>2. \A k \in 0 .. n : Len(lists[k]) \in Nat
  BY <1>1 DEF IsSeq
<1>3. Bad = {}
  <2> SUFFICES ASSUME Bad # {} PROVE FALSE
    OBVIOUS
  <2>1. Bad \subseteq Nat
    BY <1>1
  <2>2. PICK m \in Bad : \A k \in Bad : m <= k
    BY <2>1, LeastOf
  <2>3. m \in i .. n /\ ~Grows(lists[i], lists[m])
    OBVIOUS
  <2>4. m # i
    BY <1>2, <2>3 DEF Grows
  <2>5. m - 1 \in i .. n /\ m \in 1 .. n
    BY <1>1, <2>3, <2>4
  <2>6. Grows(lists[i], lists[m - 1])
    BY <2>2, <2>5
  <2>7. Grows(lists[m - 1], lists[m])
    BY <2>5 DEF Gathers
  <2>8. PICK a, b, c : a = lists[i] /\ b = lists[m - 1] /\ c = lists[m]
    OBVIOUS
  <2>9. Len(a) \in Nat /\ Len(b) \in Nat /\ Len(c) \in Nat
    BY <1>1, <1>2, <2>5, <2>8
  <2>10. Grows(a, b) /\ Grows(b, c)
    BY <2>6, <2>7, <2>8
  <2>11. Grows(a, c)
    BY <2>9, <2>10 DEF Grows
  <2> QED
    BY <2>3, <2>8, <2>11
<1>4. j \in i .. n
  BY <1>1
<1> QED
  BY <1>3, <1>4

\* Where each element is in the end: in the order of the steps.
LEMMA Collected ==
  ASSUME NEW lists, NEW n, NEW D, NEW row, Gathers(lists, n, D, row), NEW list, list = lists[n]
  PROVE  /\ IsSeq(list)
         /\ \A k \in D : Len(lists[k]) \in 1 .. Len(list) /\ list[Len(lists[k])] = row[k]
         /\ \A i, j \in D : i < j => Len(lists[i]) < Len(lists[j])
<1>1. n \in Nat /\ D \subseteq 1 .. n /\ \A k \in 0 .. n : IsSeq(lists[k])
  BY DEF Gathers
<1>2. \A k \in 0 .. n : Len(lists[k]) \in Nat
  BY <1>1 DEF IsSeq
<1>3. IsSeq(list) /\ Len(list) \in Nat
  BY <1>1, <1>2
<1>4. ASSUME NEW k \in D
      PROVE  /\ k \in 0 .. n /\ k - 1 \in 0 .. n /\ Len(lists[k]) = Len(lists[k - 1]) + 1
             /\ lists[k][Len(lists[k])] = row[k]
  <2>1. k \in 0 .. n /\ k - 1 \in 0 .. n
    BY <1>1
  <2>2. PICK a, b : a = lists[k - 1] /\ b = lists[k]
    OBVIOUS
  <2>3. IsSeq(a) /\ b = Append(a, row[k])
    BY <1>1, <2>1, <2>2 DEF Gathers
  <2>4. Len(b) = Len(a) + 1 /\ b[Len(a) + 1] = row[k]
    BY <2>3, Appended
  <2> QED
    BY <2>1, <2>2, <2>4
<1>5. ASSUME NEW k \in D PROVE Len(lists[k]) \in 1 .. Len(list) /\ list[Len(lists[k])] = row[k]
  <2>1. k <= n
    BY <1>1
  <2>2. Grows(lists[k], list)
    BY <1>1, <1>4, <2>1, GrowsOn
  <2>3. Len(lists[k]) \in 1 .. Len(lists[k])
    BY <1>2, <1>4
  <2> QED
    BY <1>3, <1>4, <2>2, <2>3 DEF Grows
<1>6. ASSUME NEW i \in D, NEW j \in D, i < j PROVE Len(lists[i]) < Len(lists[j])
  <2>1. i <= j - 1
    BY <1>1, <1>6
  <2>2. Grows(lists[i], lists[j - 1])
    BY <1>4, <2>1, GrowsOn
  <2> QED
    BY <1>2, <1>4, <2>2 DEF Grows
<1> QED
  BY <1>3, <1>5, <1>6

\* And nothing else is there, if the other steps add nothing.
LEMMA CollectedAll ==
  ASSUME NEW lists, NEW n, NEW D, NEW row, Gathers(lists, n, D, row), lists[0] = <<>>,
         \A k \in 1 .. n : k \notin D => lists[k] = lists[k - 1], NEW p \in 1 .. Len(lists[n])
  PROVE  \E k \in D : Len(lists[k]) = p
<1> DEFINE Good(k) == \A q \in 1 .. Len(lists[k]) : \E i \in D : Len(lists[i]) = q
           Bad == {k \in 0 .. n : ~Good(k)}
<1>1. n \in Nat /\ D \subseteq 1 .. n /\ \A k \in 0 .. n : IsSeq(lists[k])
  BY DEF Gathers
<1>2. \A k \in 0 .. n : Len(lists[k]) \in Nat
  BY <1>1 DEF IsSeq
<1>3. Bad = {}
  <2> SUFFICES ASSUME Bad # {} PROVE FALSE
    OBVIOUS
  <2>1. Bad \subseteq Nat
    BY <1>1
  <2>2. PICK m \in Bad : \A k \in Bad : m <= k
    BY <2>1, LeastOf
  <2>3. m \in 0 .. n /\ ~Good(m)
    OBVIOUS
  <2>4. m # 0
    <3>1. Len(lists[0]) = 0
      BY Short
    <3> QED
      BY <2>3, <3>1
  <2>5. m - 1 \in 0 .. n /\ m \in 1 .. n
    BY <1>1, <2>3, <2>4
  <2>6. Good(m - 1)
    BY <2>2, <2>5
  <2>7. CASE m \notin D
    BY <2>3, <2>5, <2>6, <2>7
  <2>8. CASE m \in D
    <3>1. PICK a, b : a = lists[m - 1] /\ b = lists[m]
      OBVIOUS
    <3>2. IsSeq(a) /\ b = Append(a, row[m])
      BY <1>1, <2>5, <2>8, <3>1 DEF Gathers
    <3>3. Len(b) = Len(a) + 1
      BY <3>2, Appended
    <3>4. Len(lists[m]) = Len(lists[m - 1]) + 1 /\ Len(lists[m - 1]) \in Nat
      BY <1>2, <2>5, <3>1, <3>3
    <3>5. ASSUME NEW q \in 1 .. Len(lists[m]) PROVE \E i \in D : Len(lists[i]) = q
      <4>1. CASE q = Len(lists[m])
        BY <2>8, <4>1
      <4>2. CASE q # Len(lists[m])
        <5>1. q \in 1 .. Len(lists[m - 1])
          BY <3>4, <4>2
        <5> QED
          BY <2>6, <5>1
      <4> QED
        BY <4>1, <4>2
    <3> QED
      BY <2>3, <3>5
  <2> QED
    BY <2>7, <2>8
<1>4. n \in 0 .. n
  BY <1>1
<1>5. Good(n)
  BY <1>3, <1>4
<1> QED
  BY <1>5

-----------------------------------------------------------------------------
(* Signal: what reading a message leaves.                                  *)

SignalState(x) ==
  x = [open |-> x.open, ts |-> x.ts, sender |-> x.sender, lines |-> x.lines, out |-> x.out]

LEMMA ReadSignalRuns ==
  ASSUME NEW x, NEW lines, IsSeq(lines)
  PROVE  \E run : /\ run[0] = x /\ \A k \in 1 .. Len(lines) : run[k] = signalLine(run[k - 1], lines[k])
                  /\ readSignal(x, lines) = run[Len(lines)]
<1>1. PICK n \in Nat : n = Len(lines)
  BY DEF IsSeq
<1> DEFINE at == CHOOSE at : at = [k \in 0 .. n |-> IF k = 0 THEN x ELSE signalLine(at[k - 1], lines[k])]
<1>2. at = [k \in 0 .. n |-> IF k = 0 THEN x ELSE signalLine(at[k - 1], lines[k])]
  <2>1. \E run : Runs(run, "signal", x, lines, n)
    BY RunsExist
  <2> QED
    BY <2>1 DEF Runs, Step
<1>3. readSignal(x, lines) = at[n]
  BY <1>1 DEF readSignal
<1> HIDE DEF at
<1>4. at[0] = x /\ \A k \in 1 .. n : at[k] = signalLine(at[k - 1], lines[k])
  BY <1>2
<1> QED
  BY <1>1, <1>3, <1>4

LEMMA ParseSignalRuns ==
  ASSUME NEW chat, IsSeq(chat)
  PROVE  \E run : /\ run[0] = NoText /\ \A k \in 1 .. Len(chat) : run[k] = readSignal(run[k - 1], SignalLines(chat[k]))
                  /\ ParseSignal(chat) = WithSeq(flushSignal(run[Len(chat)]))
<1>1. PICK n \in Nat : n = Len(chat)
  BY DEF IsSeq
<1> DEFINE at == CHOOSE at : at = [k \in 0 .. n |-> IF k = 0 THEN NoText ELSE readSignal(at[k - 1], SignalLines(chat[k]))]
<1>2. at = [k \in 0 .. n |-> IF k = 0 THEN NoText ELSE readSignal(at[k - 1], SignalLines(chat[k]))]
  <2>1. \E run : Runs(run, "signalChat", NoText, chat, n)
    BY RunsExist
  <2> QED
    BY <2>1 DEF Runs, Step
<1>3. ParseSignal(chat) = WithSeq(flushSignal(at[n]))
  BY <1>1 DEF ParseSignal
<1> HIDE DEF at
<1>4. at[0] = NoText /\ \A k \in 1 .. n : at[k] = readSignal(at[k - 1], SignalLines(chat[k]))
  BY <1>2
<1> QED
  BY <1>1, <1>3, <1>4

\* A line adds what the line before it left to the list, or nothing.
LEMMA SignalLineIs ==
  ASSUME NEW x, SignalState(x), NEW line
  PROVE  /\ SignalState(signalLine(x, line))
         /\ line.k = "anchor" =>
              signalLine(x, line) = [open |-> None \notin {line.ts, line.sender}, ts |-> line.ts, sender |-> line.sender,
                                     lines |-> <<line.line>>, out |-> flushSignal(x)]
         /\ line.k # "anchor" => /\ signalLine(x, line).out = x.out /\ signalLine(x, line).open = x.open
                                 /\ x.open => signalLine(x, line) =
                                      [open |-> x.open, ts |-> x.ts, sender |-> x.sender,
                                       lines |-> Append(x.lines, line), out |-> x.out]
<1>1. CASE line.k = "anchor"
  <2>1. signalLine(x, line) = [open |-> None \notin {line.ts, line.sender}, ts |-> line.ts, sender |-> line.sender,
                               lines |-> <<line.line>>, out |-> flushSignal(x)]
    BY <1>1 DEF signalLine
  <2> QED
    BY <1>1, <2>1 DEF SignalState
<1>2. CASE line.k # "anchor" /\ x.open
  <2>1. signalLine(x, line) = [x EXCEPT !.lines = Append(@, line)]
    BY <1>2 DEF signalLine
  <2>2. signalLine(x, line) = [open |-> x.open, ts |-> x.ts, sender |-> x.sender,
                               lines |-> Append(x.lines, line), out |-> x.out]
    BY <2>1 DEF SignalState
  <2> QED
    BY <1>2, <2>2 DEF SignalState
<1>3. CASE line.k # "anchor" /\ ~x.open
  <2>1. signalLine(x, line) = x
    BY <1>3 DEF signalLine
  <2> QED
    BY <1>3, <2>1
<1> QED
  BY <1>1, <1>2, <1>3

LEMMA SignalLineKeeps ==
  ASSUME NEW x, SignalState(x), NEW line, NEW w, w = signalLine(x, line)
  PROVE  SignalState(w)
BY SignalLineIs

LEMMA AnchorIs ==
  ASSUME NEW x, NEW line, line.k = "anchor"
  PROVE  signalLine(x, line) = [open |-> None \notin {line.ts, line.sender}, ts |-> line.ts, sender |-> line.sender,
                                lines |-> <<line.line>>, out |-> flushSignal(x)]
BY DEF signalLine

LEMMA SignalFlushed ==
  ASSUME NEW x, IsSeq(x.out)
  PROVE  IsSeq(flushSignal(x)) /\ Grows(x.out, flushSignal(x))
<1>1. PICK f : f = flushSignal(x)
  OBVIOUS
<1>2. Len(x.out) \in Nat
  BY DEF IsSeq
<1>3. CASE x.open
  <2>1. PICK o : o = x.out
    OBVIOUS
  <2>2. PICK e : f = Append(o, e)
    BY <1>1, <1>3, <2>1 DEF flushSignal
  <2>3. IsSeq(o)
    BY <2>1
  <2>4. IsSeq(f) /\ Len(f) = Len(o) + 1
    BY <2>2, <2>3, Appended
  <2>5. \A i \in 1 .. Len(o) : f[i] = o[i]
    BY <2>2, <2>3, Appended
  <2> QED
    BY <1>1, <1>2, <2>1, <2>4, <2>5 DEF Grows
<1>4. CASE ~x.open
  BY <1>2, <1>4 DEF flushSignal, Grows
<1> QED
  BY <1>3, <1>4

LEMMA GrowsToo ==
  ASSUME NEW a, IsSeq(a), NEW b, IsSeq(b), NEW c, IsSeq(c), Grows(a, b), Grows(b, c)
  PROVE  Grows(a, c)
<1>1. Len(a) \in Nat /\ Len(b) \in Nat /\ Len(c) \in Nat
  BY DEF IsSeq
<1> QED
  BY <1>1 DEF Grows

\* Whatever a message imitates, the messages before it stay as they were read.
LEMMA SignalGrows ==
  ASSUME NEW x, SignalState(x), IsSeq(x.out), NEW lines, IsSeq(lines), Len(lines) > 0, lines[1].k = "anchor",
         NEW y, y = readSignal(x, lines)
  PROVE  /\ SignalState(y) /\ IsSeq(y.out) /\ IsSeq(flushSignal(x)) /\ IsSeq(flushSignal(y))
         /\ Grows(flushSignal(x), flushSignal(y))
<1>1. PICK n \in Nat : n = Len(lines)
  BY DEF IsSeq
<1>2. PICK run : /\ run[0] = x /\ \A k \in 1 .. n : run[k] = signalLine(run[k - 1], lines[k])
                 /\ y = run[n]
  BY <1>1, ReadSignalRuns
<1>3. PICK f : f = flushSignal(x)
  OBVIOUS
<1>4. IsSeq(f)
  BY <1>3, SignalFlushed
<1> DEFINE Good(k) == SignalState(run[k]) /\ IsSeq(run[k].out) /\ Grows(f, run[k].out)
           Bad == {k \in 1 .. n : ~Good(k)}
<1>5. Good(1)
  <2>1. PICK w, line : w = run[1] /\ line = lines[1] /\ w = signalLine(x, line) /\ line.k = "anchor"
    BY <1>1, <1>2
  <2>2. SignalState(w)
    BY <2>1, SignalLineKeeps
  <2>3. signalLine(x, line) = [open |-> None \notin {line.ts, line.sender}, ts |-> line.ts, sender |-> line.sender,
                               lines |-> <<line.line>>, out |-> flushSignal(x)]
    BY <2>1, AnchorIs
  <2>4. w.out = f
    BY <1>3, <2>1, <2>3
  <2>5. Len(f) \in Nat
    BY <1>4 DEF IsSeq
  <2> QED
    BY <1>4, <2>1, <2>2, <2>4, <2>5 DEF Grows
<1>6. ASSUME NEW k \in 2 .. n, Good(k - 1) PROVE Good(k)
  <2>1. PICK u, w, line : u = run[k - 1] /\ w = run[k] /\ line = lines[k]
    OBVIOUS
  <2>2. w = signalLine(u, line) /\ SignalState(u) /\ IsSeq(u.out) /\ Grows(f, u.out)
    BY <1>1, <1>2, <1>6, <2>1
  <2>3. SignalState(w) /\ w.out \in {u.out, flushSignal(u)}
    <3>1. CASE line.k = "anchor"
      BY <2>2, <3>1, SignalLineIs
    <3>2. CASE line.k # "anchor"
      BY <2>2, <3>2, SignalLineIs
    <3> QED
      BY <3>1, <3>2
  <2>4. IsSeq(flushSignal(u)) /\ Grows(u.out, flushSignal(u))
    BY <2>2, SignalFlushed
  <2>5. IsSeq(w.out) /\ Grows(f, w.out)
    BY <1>4, <2>2, <2>3, <2>4, GrowsToo
  <2> QED
    BY <2>1, <2>3, <2>5
<1>7. Bad = {}
  <2> SUFFICES ASSUME Bad # {} PROVE FALSE
    OBVIOUS
  <2>0. Bad \subseteq Nat
    BY <1>1
  <2>1. PICK m \in Bad : \A k \in Bad : m <= k
    BY <2>0, LeastOf
  <2>2. m \in 1 .. n /\ ~Good(m)
    OBVIOUS
  <2>3. m # 1
    BY <1>5, <2>2
  <2>4. m \in 2 .. n /\ m - 1 \in 1 .. n
    BY <1>1, <2>2, <2>3
  <2>5. Good(m - 1)
    BY <2>1, <2>4
  <2> QED
    BY <1>6, <2>2, <2>4, <2>5
<1>8. Good(n)
  BY <1>1, <1>7
<1>9. SignalState(y) /\ IsSeq(y.out) /\ Grows(f, y.out)
  BY <1>2, <1>8
<1>10. IsSeq(flushSignal(y)) /\ Grows(y.out, flushSignal(y))
  BY <1>9, SignalFlushed
<1> QED
  BY <1>3, <1>4, <1>9, <1>10, GrowsToo

\* A message that was read, as yet without an end.
ReadAs(y, lines, f) ==
  /\ y.open /\ y.ts = lines[1].ts /\ y.sender = lines[1].sender /\ y.out = f
  /\ IsSeq(y.lines) /\ Len(y.lines) = Len(lines)
  /\ y.lines[1] = lines[1].line /\ \A i \in 2 .. Len(lines) : y.lines[i] = lines[i]

\* A message without a line that looks like the beginning of one.
LEMMA SignalReads ==
  ASSUME NEW x, SignalState(x), NEW lines, IsSeq(lines), Len(lines) > 0,
         lines[1].k = "anchor", \A i \in 2 .. Len(lines) : lines[i].k # "anchor",
         NEW y, y = readSignal(x, lines)
  PROVE  /\ None \in {lines[1].ts, lines[1].sender} => flushSignal(y) = flushSignal(x)
         /\ None \notin {lines[1].ts, lines[1].sender} => ReadAs(y, lines, flushSignal(x))
<1>1. PICK n \in Nat : n = Len(lines)
  BY DEF IsSeq
<1>2. PICK run : /\ run[0] = x /\ \A k \in 1 .. n : run[k] = signalLine(run[k - 1], lines[k])
                 /\ y = run[n]
  BY <1>1, ReadSignalRuns
<1>3. PICK f, a : f = flushSignal(x) /\ a = lines[1]
  OBVIOUS
<1> DEFINE Good(k) ==
      /\ SignalState(run[k]) /\ run[k].out = f /\ run[k].open = (None \notin {a.ts, a.sender})
      /\ None \notin {a.ts, a.sender} =>
           /\ run[k].ts = a.ts /\ run[k].sender = a.sender
           /\ IsSeq(run[k].lines) /\ Len(run[k].lines) = k
           /\ run[k].lines[1] = a.line /\ \A i \in 2 .. k : run[k].lines[i] = lines[i]
           Bad == {k \in 1 .. n : ~Good(k)}
<1>4. Good(1)
  <2>1. PICK w : w = run[1]
    OBVIOUS
  <2>2. w = signalLine(x, a)
    BY <1>1, <1>2, <1>3, <2>1
  <2>3. a.k = "anchor"
    BY <1>3
  <2>4. signalLine(x, a) = [open |-> None \notin {a.ts, a.sender}, ts |-> a.ts, sender |-> a.sender,
                            lines |-> <<a.line>>, out |-> flushSignal(x)]
    BY <2>3, SignalLineIs
  <2>5. w = [open |-> None \notin {a.ts, a.sender}, ts |-> a.ts, sender |-> a.sender,
             lines |-> <<a.line>>, out |-> f]
    BY <1>3, <2>2, <2>4
  <2>6. w.lines = <<a.line>> /\ IsSeq(w.lines) /\ Len(w.lines) = 1 /\ w.lines[1] = a.line
    BY <2>5, Short
  <2>7. SignalState(w)
    BY <2>2, SignalLineKeeps
  <2> QED
    BY <2>1, <2>5, <2>6, <2>7
<1>5. ASSUME NEW k \in 2 .. n, Good(k - 1) PROVE Good(k)
  <2>1. PICK u, w, line : u = run[k - 1] /\ w = run[k] /\ line = lines[k]
    OBVIOUS
  <2>2. w = signalLine(u, line) /\ SignalState(u) /\ u.out = f /\ u.open = (None \notin {a.ts, a.sender}) /\ line.k # "anchor"
    BY <1>1, <1>2, <1>5, <2>1
  <2>3. SignalState(w) /\ w.out = f /\ w.open = (None \notin {a.ts, a.sender})
    BY <2>2, SignalLineIs
  <2>4. ASSUME None \notin {a.ts, a.sender}
        PROVE  /\ w.ts = a.ts /\ w.sender = a.sender
               /\ IsSeq(w.lines) /\ Len(w.lines) = k
               /\ w.lines[1] = a.line /\ \A i \in 2 .. k : w.lines[i] = lines[i]
    <3>1. /\ u.ts = a.ts /\ u.sender = a.sender
          /\ IsSeq(u.lines) /\ Len(u.lines) = k - 1
          /\ u.lines[1] = a.line /\ \A i \in 2 .. k - 1 : u.lines[i] = lines[i]
      BY <1>5, <2>1, <2>4
    <3>2. w = [open |-> u.open, ts |-> u.ts, sender |-> u.sender, lines |-> Append(u.lines, line), out |-> u.out]
      BY <2>2, <2>4, SignalLineIs
    <3>3. PICK b, c : b = u.lines /\ c = w.lines
      OBVIOUS
    <3>4. c = Append(b, line)
      BY <3>2, <3>3
    <3>5. IsSeq(c) /\ Len(c) = Len(b) + 1 /\ (\A i \in 1 .. Len(b) : c[i] = b[i]) /\ c[Len(b) + 1] = line
      <4>1. IsSeq(b)
        BY <3>1, <3>3
      <4>2. IsSeq(c) /\ Len(c) = Len(b) + 1
        BY <3>4, <4>1, Appended
      <4>3. (\A i \in 1 .. Len(b) : c[i] = b[i]) /\ c[Len(b) + 1] = line
        BY <3>4, <4>1, Appended
      <4> QED
        BY <4>2, <4>3
    <3>6. Len(c) = k /\ c[1] = a.line /\ \A i \in 2 .. k : c[i] = lines[i]
      <4>1. Len(b) = k - 1 /\ b[1] = a.line /\ \A i \in 2 .. k - 1 : b[i] = lines[i]
        BY <3>1, <3>3
      <4>2. Len(c) = k /\ c[1] = a.line
        BY <1>1, <3>5, <4>1
      <4>3. ASSUME NEW i \in 2 .. k PROVE c[i] = lines[i]
        <5>1. CASE i = k
          BY <2>1, <3>5, <4>1, <5>1
        <5>2. CASE i # k
          <6>1. i \in 2 .. k - 1 /\ i \in 1 .. Len(b)
            BY <1>1, <4>1, <5>2
          <6> QED
            BY <3>5, <4>1, <6>1
        <5> QED
          BY <5>1, <5>2
      <4> QED
        BY <4>2, <4>3
    <3> QED
      BY <3>1, <3>2, <3>3, <3>5, <3>6
  <2> QED
    BY <2>1, <2>3, <2>4
<1>6. Bad = {}
  <2> SUFFICES ASSUME Bad # {} PROVE FALSE
    OBVIOUS
  <2>0. Bad \subseteq Nat
    BY <1>1
  <2>1. PICK m \in Bad : \A k \in Bad : m <= k
    BY <2>0, LeastOf
  <2>2. m \in 1 .. n /\ ~Good(m)
    OBVIOUS
  <2>3. m # 1
    BY <1>4, <2>2
  <2>4. m \in 2 .. n /\ m - 1 \in 1 .. n
    BY <1>1, <2>2, <2>3
  <2>5. Good(m - 1)
    BY <2>1, <2>4
  <2> QED
    BY <1>5, <2>2, <2>4, <2>5
<1>7. Good(n)
  BY <1>1, <1>6
<1>8. CASE None \in {a.ts, a.sender}
  <2>1. ~y.open /\ y.out = f
    BY <1>2, <1>7, <1>8
  <2>2. flushSignal(y) = f
    BY <2>1 DEF flushSignal
  <2> QED
    BY <1>3, <1>8, <2>2
<1>9. CASE None \notin {a.ts, a.sender}
  <2>1. ReadAs(y, lines, f)
    BY <1>1, <1>2, <1>3, <1>7, <1>9 DEF ReadAs
  <2> QED
    BY <1>3, <1>9, <2>1
<1> QED
  BY <1>3, <1>8, <1>9

-----------------------------------------------------------------------------
(* Signal: the body of a message.                                          *)

MessageOK(m) == SayingOK(m.say) /\ IsFiniteSet(m.reacted) /\ m.ts \in Int \union {None}
ChatOK(chat) == IsSeq(chat) /\ \A i \in 1 .. Len(chat) : MessageOK(chat[i])

TextOf(say)  == IF say.lines = <<>> THEN <<Blank>> ELSE say.lines
FilesOf(say) == IF say.files > 0 THEN <<Files(say.files)>> ELSE <<>>

\* The lines of a message that nobody has reacted to.
Quiet(say) ==
  CASE say.files > 0 -> IF Last(TextOf(say)).k = "text" THEN [TextOf(say) EXCEPT ![Len(TextOf(say))].n = say.files]
                        ELSE IF TextOf(say) = <<Blank>> THEN <<Files(say.files)>>
                        ELSE Append(TextOf(say), Files(say.files))
    [] OTHER -> TextOf(say)

\* What the parser makes of the lines, without and with reactions.
Unreacted(say) == TrimEnd(Quiet(say))
Reacted(say)   == Cleaned(TextOf(say)) \o FilesOf(say)
Body(m) == IF m.reacted # {} THEN Reacted(m.say) ELSE Unreacted(m.say)

\* The files that a line links.
FilesIn(line) == IF line.k \in {"text", "files", "trailer"} THEN line.n ELSE 0

\* A line without a file.
TextLine(line) ==
  /\ LineOK(line) /\ line.k # "files" /\ FilesIn(line) = 0
  /\ line.k = "text" => line.pad \in BOOLEAN

LEMMA LineIs ==
  ASSUME NEW n
  PROVE  /\ LineOK(Blank) /\ IsBlank(Blank) /\ TextLine(Blank) /\ Blank.k = "blank"
         /\ LineOK(Files(n)) /\ ~IsBlank(Files(n)) /\ FilesIn(Files(n)) = n /\ Files(n).k = "files"
BY DEF LineOK, TextLine, FilesIn, Blank, Files, IsBlank

LEMMA TextIs ==
  ASSUME NEW say, SayingOK(say), NEW s, s = TextOf(say)
  PROVE  /\ IsSeq(say.lines) /\ IsSeq(s) /\ Len(s) \in Nat \ {0} /\ LinesOK(s) /\ say.files \in Nat
         /\ \A i \in 1 .. Len(s) : TextLine(s[i])
<1>1. PICK lines : lines = say.lines
  OBVIOUS
<1>2. IsSeq(lines) /\ say.files \in Nat
  BY <1>1, IsSeqOf DEF SayingOK
<1>3. Len(lines) \in Nat /\ DOMAIN lines = 1 .. Len(lines)
  BY <1>2 DEF IsSeq
<1>4. ASSUME NEW i \in 1 .. Len(lines) PROVE TextLine(lines[i])
  <2>1. PICK line : line = lines[i]
    OBVIOUS
  <2>2. /\ line.k # "files"
        /\ line.k = "blank" => line = [k |-> "blank"]
        /\ line.k = "trailer" => line.n = 0
        /\ line.k = "text" => /\ line.pad \in BOOLEAN
                              /\ line = [k |-> "text", t |-> line.t, pad |-> line.pad, n |-> 0]
    BY <1>1, <1>3, <2>1 DEF SayingOK
  <2>3. line.k = "text" => line.n = 0
    BY <2>2
  <2>4. LineOK(line)
    BY <2>2, <2>3 DEF LineOK, Blank
  <2>5. FilesIn(line) = 0
    BY <2>2, <2>3 DEF FilesIn
  <2> QED
    BY <2>1, <2>2, <2>4, <2>5 DEF TextLine
<1>5. CASE lines = <<>>
  <2>1. s = <<Blank>>
    BY <1>1, <1>5 DEF TextOf
  <2>2. IsSeq(s) /\ Len(s) = 1 /\ s[1] = Blank
    BY <2>1, Short
  <2>3. \A i \in 1 .. Len(s) : TextLine(s[i])
    BY <2>2, LineIs
  <2> QED
    BY <1>1, <1>2, <2>2, <2>3 DEF LinesOK, TextLine
<1>6. CASE lines # <<>>
  <2>1. s = lines
    BY <1>1, <1>6 DEF TextOf
  <2>2. Len(lines) # 0
    BY <1>2, <1>6, EmptyIs
  <2> QED
    BY <1>1, <1>2, <1>3, <1>4, <2>1, <2>2 DEF LinesOK, TextLine
<1> QED
  BY <1>5, <1>6

\* The three places that files can have.
LEMMA QuietOf ==
  ASSUME NEW say, say.files > 0, NEW s, s = TextOf(say), s[Len(s)].k # "text"
  PROVE  Quiet(say) = IF s = <<Blank>> THEN <<Files(say.files)>> ELSE Append(s, Files(say.files))
BY DEF Quiet, Last

\* The last line of q, and it alone, links n files besides what it has in s.
LastLinks(q, s, n) ==
  /\ LinesOK(q) /\ Len(q) = Len(s)
  /\ \A i \in 1 .. Len(s) : i # Len(s) => q[i] = s[i]
  /\ q[Len(s)] = [k |-> "text", t |-> s[Len(s)].t, pad |-> s[Len(s)].pad, n |-> n]

LEMMA QuietText ==
  ASSUME NEW say, SayingOK(say), say.files > 0, NEW s, s = TextOf(say), s[Len(s)].k = "text", NEW q, q = Quiet(say)
  PROVE  LastLinks(q, s, say.files)
<1>1. IsSeq(s) /\ Len(s) \in Nat \ {0} /\ LinesOK(s)
  BY TextIs
<1>2. PICK n : n = Len(s)
  OBVIOUS
<1>3. CASE s[n].k = "text"
  <2>1. q = [s EXCEPT ![n].n = say.files]
    BY <1>2, <1>3 DEF Quiet, Last
  <2>2. n \in Nat \ {0} /\ s = [i \in 1 .. n |-> s[i]] /\ DOMAIN s = 1 .. n
    BY <1>1, <1>2 DEF IsSeq
  <2>3. q = [i \in 1 .. n |-> q[i]]
    BY <2>1, <2>2
  <2>4. IsSeq(q) /\ Len(q) = n
    BY <2>2, <2>3, SeqListed DEF OfLength
  <2>5. \A i \in 1 .. n - 1 : q[i] = s[i]
    BY <2>1, <2>2
  <2>6. LineOK(s[n])
    BY <1>1, <1>2 DEF LinesOK
  <2>7. s[n] = [k |-> "text", t |-> s[n].t, pad |-> s[n].pad, n |-> s[n].n]
    BY <1>3, <2>6 DEF LineOK
  <2>8. q[n] = [s[n] EXCEPT !.n = say.files]
    <3>1. n \in 1 .. n
      BY <2>2
    <3>2. n \in DOMAIN s
      BY <2>2, <3>1
    <3> QED
      BY <2>1, <3>2
  <2>9. q[n] = [k |-> "text", t |-> s[n].t, pad |-> s[n].pad, n |-> say.files]
    BY <2>7, <2>8
  <2>10. \A i \in 1 .. n : LineOK(q[i])
    <3>1. ASSUME NEW i \in 1 .. n - 1 PROVE LineOK(q[i])
      <4>1. i \in 1 .. n
        BY <2>2
      <4>2. q[i] = s[i]
        BY <2>5
      <4> QED
        BY <1>1, <1>2, <4>1, <4>2 DEF LinesOK
    <3>2. LineOK(q[n])
      BY <2>9 DEF LineOK
    <3> QED
      BY <2>2, <3>1, <3>2
  <2>11. LinesOK(q)
    BY <2>4, <2>10 DEF LinesOK
  <2>12. \A i \in 1 .. n : i # n => q[i] = s[i]
    BY <2>2, <2>5
  <2> QED
    BY <1>2, <2>4, <2>9, <2>11, <2>12 DEF LastLinks
<1> QED
  BY <1>2, <1>3

LEMMA QuietIs ==
  ASSUME NEW say, SayingOK(say), NEW s, s = TextOf(say), NEW q, q = Quiet(say)
  PROVE  /\ IsSeq(q) /\ Len(q) \in Nat \ {0} /\ LinesOK(q)
         /\ say.files = 0 => q = s
<1>1. IsSeq(s) /\ Len(s) \in Nat \ {0} /\ LinesOK(s) /\ say.files \in Nat
  BY TextIs
<1>2. PICK n : n = Len(s)
  OBVIOUS
<1>3. CASE say.files = 0
  <2>1. q = s
    BY <1>3 DEF Quiet
  <2> QED
    BY <1>1, <1>3, <2>1
<1>4. CASE say.files > 0 /\ s[n].k = "text"
  <2>1. LinesOK(q) /\ Len(q) = Len(s)
    BY <1>2, <1>4, QuietText DEF LastLinks
  <2>2. say.files # 0
    BY <1>1, <1>4
  <2> QED
    BY <1>1, <2>1, <2>2 DEF LinesOK
<1>5. CASE say.files > 0 /\ s[n].k # "text" /\ s = <<Blank>>
  <2>1. q = <<Files(say.files)>>
    BY <1>2, <1>5, QuietOf
  <2>2. IsSeq(q) /\ Len(q) = 1 /\ q[1] = Files(say.files)
    BY <2>1, Short
  <2>3. \A i \in 1 .. Len(q) : LineOK(q[i])
    BY <2>2, LineIs
  <2>4. say.files # 0
    BY <1>1, <1>5
  <2> QED
    BY <2>2, <2>3, <2>4 DEF LinesOK
<1>6. CASE say.files > 0 /\ s[n].k # "text" /\ s # <<Blank>>
  <2>1. q = Append(s, Files(say.files))
    BY <1>2, <1>6, QuietOf
  <2>2. IsSeq(q) /\ Len(q) = Len(s) + 1
    BY <1>1, <2>1, Appended
  <2>3. (\A i \in 1 .. Len(s) : q[i] = s[i]) /\ q[Len(s) + 1] = Files(say.files)
    BY <1>1, <2>1, Appended
  <2>4. \A i \in 1 .. Len(q) : LineOK(q[i])
    <3>1. \A i \in 1 .. Len(s) : LineOK(q[i])
      BY <1>1, <2>3 DEF LinesOK
    <3>2. LineOK(q[Len(s) + 1])
      BY <2>3, LineIs
    <3> QED
      BY <1>1, <2>2, <3>1, <3>2
  <2>5. say.files # 0
    BY <1>1, <1>6
  <2> QED
    BY <1>1, <2>2, <2>4, <2>5 DEF LinesOK
<1> QED
  BY <1>1, <1>2, <1>3, <1>4, <1>5, <1>6

\* A line that is trimmed off has nothing to say.
WritesAlike(a, b) == \A i : WrittenAt(a, i) = WrittenAt(b, i)

LEMMA WrittenIs ==
  ASSUME NEW s, IsSeq(s), NEW i
  PROVE  /\ i \notin 1 .. Len(s) => WrittenAt(s, i) = Blank
         /\ i \in 1 .. Len(s) /\ s[i].k = "files" => WrittenAt(s, i) = Blank
         /\ i \in 1 .. Len(s) /\ s[i].k = "text" => WrittenAt(s, i) = Text(s[i].t)
         /\ i \in 1 .. Len(s) /\ s[i].k \notin {"files", "text"} => WrittenAt(s, i) = s[i]
<1>1. DOMAIN s = 1 .. Len(s)
  BY DEF IsSeq
<1> QED
  BY <1>1 DEF WrittenAt

LEMMA WritesTrimmed ==
  ASSUME NEW s, LinesOK(s)
  PROVE  WritesAlike(TrimEnd(s), s)
<1> SUFFICES ASSUME NEW i PROVE WrittenAt(TrimEnd(s), i) = WrittenAt(s, i)
  BY DEF WritesAlike
<1>1. PICK t : t = TrimEnd(s)
  OBVIOUS
<1>2. IsSeq(s) /\ \A j \in 1 .. Len(s) : LineOK(s[j])
  BY DEF LinesOK
<1>3. /\ IsSeq(t) /\ Len(t) \in 0 .. Len(s) /\ Len(s) \in Nat
      /\ \A j \in 1 .. Len(t) : t[j] = s[j]
      /\ \A j \in 1 .. Len(s) : j > Len(t) => IsBlank(s[j])
  BY <1>1, <1>2, TrimIs
<1>4. CASE i \in 1 .. Len(t)
  <2>1. i \in 1 .. Len(s) /\ t[i] = s[i]
    BY <1>3, <1>4
  <2>2. i \in DOMAIN s /\ i \in DOMAIN t
    BY <1>2, <1>3, <1>4, <2>1 DEF IsSeq
  <2>3. WrittenAt(t, i) = WrittenAt(s, i)
    BY <2>1, <2>2 DEF WrittenAt
  <2> QED
    BY <1>1, <2>3
<1>5. CASE i \notin 1 .. Len(t) /\ i \in 1 .. Len(s)
  <2>1. IsBlank(s[i])
    BY <1>3, <1>5
  <2>2. s[i] = Blank /\ s[i].k = "blank"
    BY <1>2, <1>5, <2>1 DEF LineOK, IsBlank
  <2>3. WrittenAt(t, i) = Blank
    BY <1>3, <1>5, WrittenIs
  <2>4. WrittenAt(s, i) = Blank
    BY <1>2, <1>5, <2>2, WrittenIs
  <2> QED
    BY <1>1, <2>3, <2>4
<1>6. CASE i \notin 1 .. Len(t) /\ i \notin 1 .. Len(s)
  <2>1. WrittenAt(t, i) = Blank
    BY <1>3, <1>6, WrittenIs
  <2>2. WrittenAt(s, i) = Blank
    BY <1>2, <1>6, WrittenIs
  <2> QED
    BY <1>1, <2>1, <2>2
<1> QED
  BY <1>4, <1>5, <1>6

LEMMA WritesCleaned ==
  ASSUME NEW s, LinesOK(s)
  PROVE  WritesAlike(Cleaned(s), s)
<1> SUFFICES ASSUME NEW i PROVE WrittenAt(Cleaned(s), i) = WrittenAt(s, i)
  BY DEF WritesAlike
<1>1. PICK r, t : r = TrimEnd(s) /\ t = Cleaned(s)
  OBVIOUS
<1>2. IsSeq(s) /\ \A j \in 1 .. Len(s) : LineOK(s[j])
  BY DEF LinesOK
<1>3. IsSeq(r) /\ Len(r) \in 0 .. Len(s) /\ Len(s) \in Nat /\ \A j \in 1 .. Len(r) : r[j] = s[j]
  BY <1>1, <1>2, TrimIs
<1>4. IsSeq(t) /\ Len(t) = Len(r)
  BY <1>1, <1>2, CleanedIs
<1>5. \A j \in 1 .. Len(r) : t[j] = IF j = Len(r) THEN Unpadded(s[j]) ELSE s[j]
  BY <1>1, <1>2, CleanedIs
<1>6. WrittenAt(r, i) = WrittenAt(s, i)
  BY <1>1, WritesTrimmed DEF WritesAlike
<1>7. CASE i \in 1 .. Len(r)
  <2>1. PICK u, w : u = r[i] /\ w = t[i]
    OBVIOUS
  <2>2. u = s[i] /\ i \in 1 .. Len(s)
    BY <1>3, <1>7, <2>1
  <2>3. LineOK(u) /\ w \in {u, Unpadded(u)}
    BY <1>2, <1>5, <1>7, <2>1, <2>2
  <2>4. /\ Unpadded(u).k = u.k
        /\ u.k = "text" => Unpadded(u) = [k |-> "text", t |-> u.t, pad |-> FALSE, n |-> u.n]
    BY <2>3, UnpaddedIs
  <2>5. w.k = u.k /\ (u.k = "text" => w.t = u.t) /\ (u.k # "text" => w = u)
    BY <2>3, <2>4 DEF Unpadded
  <2>6. i \in DOMAIN r /\ i \in DOMAIN t
    BY <1>3, <1>4, <1>7 DEF IsSeq
  <2>7. WrittenAt(t, i) = WrittenAt(r, i)
    BY <2>1, <2>5, <2>6 DEF WrittenAt
  <2> QED
    BY <1>1, <1>6, <2>7
<1>8. CASE i \notin 1 .. Len(r)
  <2>1. WrittenAt(r, i) = Blank
    BY <1>3, <1>8, WrittenIs
  <2>2. WrittenAt(t, i) = Blank
    BY <1>4, <1>8, WrittenIs
  <2> QED
    BY <1>1, <1>6, <2>1, <2>2
<1> QED
  BY <1>7, <1>8

LEMMA WritesFiles ==
  ASSUME NEW s, IsSeq(s), NEW t, IsSeq(t), Len(t) = Len(s) + 1, \A i \in 1 .. Len(s) : t[i] = s[i],
         t[Len(t)].k = "files"
  PROVE  WritesAlike(t, s)
<1> SUFFICES ASSUME NEW i PROVE WrittenAt(t, i) = WrittenAt(s, i)
  BY DEF WritesAlike
<1>1. Len(s) \in Nat
  BY DEF IsSeq
<1>2. CASE i \in 1 .. Len(s)
  <2>1. i \in 1 .. Len(t) /\ t[i] = s[i]
    BY <1>1, <1>2
  <2>2. i \in DOMAIN s /\ i \in DOMAIN t
    BY <1>2, <2>1 DEF IsSeq
  <2> QED
    BY <2>1, <2>2 DEF WrittenAt
<1>3. CASE i = Len(s) + 1
  <2>1. i \in 1 .. Len(t) /\ t[i].k = "files" /\ i \notin 1 .. Len(s)
    BY <1>1, <1>3
  <2>2. WrittenAt(t, i) = Blank
    BY <2>1, WrittenIs
  <2>3. WrittenAt(s, i) = Blank
    BY <2>1, WrittenIs
  <2> QED
    BY <2>2, <2>3
<1>4. CASE i \notin 1 .. Len(s) /\ i # Len(s) + 1
  <2>1. i \notin 1 .. Len(t)
    BY <1>1, <1>4
  <2>2. WrittenAt(t, i) = Blank
    BY <2>1, WrittenIs
  <2>3. WrittenAt(s, i) = Blank
    BY <1>4, WrittenIs
  <2> QED
    BY <2>2, <2>3
<1> QED
  BY <1>2, <1>3, <1>4

LEMMA WritesText ==
  ASSUME NEW say, SayingOK(say)
  PROVE  WritesAlike(TextOf(say), say.lines)
<1>1. CASE say.lines = <<>>
  <2>1. PICK s : s = TextOf(say)
    OBVIOUS
  <2>2. s = <<Blank>>
    BY <1>1, <2>1 DEF TextOf
  <2>3. IsSeq(s) /\ Len(s) = 1 /\ s[1] = Blank /\ IsSeq(<<>>) /\ Len(<<>>) = 0
    BY <2>2, Short
  <2>4. ASSUME NEW i PROVE WrittenAt(s, i) = WrittenAt(say.lines, i)
    <3>1. WrittenAt(say.lines, i) = Blank
      BY <1>1, <2>3, WrittenIs
    <3>2. WrittenAt(s, i) = Blank
      <4>1. CASE i \in 1 .. Len(s)
        <5>1. s[i] = Blank /\ s[i].k = "blank"
          BY <2>3, <4>1, LineIs
        <5> QED
          BY <2>3, <4>1, <5>1, WrittenIs
      <4>2. CASE i \notin 1 .. Len(s)
        BY <2>3, <4>2, WrittenIs
      <4> QED
        BY <4>1, <4>2
    <3> QED
      BY <3>1, <3>2
  <2> QED
    BY <2>1, <2>4 DEF WritesAlike
<1>2. CASE say.lines # <<>>
  BY <1>2 DEF TextOf, WritesAlike
<1> QED
  BY <1>1, <1>2

\* How many files a body links, if one line links them.
LEMMA ExtractIs ==
  ASSUME NEW b, IsSeq(b), NEW n \in Nat, NEW p, n > 0 => p \in 1 .. Len(b),
         \A i \in 1 .. Len(b) : FilesIn(b[i]) = IF i = p THEN n ELSE 0
  PROVE  extract(b) = n
<1>1. DOMAIN b = 1 .. Len(b)
  BY DEF IsSeq
<1>2. PICK S : S = UNION {{i} \X (1 .. FilesIn(b[i])) : i \in DOMAIN b}
  OBVIOUS
<1>3. extract(b) = Cardinality(S)
  BY <1>2 DEF extract, FilesIn
<1>4. ASSUME NEW x PROVE x \in S <=> n > 0 /\ x \in {p} \X (1 .. n)
  <2>1. x \in S <=> \E i \in DOMAIN b : x \in {i} \X (1 .. FilesIn(b[i]))
    BY <1>2
  <2>2. ASSUME NEW i \in DOMAIN b, x \in {i} \X (1 .. FilesIn(b[i])) PROVE n > 0 /\ x \in {p} \X (1 .. n)
    <3>1. FilesIn(b[i]) = IF i = p THEN n ELSE 0
      BY <1>1
    <3>2. i = p
      BY <2>2, <3>1
    <3> QED
      BY <2>2, <3>1, <3>2
  <2>3. ASSUME n > 0, x \in {p} \X (1 .. n) PROVE \E i \in DOMAIN b : x \in {i} \X (1 .. FilesIn(b[i]))
    <3>1. p \in DOMAIN b /\ FilesIn(b[p]) = n
      BY <1>1, <2>3
    <3> QED
      BY <2>3, <3>1
  <2> QED
    BY <2>1, <2>2, <2>3
<1>5. PICK f : f = [k \in 1 .. n |-> <<p, k>>]
  OBVIOUS
<1>6. S = {p} \X (1 .. n)
  BY <1>4
<1>7. f \in [1 .. n -> S] /\ (\A x, y \in 1 .. n : f[x] = f[y] => x = y) /\ \A z \in S : \E x \in 1 .. n : f[x] = z
  BY <1>5, <1>6
<1>8. f \in Bijection(1 .. n, S)
  BY <1>7, Fun_IsBij
<1>9. Cardinality(S) = n
  <2>1. ExistsBijection(1 .. n, S)
    BY <1>8 DEF ExistsBijection
  <2> QED
    BY <2>1, FS_CountingElements
<1> QED
  BY <1>3, <1>9

\* A message that has files, or reactions.
LEMMA FilesAdded ==
  ASSUME NEW c, IsSeq(c), NEW e, NEW b, b = c \o <<e>>
  PROVE  /\ b = Append(c, e)
         /\ IsSeq(b) /\ Len(b) = Len(c) + 1 /\ Len(c) \in Nat
         /\ \A i \in 1 .. Len(c) : b[i] = c[i]
         /\ b[Len(c) + 1] = e
<1>1. PICK d, a : d = <<e>> /\ a = Append(c, e)
  OBVIOUS
<1>2. IsSeq(d) /\ Len(d) = 1 /\ d[1] = e
  BY <1>1, Short
<1>3. b = c \o d
  BY <1>1
<1>4. Concats(b, c, d)
  BY <1>1, <1>2, <1>3, ConcatIs
<1>5. IsSeq(b) /\ Len(b) = Len(c) + 1 /\ Len(c) \in Nat
  BY <1>2, <1>4 DEF Concats
<1>6. \A i \in 1 .. Len(c) : b[i] = c[i]
  BY <1>4 DEF Concats
<1>7. \A i \in 1 .. Len(d) : b[Len(c) + i] = d[i]
  BY <1>4 DEF Concats
<1>8. b[Len(c) + 1] = e
  BY <1>2, <1>7
<1>9. IsSeq(a) /\ Len(a) = Len(c) + 1
  BY <1>1, Appended
<1>10. \A i \in 1 .. Len(c) : a[i] = c[i]
  BY <1>1, Appended
<1>11. a[Len(c) + 1] = e
  BY <1>1, Appended
<1>12. \A i \in 1 .. Len(b) : b[i] = a[i]
  BY <1>5, <1>6, <1>8, <1>10, <1>11
<1>13. b = a
  BY <1>5, <1>9, <1>12, SameSeq
<1> QED
  BY <1>1, <1>5, <1>6, <1>8, <1>13

LEMMA ReactedIs ==
  ASSUME NEW say, SayingOK(say), NEW c, c = Cleaned(TextOf(say)), NEW b, b = Reacted(say)
  PROVE  /\ LinesOK(c) /\ LinesOK(b)
         /\ say.files = 0 => b = c
         /\ say.files > 0 => b = Append(c, Files(say.files))
<1>1. PICK s : s = TextOf(say)
  OBVIOUS
<1>2. LinesOK(s) /\ say.files \in Nat
  BY <1>1, TextIs
<1>3. LinesOK(c) /\ IsSeq(c)
  BY <1>1, <1>2, CleanedOK DEF LinesOK
<1>4. CASE say.files = 0
  <2>1. b = c \o <<>>
    BY <1>4 DEF Reacted, FilesOf
  <2>2. PICK S : c \in Seq(S)
    BY <1>3, SeqIs
  <2>3. b = c
    BY <2>1, <2>2, ConcatEmptySeq
  <2> QED
    BY <1>3, <1>4, <2>3
<1>5. CASE say.files > 0
  <2>1. PICK e : e = Files(say.files)
    OBVIOUS
  <2>2. b = c \o <<e>>
    BY <1>5, <2>1 DEF Reacted, FilesOf
  <2>3. b = Append(c, e) /\ IsSeq(b) /\ Len(b) = Len(c) + 1 /\ Len(c) \in Nat
    BY <1>3, <2>2, FilesAdded
  <2>4. (\A i \in 1 .. Len(c) : b[i] = c[i]) /\ b[Len(c) + 1] = e
    BY <1>3, <2>2, FilesAdded
  <2>5. LineOK(e)
    BY <2>1, LineIs
  <2>6. \A i \in 1 .. Len(b) : LineOK(b[i])
    BY <1>3, <2>3, <2>4, <2>5 DEF LinesOK
  <2>7. LinesOK(b)
    BY <2>3, <2>6 DEF LinesOK
  <2> QED
    BY <1>2, <1>3, <1>5, <2>1, <2>3, <2>7
<1> QED
  BY <1>2, <1>4, <1>5

\* With files nothing is trimmed off.
LEMMA UnreactedIs ==
  ASSUME NEW say, SayingOK(say), NEW u, u = Unreacted(say)
  PROVE  /\ LinesOK(u)
         /\ say.files = 0 => u = TrimEnd(TextOf(say))
         /\ say.files > 0 => u = Quiet(say)
<1>1. PICK s, q : s = TextOf(say) /\ q = Quiet(say)
  OBVIOUS
<1>2. u = TrimEnd(q)
  BY <1>1 DEF Unreacted
<1>3. IsSeq(s) /\ Len(s) \in Nat \ {0} /\ say.files \in Nat
  BY <1>1, TextIs
<1>4. IsSeq(q) /\ Len(q) \in Nat \ {0} /\ LinesOK(q)
  BY <1>1, QuietIs
<1>5. LinesOK(u)
  BY <1>2, <1>4, CleanedOK
<1>6. say.files = 0 => u = TrimEnd(s)
  BY <1>1, <1>2, QuietIs
<1>7. ASSUME say.files > 0 PROVE u = q
  <2>1. ~IsBlank(q[Len(q)])
    <3>1. CASE s[Len(s)].k = "text"
      <4>1. Len(q) = Len(s) /\ q[Len(s)] = [k |-> "text", t |-> s[Len(s)].t, pad |-> s[Len(s)].pad, n |-> say.files]
        BY <1>1, <1>7, <3>1, QuietText DEF LastLinks
      <4>2. q[Len(q)].k = "text"
        BY <4>1
      <4> QED
        BY <4>2 DEF IsBlank
    <3>2. CASE s[Len(s)].k # "text" /\ s = <<Blank>>
      <4>1. q = <<Files(say.files)>>
        BY <1>1, <1>7, <3>2, QuietOf
      <4>2. Len(q) = 1 /\ q[1] = Files(say.files)
        BY <4>1, Short
      <4> QED
        BY <4>2, LineIs
    <3>3. CASE s[Len(s)].k # "text" /\ s # <<Blank>>
      <4>1. q = Append(s, Files(say.files))
        BY <1>1, <1>7, <3>3, QuietOf
      <4>2. Len(q) = Len(s) + 1
        BY <1>3, <4>1, Appended
      <4>3. q[Len(s) + 1] = Files(say.files)
        BY <1>3, <4>1, Appended
      <4> QED
        BY <4>2, <4>3, LineIs
    <3> QED
      BY <3>1, <3>2, <3>3
  <2>2. Len(q) \in 0 .. Len(q) /\ \A i \in 1 .. Len(q) : i > Len(q) => IsBlank(q[i])
    BY <1>4
  <2>3. IsSeq(TrimEnd(q)) /\ Len(TrimEnd(q)) = Len(q) /\ \A i \in 1 .. Len(q) : TrimEnd(q)[i] = q[i]
    BY <1>4, <2>1, <2>2, TrimAt
  <2>4. IsSeq(u) /\ Len(u) = Len(q) /\ \A i \in 1 .. Len(q) : u[i] = q[i]
    BY <1>2, <2>3
  <2> QED
    BY <1>4, <2>4, SameSeq
<1> QED
  BY <1>1, <1>5, <1>6, <1>7

LEMMA WritesToo ==
  ASSUME NEW a, NEW b, NEW c, WritesAlike(a, b), WritesAlike(b, c)
  PROVE  WritesAlike(a, c)
BY DEF WritesAlike

\* A body writes what was said, and links its files.
LEMMA ReactedBody ==
  ASSUME NEW say, SayingOK(say), NEW b, b = Reacted(say)
  PROVE  IsSeq(b) /\ WritesAlike(b, say.lines) /\ extract(b) = say.files
<1>1. PICK s, c, n : s = TextOf(say) /\ c = Cleaned(s) /\ n = say.files
  OBVIOUS
<1>2. IsSeq(s) /\ LinesOK(s) /\ n \in Nat
  BY <1>1, TextIs
<1>3. \A i \in 1 .. Len(s) : TextLine(s[i])
  BY <1>1, TextIs
<1>4. LinesOK(c) /\ LinesOK(b) /\ IsSeq(c) /\ IsSeq(b)
  BY <1>1, ReactedIs DEF LinesOK
<1>5. WritesAlike(c, s) /\ WritesAlike(s, say.lines)
  BY <1>1, <1>2, WritesCleaned, WritesText
<1>6. ASSUME NEW i \in 1 .. Len(c) PROVE FilesIn(c[i]) = 0
  <2>1. PICK r : r = TrimEnd(s)
    OBVIOUS
  <2>2. Len(r) \in 0 .. Len(s) /\ Len(s) \in Nat
    BY <1>2, <2>1, TrimIs
  <2>3. Len(c) = Len(r)
    BY <1>1, <1>2, <2>1, CleanedIs
  <2>4. \A j \in 1 .. Len(r) : c[j] = IF j = Len(r) THEN Unpadded(s[j]) ELSE s[j]
    BY <1>1, <1>2, <2>1, CleanedIs
  <2>5. i \in 1 .. Len(s) /\ c[i] \in {s[i], Unpadded(s[i])}
    BY <2>2, <2>3, <2>4
  <2>6. PICK line : line = s[i]
    OBVIOUS
  <2>7. LineOK(line) /\ FilesIn(line) = 0
    BY <1>3, <2>5, <2>6 DEF TextLine
  <2>8. line.k = "text" => Unpadded(line) = [k |-> "text", t |-> line.t, pad |-> FALSE, n |-> line.n]
    BY <2>7, UnpaddedIs
  <2>9. FilesIn(Unpadded(line)) = 0
    <3>1. CASE line.k = "text"
      <4>1. line.n = 0
        BY <2>7, <3>1 DEF FilesIn
      <4>2. Unpadded(line).n = 0 /\ Unpadded(line).k = "text"
        BY <2>8, <3>1, <4>1
      <4> QED
        BY <4>2 DEF FilesIn
    <3>2. CASE line.k # "text"
      BY <2>7, <3>2 DEF Unpadded
    <3> QED
      BY <3>1, <3>2
  <2> QED
    BY <2>5, <2>6, <2>7, <2>9
<1>7. CASE n = 0
  <2>1. b = c
    BY <1>1, <1>7, ReactedIs
  <2>2. WritesAlike(b, say.lines)
    BY <1>5, <2>1, WritesToo
  <2>3. \A i \in 1 .. Len(b) : FilesIn(b[i]) = IF i = 0 THEN n ELSE 0
    BY <1>6, <2>1
  <2>4. n > 0 => 0 \in 1 .. Len(b)
    BY <1>7
  <2>5. extract(b) = n
    BY <1>2, <1>4, <2>3, <2>4, ExtractIs
  <2> QED
    BY <1>1, <1>4, <2>2, <2>5
<1>8. CASE n > 0
  <2>1. PICK e : e = Files(n)
    OBVIOUS
  <2>2. b = Append(c, e)
    BY <1>1, <1>8, <2>1, ReactedIs
  <2>3. Len(b) = Len(c) + 1 /\ Len(c) \in Nat
    BY <1>4, <2>2, Appended
  <2>4. \A i \in 1 .. Len(c) : b[i] = c[i]
    BY <1>4, <2>2, Appended
  <2>5. b[Len(c) + 1] = e
    BY <1>4, <2>2, Appended
  <2>6. FilesIn(e) = n /\ e.k = "files"
    BY <2>1, LineIs
  <2>7. b[Len(b)].k = "files"
    BY <2>3, <2>5, <2>6
  <2>8. WritesAlike(b, c)
    BY <1>4, <2>3, <2>4, <2>7, WritesFiles
  <2>9. WritesAlike(b, say.lines)
    BY <1>5, <2>8, WritesToo
  <2>10. PICK p : p = Len(c) + 1
    OBVIOUS
  <2>11. \A i \in 1 .. Len(b) : FilesIn(b[i]) = IF i = p THEN n ELSE 0
    BY <1>6, <2>3, <2>4, <2>5, <2>6, <2>10
  <2>12. p \in 1 .. Len(b)
    BY <2>3, <2>10
  <2>13. extract(b) = n
    BY <1>2, <1>4, <2>11, <2>12, ExtractIs
  <2> QED
    BY <1>1, <1>4, <2>9, <2>13
<1> QED
  BY <1>2, <1>7, <1>8

LEMMA UnreactedBody ==
  ASSUME NEW say, SayingOK(say), NEW b, b = Unreacted(say)
  PROVE  IsSeq(b) /\ WritesAlike(b, say.lines) /\ extract(b) = say.files
<1>1. PICK s, q, n : s = TextOf(say) /\ q = Quiet(say) /\ n = say.files
  OBVIOUS
<1>2. IsSeq(s) /\ LinesOK(s) /\ n \in Nat /\ Len(s) \in Nat \ {0}
  BY <1>1, TextIs
<1>3. \A i \in 1 .. Len(s) : TextLine(s[i])
  BY <1>1, TextIs
<1>4. LinesOK(b) /\ IsSeq(b) /\ IsSeq(q)
  BY <1>1, UnreactedIs, QuietIs DEF LinesOK
<1>5. WritesAlike(s, say.lines)
  BY <1>1, WritesText
<1>6. \A i \in 1 .. Len(s) : FilesIn(s[i]) = 0
  BY <1>3 DEF TextLine
<1>7. CASE n = 0
  <2>1. b = TrimEnd(s)
    BY <1>1, <1>7, UnreactedIs
  <2>2. WritesAlike(b, s)
    BY <1>2, <2>1, WritesTrimmed
  <2>3. WritesAlike(b, say.lines)
    BY <1>5, <2>2, WritesToo
  <2>4. Len(b) \in 0 .. Len(s) /\ \A j \in 1 .. Len(b) : b[j] = s[j]
    BY <1>2, <2>1, TrimIs
  <2>5. \A i \in 1 .. Len(b) : FilesIn(b[i]) = IF i = 0 THEN n ELSE 0
    BY <1>2, <1>6, <2>4
  <2>6. n > 0 => 0 \in 1 .. Len(b)
    BY <1>7
  <2>7. extract(b) = n
    BY <1>2, <1>4, <2>5, <2>6, ExtractIs
  <2> QED
    BY <1>1, <1>4, <2>3, <2>7
<1>8. CASE n > 0 /\ s[Len(s)].k = "text"
  <2>1. b = q
    BY <1>1, <1>8, UnreactedIs
  <2>2. LastLinks(q, s, n)
    BY <1>1, <1>8, QuietText
  <2>3. Len(q) = Len(s) /\ \A i \in 1 .. Len(s) - 1 : q[i] = s[i]
    BY <1>2, <2>2 DEF LastLinks
  <2>4. PICK p : p = Len(s)
    OBVIOUS
  <2>5. q[p] = [k |-> "text", t |-> s[p].t, pad |-> s[p].pad, n |-> n]
    BY <2>2, <2>4 DEF LastLinks
  <2>6. FilesIn(q[p]) = n
    BY <2>5 DEF FilesIn
  <2>7. \A i \in 1 .. Len(b) : FilesIn(b[i]) = IF i = p THEN n ELSE 0
    BY <1>2, <1>6, <2>1, <2>3, <2>4, <2>6
  <2>8. p \in 1 .. Len(b)
    BY <1>2, <2>1, <2>3, <2>4
  <2>9. extract(b) = n
    BY <1>2, <1>4, <2>7, <2>8, ExtractIs
  <2>10. ASSUME NEW i PROVE WrittenAt(q, i) = WrittenAt(s, i)
    <3>1. CASE i \in 1 .. Len(s) - 1
      <4>1. q[i] = s[i] /\ i \in 1 .. Len(s) /\ i \in 1 .. Len(q)
        BY <1>2, <2>3, <3>1
      <4>2. i \in DOMAIN q /\ i \in DOMAIN s
        BY <1>2, <1>4, <4>1 DEF IsSeq
      <4> QED
        BY <4>1, <4>2 DEF WrittenAt
    <3>2. CASE i = p
      <4>1. q[i].k = "text" /\ q[i].t = s[i].t /\ s[i].k = "text" /\ i \in 1 .. Len(s) /\ i \in 1 .. Len(q)
        BY <1>2, <1>8, <2>1, <2>3, <2>4, <2>5, <2>8, <3>2
      <4>2. i \in DOMAIN q /\ i \in DOMAIN s
        BY <1>2, <1>4, <4>1 DEF IsSeq
      <4> QED
        BY <4>1, <4>2 DEF WrittenAt
    <3>3. CASE i \notin 1 .. Len(s)
      <4>1. WrittenAt(q, i) = Blank
        BY <1>4, <2>3, <3>3, WrittenIs
      <4>2. WrittenAt(s, i) = Blank
        BY <1>2, <3>3, WrittenIs
      <4> QED
        BY <4>1, <4>2
    <3>4. i \in 1 .. Len(s) => i \in 1 .. Len(s) - 1 \/ i = p
      BY <1>2, <2>4
    <3> QED
      BY <3>1, <3>2, <3>3, <3>4
  <2>11. WritesAlike(b, s)
    BY <2>1, <2>10 DEF WritesAlike
  <2>12. WritesAlike(b, say.lines)
    BY <1>5, <2>11, WritesToo
  <2> QED
    BY <1>1, <1>4, <2>9, <2>12
<1>9. CASE n > 0 /\ s[Len(s)].k # "text" /\ s = <<Blank>>
  <2>1. b = q
    BY <1>1, <1>9, UnreactedIs
  <2>2. q = <<Files(n)>>
    BY <1>1, <1>9, QuietOf
  <2>3. Len(q) = 1 /\ q[1] = Files(n)
    BY <2>2, Short
  <2>4. FilesIn(Files(n)) = n /\ Files(n).k = "files"
    BY LineIs
  <2>5. \A i \in 1 .. Len(b) : FilesIn(b[i]) = IF i = 1 THEN n ELSE 0
    BY <2>1, <2>3, <2>4
  <2>6. 1 \in 1 .. Len(b)
    BY <2>1, <2>3
  <2>7. extract(b) = n
    BY <1>2, <1>4, <2>5, <2>6, ExtractIs
  <2>8. PICK z : z = <<>>
    OBVIOUS
  <2>9. IsSeq(z) /\ Len(z) = 0
    BY <2>8, Short
  <2>10. WritesAlike(q, z)
    <3>1. Len(q) = Len(z) + 1 /\ (\A i \in 1 .. Len(z) : q[i] = z[i]) /\ q[Len(q)].k = "files"
      BY <2>3, <2>4, <2>9
    <3> QED
      BY <1>4, <2>9, <3>1, WritesFiles
  <2>11. WritesAlike(z, s)
    <3>1. ASSUME NEW i PROVE WrittenAt(z, i) = WrittenAt(s, i)
      <4>1. i \notin 1 .. Len(z)
        BY <2>9
      <4>2. WrittenAt(z, i) = Blank
        BY <2>9, <4>1, WrittenIs
      <4>3. Len(s) = 1 /\ s[1] = Blank
        BY <1>9, Short
      <4>4. Blank.k = "blank"
        BY LineIs
      <4>5. CASE i \in 1 .. Len(s)
        <5>1. s[i].k \notin {"files", "text"} /\ s[i] = Blank
          BY <4>3, <4>4, <4>5
        <5>2. WrittenAt(s, i) = s[i]
          BY <1>2, <4>5, <5>1, WrittenIs
        <5> QED
          BY <4>2, <5>1, <5>2
      <4>6. CASE i \notin 1 .. Len(s)
        <5>1. WrittenAt(s, i) = Blank
          BY <1>2, <4>6, WrittenIs
        <5> QED
          BY <4>2, <5>1
      <4> QED
        BY <4>5, <4>6
    <3> QED
      BY <3>1 DEF WritesAlike
  <2>12. WritesAlike(b, say.lines)
    <3>1. WritesAlike(b, s)
      BY <2>1, <2>10, <2>11, WritesToo
    <3> QED
      BY <1>5, <3>1, WritesToo
  <2> QED
    BY <1>1, <1>4, <2>7, <2>12
<1>10. CASE n > 0 /\ s[Len(s)].k # "text" /\ s # <<Blank>>
  <2>1. b = q
    BY <1>1, <1>10, UnreactedIs
  <2>2. PICK e : e = Files(n)
    OBVIOUS
  <2>3. b = Append(s, e)
    BY <1>1, <1>10, <2>1, <2>2, QuietOf
  <2>4. Len(b) = Len(s) + 1
    BY <1>2, <2>3, Appended
  <2>5. \A i \in 1 .. Len(s) : b[i] = s[i]
    BY <1>2, <2>3, Appended
  <2>6. b[Len(s) + 1] = e
    BY <1>2, <2>3, Appended
  <2>7. FilesIn(e) = n /\ e.k = "files"
    BY <2>2, LineIs
  <2>8. b[Len(b)].k = "files"
    BY <2>4, <2>6, <2>7
  <2>9. WritesAlike(b, s)
    BY <1>2, <1>4, <2>4, <2>5, <2>8, WritesFiles
  <2>10. WritesAlike(b, say.lines)
    BY <1>5, <2>9, WritesToo
  <2>11. PICK p : p = Len(s) + 1
    OBVIOUS
  <2>12. \A i \in 1 .. Len(b) : FilesIn(b[i]) = IF i = p THEN n ELSE 0
    BY <1>2, <1>6, <2>4, <2>5, <2>6, <2>7, <2>11
  <2>13. p \in 1 .. Len(b)
    BY <1>2, <2>4, <2>11
  <2>14. extract(b) = n
    BY <1>2, <1>4, <2>12, <2>13, ExtractIs
  <2> QED
    BY <1>1, <1>4, <2>10, <2>14
<1> QED
  BY <1>2, <1>7, <1>8, <1>9, <1>10

\* The elements of a sequence with one more are those of the sequence.
LEMMA SameAppended ==
  ASSUME NEW a, IsSeq(a), NEW b, IsSeq(b), NEW e, NEW f, Append(a, e) = Append(b, f)
  PROVE  a = b /\ e = f
<1>1. PICK t : t = Append(a, e) /\ t = Append(b, f)
  OBVIOUS
<1>2. Len(t) = Len(a) + 1 /\ Len(a) \in Nat
  BY <1>1, Appended
<1>3. \A i \in 1 .. Len(a) : t[i] = a[i]
  BY <1>1, Appended
<1>4. t[Len(a) + 1] = e
  BY <1>1, Appended
<1>5. Len(t) = Len(b) + 1 /\ Len(b) \in Nat
  BY <1>1, Appended
<1>6. \A i \in 1 .. Len(b) : t[i] = b[i]
  BY <1>1, Appended
<1>7. t[Len(b) + 1] = f
  BY <1>1, Appended
<1>8. Len(a) = Len(b) /\ e = f
  BY <1>2, <1>4, <1>5, <1>7
<1>9. \A i \in 1 .. Len(a) : a[i] = b[i]
  BY <1>3, <1>6, <1>8
<1>10. a = b
  BY <1>8, <1>9, SameSeq
<1> QED
  BY <1>8, <1>10

LEMMA LastOfReacted ==
  ASSUME NEW say, SayingOK(say), NEW c, c = Cleaned(TextOf(say)), NEW b, b = Reacted(say), Len(b) # 0
  PROVE  b[Len(b)].k = "files" => say.files > 0 /\ b = Append(c, Files(say.files))
<1> SUFFICES ASSUME b[Len(b)].k = "files" PROVE say.files > 0 /\ b = Append(c, Files(say.files))
  OBVIOUS
<1>1. PICK s, r : s = TextOf(say) /\ r = TrimEnd(s)
  OBVIOUS
<1>2. IsSeq(s) /\ LinesOK(s) /\ say.files \in Nat
  BY <1>1, TextIs
<1>3. \A i \in 1 .. Len(s) : TextLine(s[i])
  BY <1>1, TextIs
<1>4. CASE say.files = 0
  <2>1. b = c
    BY <1>4, ReactedIs
  <2>2. Len(r) \in 0 .. Len(s) /\ Len(s) \in Nat
    BY <1>1, <1>2, TrimIs
  <2>3. Len(c) = Len(r)
    BY <1>1, <1>2, CleanedIs
  <2>4. \A j \in 1 .. Len(r) : c[j] = IF j = Len(r) THEN Unpadded(s[j]) ELSE s[j]
    BY <1>1, <1>2, CleanedIs
  <2>5. PICK n, line : n = Len(r) /\ line = s[n]
    OBVIOUS
  <2>6. n \in 1 .. Len(s) /\ c[n] = Unpadded(line)
    BY <2>1, <2>2, <2>3, <2>4, <2>5
  <2>7. LineOK(line) /\ line.k # "files"
    BY <1>3, <2>5, <2>6 DEF TextLine
  <2>8. Unpadded(line).k = line.k
    BY <2>7, UnpaddedIs
  <2> QED
    BY <2>1, <2>3, <2>5, <2>6, <2>7, <2>8
<1>5. CASE say.files > 0
  BY <1>5, ReactedIs
<1> QED
  BY <1>2, <1>4, <1>5

\* A text that nobody has reacted to and that looks like one with reactions keeps
\* its look.
LEMMA UnreactedLooks ==
  ASSUME NEW say, SayingOK(say), NEW other, SayingOK(other), Unreacted(say) = Reacted(other)
  PROVE  Unreacted(say) = Reacted(say)
<1>1. PICK s, q, u, r, n : s = TextOf(say) /\ q = Quiet(say) /\ u = Unreacted(say) /\ r = Reacted(say) /\ n = say.files
  OBVIOUS
<1>2. PICK c, d : c = Cleaned(s) /\ d = Cleaned(TextOf(other))
  OBVIOUS
<1>3. LinesOK(s) /\ IsSeq(s) /\ Len(s) \in Nat \ {0} /\ n \in Nat
  BY <1>1, TextIs
<1>4. \A i \in 1 .. Len(s) : TextLine(s[i])
  BY <1>1, TextIs
<1>5. LinesOK(TextOf(other)) /\ LinesOK(d) /\ IsSeq(d) /\ other.files \in Nat
  BY <1>2, TextIs, ReactedIs DEF LinesOK
<1>6. Cleaned(d) = d
  BY <1>2, <1>5, CleanedAgain
<1>7. u = Reacted(other) /\ IsSeq(u)
  BY <1>1, UnreactedIs DEF LinesOK
<1>8. other.files = 0 => u = d
  BY <1>2, <1>7, ReactedIs
<1>9. other.files > 0 => u = Append(d, Files(other.files))
  BY <1>2, <1>7, ReactedIs
<1>10. CASE n = 0
  <2>1. u = TrimEnd(s) /\ r = c
    BY <1>1, <1>2, <1>10, UnreactedIs, ReactedIs
  <2>2. other.files = 0
    <3> SUFFICES ASSUME other.files > 0 PROVE FALSE
      BY <1>5
    <3>1. Len(u) = Len(d) + 1 /\ Len(d) \in Nat
      BY <1>5, <1>9, Appended
    <3>2. u[Len(d) + 1] = Files(other.files)
      BY <1>5, <1>9, Appended
    <3>3. u[Len(u)].k = "files"
      BY <3>1, <3>2, LineIs
    <3>4. Len(u) \in 0 .. Len(s) /\ \A i \in 1 .. Len(u) : u[i] = s[i]
      BY <1>3, <2>1, TrimIs
    <3>5. Len(u) \in 1 .. Len(s) /\ u[Len(u)] = s[Len(u)]
      BY <1>3, <3>1, <3>4
    <3> QED
      BY <1>4, <3>3, <3>5 DEF TextLine
  <2>3. Cleaned(u) = c
    BY <1>2, <1>3, <2>1, CleanedAgain
  <2>4. u = d
    BY <1>8, <2>2
  <2> QED
    BY <1>1, <1>6, <2>1, <2>3, <2>4
<1>11. CASE n > 0 /\ s[Len(s)].k = "text"
  <2>1. u = q
    BY <1>1, <1>11, UnreactedIs
  <2>2. LastLinks(q, s, n)
    BY <1>1, <1>11, QuietText
  <2>3. PICK p : p = Len(s)
    OBVIOUS
  <2>4. Len(u) = p /\ u[p] = [k |-> "text", t |-> s[p].t, pad |-> s[p].pad, n |-> n]
    BY <2>1, <2>2, <2>3 DEF LastLinks
  <2>5. u[p].k = "text" /\ u[p].n = n
    BY <2>4
  <2>6. CASE other.files > 0
    <3>1. Len(u) = Len(d) + 1 /\ u[Len(d) + 1] = Files(other.files)
      <4>1. Len(u) = Len(d) + 1
        BY <1>5, <1>9, <2>6, Appended
      <4>2. u[Len(d) + 1] = Files(other.files)
        BY <1>5, <1>9, <2>6, Appended
      <4> QED
        BY <4>1, <4>2
    <3> QED
      BY <2>4, <2>5, <3>1, LineIs
  <2>7. CASE other.files = 0
    <3>1. PICK t, z : t = TextOf(other) /\ z = TrimEnd(t)
      OBVIOUS
    <3>2. u = d /\ IsSeq(t)
      BY <1>5, <1>8, <2>7, <3>1 DEF LinesOK
    <3>3. Len(z) \in 0 .. Len(t) /\ Len(t) \in Nat
      BY <3>1, <3>2, TrimIs
    <3>4. Len(d) = Len(z)
      BY <1>2, <3>1, <3>2, CleanedIs
    <3>5. \A j \in 1 .. Len(z) : d[j] = IF j = Len(z) THEN Unpadded(t[j]) ELSE t[j]
      BY <1>2, <3>1, <3>2, CleanedIs
    <3>6. PICK line : line = t[p]
      OBVIOUS
    <3>7. p \in 1 .. Len(t) /\ u[p] = Unpadded(line)
      BY <1>3, <2>3, <2>4, <3>2, <3>3, <3>4, <3>5, <3>6
    <3>8. \A i \in 1 .. Len(t) : TextLine(t[i])
      BY <3>1, TextIs
    <3>9. TextLine(line) /\ LineOK(line)
      BY <3>6, <3>7, <3>8 DEF TextLine
    <3>10. line.k = "text" /\ Unpadded(line) = [k |-> "text", t |-> line.t, pad |-> FALSE, n |-> line.n]
      BY <2>5, <3>7, <3>9, UnpaddedIs
    <3>11. line.n = 0
      BY <3>9, <3>10 DEF TextLine, FilesIn
    <3> QED
      BY <1>11, <2>5, <3>7, <3>10, <3>11
  <2> QED
    BY <1>5, <2>6, <2>7
<1>12. CASE n > 0 /\ s[Len(s)].k # "text" /\ s = <<Blank>>
  <2>1. u = q /\ q = <<Files(n)>>
    BY <1>1, <1>12, UnreactedIs, QuietOf
  <2>2. r = Append(c, Files(n))
    BY <1>1, <1>2, <1>12, ReactedIs
  <2>3. Len(s) = 1 /\ s[1] = Blank
    BY <1>12, Short
  <2>4. \A i \in 1 .. Len(s) : i > 0 => IsBlank(s[i])
    BY <2>3, LineIs
  <2>5. Len(TrimEnd(s)) = 0
    <3>1. 0 \in 0 .. Len(s)
      BY <2>3
    <3> QED
      BY <1>3, <2>4, <3>1, TrimAt
  <2>6. Len(c) = 0 /\ IsSeq(c)
    BY <1>2, <1>3, <2>5, CleanedIs
  <2>7. Len(r) = Len(c) + 1 /\ IsSeq(r)
    BY <2>2, <2>6, Appended
  <2>8. r[Len(c) + 1] = Files(n)
    BY <2>2, <2>6, Appended
  <2>9. Len(u) = 1 /\ u[1] = Files(n)
    BY <2>1, Short
  <2>10. u = r
    BY <1>7, <2>6, <2>7, <2>8, <2>9, SameSeq
  <2> QED
    BY <1>1, <2>10
<1>13. CASE n > 0 /\ s[Len(s)].k # "text" /\ s # <<Blank>>
  <2>1. u = Append(s, Files(n))
    BY <1>1, <1>13, UnreactedIs, QuietOf
  <2>2. r = Append(c, Files(n))
    BY <1>1, <1>2, <1>13, ReactedIs
  <2>3. Len(u) = Len(s) + 1
    BY <1>3, <2>1, Appended
  <2>4. u[Len(s) + 1] = Files(n)
    BY <1>3, <2>1, Appended
  <2>5. Len(u) # 0 /\ u[Len(u)].k = "files"
    BY <1>3, <2>3, <2>4, LineIs
  <2>6. u = Append(d, Files(other.files))
    BY <1>2, <1>7, <2>5, LastOfReacted
  <2>7. s = d
    BY <1>3, <1>5, <2>1, <2>6, SameAppended
  <2>8. c = s
    BY <1>2, <1>6, <2>7
  <2> QED
    BY <1>1, <2>1, <2>2, <2>8
<1> QED
  BY <1>3, <1>10, <1>11, <1>12, <1>13

\* And so does one that the first reaction does not hash anew.
LEMMA KeptLooks ==
  ASSUME NEW say, SayingOK(say), NEW u, u = Unreacted(say),
         u # <<>> => ~(say.files > 0 /\ u # <<Files(say.files)>>) /\ ~(Last(u).k = "text" /\ Last(u).pad)
  PROVE  u = Reacted(say)
<1>1. PICK s, r, n, c : s = TextOf(say) /\ r = Reacted(say) /\ n = say.files /\ c = Cleaned(s)
  OBVIOUS
<1>2. LinesOK(s) /\ IsSeq(s) /\ Len(s) \in Nat \ {0} /\ n \in Nat
  BY <1>1, TextIs
<1>3. \A i \in 1 .. Len(s) : TextLine(s[i])
  BY <1>1, TextIs
<1>4. LinesOK(u) /\ IsSeq(u)
  BY UnreactedIs DEF LinesOK
<1>5. CASE n = 0
  <2>1. u = TrimEnd(s) /\ r = c
    BY <1>1, <1>5, UnreactedIs, ReactedIs
  <2>2. Len(u) \in 0 .. Len(s) /\ \A i \in 1 .. Len(u) : u[i] = s[i]
    BY <1>2, <2>1, TrimIs
  <2>3. IsSeq(c) /\ Len(c) = Len(u)
    BY <1>1, <1>2, <2>1, CleanedIs
  <2>4. \A i \in 1 .. Len(u) : c[i] = IF i = Len(u) THEN Unpadded(s[i]) ELSE s[i]
    BY <1>1, <1>2, <2>1, CleanedIs
  <2>5. ASSUME NEW i \in 1 .. Len(u), i = Len(u) PROVE Unpadded(s[i]) = s[i]
    <3>1. PICK line : line = s[i]
      OBVIOUS
    <3>2. i \in 1 .. Len(s) /\ u[i] = line
      BY <1>2, <2>2, <3>1
    <3>3. TextLine(line) /\ LineOK(line)
      BY <1>3, <3>1, <3>2 DEF TextLine
    <3>4. Len(u) # 0 /\ u # <<>>
      BY <1>4, <2>2, <2>5, EmptyIs
    <3>5. ~(line.k = "text" /\ line.pad)
      BY <2>5, <3>2, <3>4 DEF Last
    <3>6. line.k = "text" => line.pad = FALSE
      BY <3>3, <3>5 DEF TextLine
    <3> QED
      BY <3>1, <3>3, <3>6, UnpaddedIs DEF Unpadded
  <2>6. \A i \in 1 .. Len(u) : u[i] = c[i]
    BY <2>2, <2>4, <2>5
  <2>7. u = c
    BY <1>4, <2>3, <2>6, SameSeq
  <2> QED
    BY <1>1, <2>1, <2>7
<1>6. CASE n > 0
  <2>1. u = Quiet(say)
    BY <1>1, <1>6, UnreactedIs
  <2>2. Len(u) # 0
    BY <1>4, <2>1, QuietIs
  <2>3. u = <<Files(n)>>
    BY <1>1, <1>4, <1>6, <2>2, EmptyIs
  <2>4. Len(u) = 1 /\ u[1] = Files(n)
    BY <2>3, Short
  <2>6. CASE s[Len(s)].k = "text"
    <3>1. LastLinks(u, s, n)
      BY <1>1, <1>6, <2>1, <2>6, QuietText
    <3>2. PICK p : p = Len(s)
      OBVIOUS
    <3>3. Len(u) = p /\ u[p] = [k |-> "text", t |-> s[p].t, pad |-> s[p].pad, n |-> n]
      BY <3>1, <3>2 DEF LastLinks
    <3>4. u[p].k = "text"
      BY <3>3
    <3> QED
      BY <2>4, <3>3, <3>4, LineIs
  <2>7. CASE s[Len(s)].k # "text" /\ s = <<Blank>>
    <3>1. r = Append(c, Files(n))
      BY <1>1, <1>6, ReactedIs
    <3>2. Len(s) = 1 /\ s[1] = Blank
      BY <2>7, Short
    <3>3. \A i \in 1 .. Len(s) : i > 0 => IsBlank(s[i])
      BY <3>2, LineIs
    <3>4. 0 \in 0 .. Len(s)
      BY <3>2
    <3>5. Len(TrimEnd(s)) = 0
      BY <1>2, <3>3, <3>4, TrimAt
    <3>6. Len(c) = 0 /\ IsSeq(c)
      BY <1>1, <1>2, <3>5, CleanedIs
    <3>7. Len(r) = Len(c) + 1 /\ IsSeq(r)
      BY <3>1, <3>6, Appended
    <3>8. r[Len(c) + 1] = Files(n)
      BY <3>1, <3>6, Appended
    <3>9. u = r
      BY <1>4, <2>4, <3>6, <3>7, <3>8, SameSeq
    <3> QED
      BY <1>1, <3>9
  <2>8. CASE s[Len(s)].k # "text" /\ s # <<Blank>>
    <3>1. u = Append(s, Files(n))
      BY <1>1, <1>6, <2>1, <2>8, QuietOf
    <3>2. Len(u) = Len(s) + 1
      BY <1>2, <3>1, Appended
    <3>3. PICK p : p = Len(s)
      OBVIOUS
    <3>4. p \in Nat \ {0} /\ p + 1 = 1
      BY <1>2, <2>4, <3>2, <3>3
    <3>5. FALSE
      BY <3>4
    <3> QED
      BY <3>5
  <2> QED
    BY <2>6, <2>7, <2>8
<1> QED
  BY <1>2, <1>5, <1>6

TakenAs(e, t, n, line) ==
  e = [body |-> Cleaned(SubSeq(t, 1, n - 1)) \o (IF line.n > 0 THEN <<Files(line.n)>> ELSE <<>>),
       reactions |-> line.reactions]

\* A trailer at the end is taken for the reactions.
LEMMA TrailerTaken ==
  ASSUME NEW t, IsSeq(t), NEW n, n = Len(t), n # 0, NEW line, line = t[n], line.k = "trailer", line.reactions # {}
  PROVE  TakenAs(extractReactions(t), t, n, line)
<1>1. n \in Nat \ {0} /\ DOMAIN t = 1 .. n
  BY DEF IsSeq
<1>2. PICK at : at = {i \in DOMAIN t : t[i].k = "trailer"}
  OBVIOUS
<1>3. n \in at /\ at \subseteq 1 .. n
  BY <1>1, <1>2
<1>4. IsFiniteSet(at) /\ at \subseteq Int /\ at # {}
  <2>1. IsFiniteSet(1 .. n) /\ at \in SUBSET (1 .. n)
    BY <1>1, <1>3, FS_Interval
  <2>2. IsFiniteSet(at)
    BY <2>1, FS_Subset
  <2> QED
    BY <1>3, <2>2
<1>5. PICK i : i = Max(at)
  OBVIOUS
<1>6. i \in at /\ \A y \in at : y <= i
  BY <1>4, <1>5, GreatestInt
<1>7. i = n
  BY <1>1, <1>3, <1>6
<1>8. ~(\E j \in i + 1 .. Len(t) : ~IsBlank(t[j]))
  BY <1>1, <1>7
<1>9. extractReactions(t) =
        IF at = {} \/ (\E j \in i + 1 .. Len(t) : ~IsBlank(t[j])) \/ t[i].reactions = {}
        THEN [body |-> t, reactions |-> {}]
        ELSE [body |-> Cleaned(SubSeq(t, 1, i - 1)) \o (IF t[i].n > 0 THEN <<Files(t[i].n)>> ELSE <<>>),
              reactions |-> t[i].reactions]
  BY <1>2, <1>5 DEF extractReactions
<1> QED
  BY <1>4, <1>7, <1>8, <1>9 DEF TakenAs

\* Without one everything is text.
LEMMA NoTrailer ==
  ASSUME NEW t, IsSeq(t),
         \A i \in 1 .. Len(t) : t[i].k = "trailer" /\ t[i].reactions # {} => \E j \in i + 1 .. Len(t) : ~IsBlank(t[j])
  PROVE  extractReactions(t) = [body |-> t, reactions |-> {}]
<1>1. PICK n : n = Len(t)
  OBVIOUS
<1>2. n \in Nat /\ DOMAIN t = 1 .. n
  BY <1>1 DEF IsSeq
<1>3. PICK at, i : at = {k \in DOMAIN t : t[k].k = "trailer"} /\ i = Max(at)
  OBVIOUS
<1>4. extractReactions(t) =
        IF at = {} \/ (\E j \in i + 1 .. Len(t) : ~IsBlank(t[j])) \/ t[i].reactions = {}
        THEN [body |-> t, reactions |-> {}]
        ELSE [body |-> Cleaned(SubSeq(t, 1, i - 1)) \o (IF t[i].n > 0 THEN <<Files(t[i].n)>> ELSE <<>>),
              reactions |-> t[i].reactions]
  BY <1>3 DEF extractReactions
<1>5. ASSUME at # {} PROVE (\E j \in i + 1 .. Len(t) : ~IsBlank(t[j])) \/ t[i].reactions = {}
  <2>1. IsFiniteSet(1 .. n) /\ at \in SUBSET (1 .. n)
    BY <1>2, <1>3, FS_Interval
  <2>2. IsFiniteSet(at) /\ at \subseteq Int
    <3>1. IsFiniteSet(at)
      BY <2>1, FS_Subset
    <3> QED
      BY <2>1, <3>1
  <2>3. i \in at
    BY <1>3, <1>5, <2>2, GreatestInt
  <2> QED
    BY <1>1, <1>2, <1>3, <2>3
<1> QED
  BY <1>4, <1>5

\* What is between the anchor and the blank of a message, the anchor's text first.
Inside(m) ==
  IF m.reacted # {} THEN Append(TextOf(m.say), Trailer(m.reacted, m.say.files)) ELSE Quiet(m.say)

SignalLinesOf(m, lines, all) ==
  /\ IsSeq(lines) /\ IsSeq(all) /\ Len(all) \in Nat \ {0} /\ Len(lines) = Len(all) + 1
  /\ lines[1] = Anchor(m.ts, m.say.from, all[1])
  /\ \A i \in 2 .. Len(all) : lines[i] = all[i]
  /\ lines[Len(lines)] = Blank

LEMMA SignalLinesAre ==
  ASSUME NEW m, MessageOK(m)
  PROVE  SignalLinesOf(m, SignalLines(m), Inside(m))
<1>1. PICK s, q, all, lines : s = TextOf(m.say) /\ q = Quiet(m.say) /\ all = Inside(m) /\ lines = SignalLines(m)
  OBVIOUS
<1>2. SayingOK(m.say)
  BY DEF MessageOK
<1>3. IsSeq(s) /\ Len(s) \in Nat \ {0} /\ m.say.files \in Nat
  BY <1>1, <1>2, TextIs
<1>4. IsSeq(q) /\ Len(q) \in Nat \ {0}
  BY <1>1, <1>2, QuietIs
<1>5. PICK anchor, z : anchor = Anchor(m.ts, m.say.from, all[1]) /\ z = <<anchor>> \o Tail(all)
  OBVIOUS
<1>6. lines = z \o <<Blank>>
  <2>1. CASE m.reacted # {}
    <3>1. all = Append(s, Trailer(m.reacted, m.say.files))
      BY <1>1, <2>1 DEF Inside
    <3> QED
      BY <1>1, <1>5, <2>1, <3>1 DEF SignalLines, TextOf
  <2>2. CASE m.reacted = {} /\ m.say.files > 0
    <3>1. all = IF Last(s).k = "text" THEN [s EXCEPT ![Len(s)].n = m.say.files]
                ELSE IF s = <<Blank>> THEN <<Files(m.say.files)>> ELSE Append(s, Files(m.say.files))
      BY <1>1, <2>2 DEF Inside, Quiet
    <3> QED
      BY <1>1, <1>5, <2>2, <3>1 DEF SignalLines, TextOf
  <2>3. CASE m.reacted = {} /\ ~(m.say.files > 0)
    <3>1. all = s
      BY <1>1, <2>3 DEF Inside, Quiet
    <3> QED
      BY <1>1, <1>5, <2>3, <3>1 DEF SignalLines, TextOf
  <2> QED
    BY <2>1, <2>2, <2>3
<1>7. IsSeq(all) /\ Len(all) \in Nat \ {0}
  <2>1. CASE m.reacted # {}
    <3>1. PICK e : e = Trailer(m.reacted, m.say.files)
      OBVIOUS
    <3>2. all = Append(s, e)
      BY <1>1, <2>1, <3>1 DEF Inside
    <3>3. IsSeq(all) /\ Len(all) = Len(s) + 1
      BY <1>3, <3>2, Appended
    <3> QED
      BY <1>3, <3>3
  <2>2. CASE m.reacted = {}
    BY <1>1, <1>4, <2>2 DEF Inside
  <2> QED
    BY <2>1, <2>2
<1>8. PICK rest, first : rest = Tail(all) /\ first = <<anchor>>
  OBVIOUS
<1>9. all # <<>>
  BY <1>7, EmptyIs
<1>10. IsSeq(rest) /\ Len(rest) = Len(all) - 1
  BY <1>7, <1>8, <1>9, Tailed
<1>11. \A i \in 1 .. Len(rest) : rest[i] = all[i + 1]
  BY <1>7, <1>8, <1>9, Tailed
<1>12. IsSeq(first) /\ Len(first) = 1 /\ first[1] = anchor
  BY <1>8, Short
<1>13. z = first \o rest
  BY <1>5, <1>8
<1>14. Concats(z, first, rest)
  BY <1>10, <1>12, <1>13, ConcatIs
<1>15. IsSeq(z) /\ Len(z) = Len(first) + Len(rest)
  BY <1>14 DEF Concats
<1>16. \A i \in 1 .. Len(first) : z[i] = first[i]
  BY <1>14 DEF Concats
<1>17. \A i \in 1 .. Len(rest) : z[Len(first) + i] = rest[i]
  BY <1>14 DEF Concats
<1>18. IsSeq(lines) /\ Len(lines) = Len(z) + 1
  BY <1>6, <1>15, FilesAdded
<1>19. \A i \in 1 .. Len(z) : lines[i] = z[i]
  BY <1>6, <1>15, FilesAdded
<1>20. lines[Len(z) + 1] = Blank
  BY <1>6, <1>15, FilesAdded
<1>21. Len(z) = Len(all)
  BY <1>7, <1>10, <1>12, <1>15
<1>22. lines[1] = anchor
  BY <1>7, <1>12, <1>16, <1>19, <1>21
<1>23. ASSUME NEW i \in 2 .. Len(all) PROVE lines[i] = all[i]
  <2>1. i \in 1 .. Len(z) /\ i - 1 \in 1 .. Len(rest) /\ 1 + (i - 1) = i /\ (i - 1) + 1 = i
    BY <1>7, <1>10, <1>21
  <2>2. z[i] = rest[i - 1]
    BY <1>12, <1>17, <2>1
  <2>3. rest[i - 1] = all[i]
    BY <1>11, <2>1
  <2> QED
    BY <1>19, <2>1, <2>2, <2>3
<1>24. SignalLinesOf(m, lines, all)
  BY <1>5, <1>7, <1>18, <1>20, <1>21, <1>22, <1>23 DEF SignalLinesOf
<1> QED
  BY <1>1, <1>24

\* A plain text has no other anchor.
LEMMA PlainContent ==
  ASSUME NEW m, MessageOK(m), Plain("signal", m.say.lines), NEW lines, lines = SignalLines(m)
  PROVE  \A i \in 2 .. Len(lines) : lines[i].k # "anchor"
<1>1. PICK s, q, all, n : s = TextOf(m.say) /\ q = Quiet(m.say) /\ all = Inside(m) /\ n = m.say.files
  OBVIOUS
<1>2. SayingOK(m.say)
  BY DEF MessageOK
<1>3. IsSeq(s) /\ Len(s) \in Nat \ {0} /\ n \in Nat
  BY <1>1, <1>2, TextIs
<1>4. ASSUME NEW i \in 2 .. Len(s) PROVE s[i].k # "anchor"
  <2>1. CASE m.say.lines = <<>>
    <3>1. s = <<Blank>>
      BY <1>1, <2>1 DEF TextOf
    <3>2. Len(s) = 1
      BY <3>1, Short
    <3> QED
      BY <1>4, <3>2
  <2>2. CASE m.say.lines # <<>>
    <3>1. s = m.say.lines
      BY <1>1, <2>2 DEF TextOf
    <3> QED
      BY <1>4, <3>1 DEF Plain
  <2> QED
    BY <2>1, <2>2
<1>5. SignalLinesOf(m, lines, all)
  BY <1>1, SignalLinesAre
<1>6. ASSUME NEW i \in 2 .. Len(all) PROVE all[i].k # "anchor"
  <2>1. CASE m.reacted # {}
    <3>1. PICK e : e = Trailer(m.reacted, n)
      OBVIOUS
    <3>2. all = Append(s, e)
      BY <1>1, <2>1, <3>1 DEF Inside
    <3>3. Len(all) = Len(s) + 1
      BY <1>3, <3>2, Appended
    <3>4. \A j \in 1 .. Len(s) : all[j] = s[j]
      BY <1>3, <3>2, Appended
    <3>5. all[Len(s) + 1] = e
      BY <1>3, <3>2, Appended
    <3>6. e.k = "trailer"
      BY <3>1 DEF Trailer
    <3> QED
      BY <1>3, <1>4, <3>3, <3>4, <3>5, <3>6
  <2>2. CASE m.reacted = {}
    <3>1. all = q
      BY <1>1, <2>2 DEF Inside
    <3>2. CASE n = 0
      <4>1. q = s
        BY <1>1, <1>2, <3>2, QuietIs
      <4> QED
        BY <1>4, <3>1, <4>1
    <3>3. CASE n > 0 /\ s[Len(s)].k = "text"
      <4>1. LastLinks(q, s, n)
        BY <1>1, <1>2, <3>3, QuietText
      <4>2. PICK p : p = Len(s)
        OBVIOUS
      <4>3. q[p] = [k |-> "text", t |-> s[p].t, pad |-> s[p].pad, n |-> n]
        BY <4>1, <4>2 DEF LastLinks
      <4>4. q[p].k = "text"
        BY <4>3
      <4>5. Len(q) = p /\ \A j \in 1 .. p : j # p => q[j] = s[j]
        BY <4>1, <4>2 DEF LastLinks
      <4>6. i # p => q[i] = s[i] /\ i \in 2 .. Len(s)
        BY <3>1, <4>2, <4>5
      <4> QED
        BY <1>4, <3>1, <4>4, <4>6
    <3>4. CASE n > 0 /\ s[Len(s)].k # "text" /\ s = <<Blank>>
      <4>1. q = <<Files(n)>>
        BY <1>1, <3>4, QuietOf
      <4>2. Len(q) = 1
        BY <4>1, Short
      <4> QED
        BY <3>1, <4>2
    <3>5. CASE n > 0 /\ s[Len(s)].k # "text" /\ s # <<Blank>>
      <4>1. PICK e : e = Files(n)
        OBVIOUS
      <4>2. q = Append(s, e)
        BY <1>1, <3>5, <4>1, QuietOf
      <4>3. Len(q) = Len(s) + 1
        BY <1>3, <4>2, Appended
      <4>4. \A j \in 1 .. Len(s) : q[j] = s[j]
        BY <1>3, <4>2, Appended
      <4>5. q[Len(s) + 1] = e
        BY <1>3, <4>2, Appended
      <4>6. e.k = "files"
        BY <4>1, LineIs
      <4> QED
        BY <1>3, <1>4, <3>1, <4>3, <4>4, <4>5, <4>6
    <3> QED
      BY <1>3, <3>2, <3>3, <3>4, <3>5
  <2> QED
    BY <2>1, <2>2
<1>7. ASSUME NEW i \in 2 .. Len(lines) PROVE lines[i].k # "anchor"
  <2>1. Len(lines) = Len(all) + 1 /\ Len(all) \in Nat \ {0} /\ lines[Len(lines)] = Blank
    BY <1>5 DEF SignalLinesOf
  <2>2. \A j \in 2 .. Len(all) : lines[j] = all[j]
    BY <1>5 DEF SignalLinesOf
  <2>3. CASE i \in 2 .. Len(all)
    BY <1>6, <2>2, <2>3
  <2>4. CASE i \notin 2 .. Len(all)
    <3>1. i = Len(lines)
      BY <2>1, <2>4
    <3>2. Blank.k = "blank"
      BY LineIs
    <3> QED
      BY <2>1, <3>1, <3>2
  <2> QED
    BY <2>3, <2>4
<1> QED
  BY <1>7

SignalRow(m) ==
  [ts |-> m.ts, sender |-> m.say.from, body |-> Body(m), files |-> m.say.files, reactions |-> m.reacted]

\* Lines of an unreacted message are those of its text, but for files.
LEMMA QuietLines ==
  ASSUME NEW say, SayingOK(say), NEW s, s = TextOf(say), NEW q, q = Quiet(say)
  PROVE  /\ \A i \in 1 .. Len(q) : q[i].k = "trailer" => i \in 1 .. Len(s) /\ q[i] = s[i]
         /\ \A i \in 1 .. Len(s) : ~IsBlank(s[i]) => i \in 1 .. Len(q) /\ ~IsBlank(q[i])
<1>1. PICK n : n = say.files
  OBVIOUS
<1>2. IsSeq(s) /\ Len(s) \in Nat \ {0} /\ n \in Nat
  BY <1>1, TextIs
<1>3. CASE n = 0
  <2>1. q = s
    BY <1>1, <1>3, QuietIs
  <2> QED
    BY <2>1
<1>4. CASE n > 0 /\ s[Len(s)].k = "text"
  <2>1. LastLinks(q, s, n)
    BY <1>1, <1>4, QuietText
  <2>2. PICK p : p = Len(s)
    OBVIOUS
  <2>3. q[p] = [k |-> "text", t |-> s[p].t, pad |-> s[p].pad, n |-> n]
    BY <2>1, <2>2 DEF LastLinks
  <2>4. q[p].k = "text"
    BY <2>3
  <2>5. Len(q) = p /\ \A j \in 1 .. p : j # p => q[j] = s[j]
    BY <2>1, <2>2 DEF LastLinks
  <2>6. ASSUME NEW i \in 1 .. Len(q), q[i].k = "trailer" PROVE i \in 1 .. Len(s) /\ q[i] = s[i]
    BY <2>2, <2>4, <2>5, <2>6
  <2>7. ASSUME NEW i \in 1 .. Len(s), ~IsBlank(s[i]) PROVE i \in 1 .. Len(q) /\ ~IsBlank(q[i])
    BY <2>2, <2>4, <2>5, <2>7 DEF IsBlank
  <2> QED
    BY <2>6, <2>7
<1>5. CASE n > 0 /\ s[Len(s)].k # "text" /\ s = <<Blank>>
  <2>1. q = <<Files(n)>>
    BY <1>1, <1>5, QuietOf
  <2>2. Len(q) = 1 /\ q[1] = Files(n) /\ Len(s) = 1 /\ s[1] = Blank
    BY <1>5, <2>1, Short
  <2>3. Files(n).k = "files" /\ IsBlank(Blank)
    BY LineIs
  <2> QED
    BY <2>2, <2>3
<1>6. CASE n > 0 /\ s[Len(s)].k # "text" /\ s # <<Blank>>
  <2>1. PICK e : e = Files(n)
    OBVIOUS
  <2>2. q = Append(s, e)
    BY <1>1, <1>6, <2>1, QuietOf
  <2>3. Len(q) = Len(s) + 1
    BY <1>2, <2>2, Appended
  <2>4. \A j \in 1 .. Len(s) : q[j] = s[j]
    BY <1>2, <2>2, Appended
  <2>5. q[Len(s) + 1] = e
    BY <1>2, <2>2, Appended
  <2>6. e.k = "files"
    BY <2>1, LineIs
  <2>7. ASSUME NEW i \in 1 .. Len(q), q[i].k = "trailer" PROVE i \in 1 .. Len(s) /\ q[i] = s[i]
    <3>1. i # Len(s) + 1
      BY <2>5, <2>6, <2>7
    <3>2. i \in 1 .. Len(s)
      BY <1>2, <2>3, <3>1
    <3> QED
      BY <2>4, <3>2
  <2>8. ASSUME NEW i \in 1 .. Len(s), ~IsBlank(s[i]) PROVE i \in 1 .. Len(q) /\ ~IsBlank(q[i])
    BY <1>2, <2>3, <2>4, <2>8
  <2> QED
    BY <2>7, <2>8
<1> QED
  BY <1>2, <1>3, <1>4, <1>5, <1>6

\* What the parser takes a plain message for.
LEMMA SignalTaken ==
  ASSUME NEW m, MessageOK(m), Plain("signal", m.say.lines), NEW all, all = Inside(m),
         NEW lines, IsSeq(lines), Len(lines) = Len(all) + 1, \A i \in 1 .. Len(all) : lines[i] = all[i],
         lines[Len(lines)] = Blank
  PROVE  extractReactions(TrimEnd(lines)) = [body |-> Body(m), reactions |-> m.reacted]
<1>1. PICK s, q, n, t : s = TextOf(m.say) /\ q = Quiet(m.say) /\ n = m.say.files /\ t = TrimEnd(lines)
  OBVIOUS
<1>2. SayingOK(m.say)
  BY DEF MessageOK
<1>3. IsSeq(s) /\ Len(s) \in Nat \ {0} /\ n \in Nat
  BY <1>1, <1>2, TextIs
<1>4. IsBlank(Blank)
  BY LineIs
<1>5. CASE m.reacted # {}
  <2>1. PICK e, k : e = Trailer(m.reacted, n) /\ k = Len(s) + 1
    OBVIOUS
  <2>2. all = Append(s, e)
    BY <1>1, <1>5, <2>1 DEF Inside
  <2>3. Len(all) = k
    BY <1>3, <2>1, <2>2, Appended
  <2>4. \A j \in 1 .. Len(s) : all[j] = s[j]
    BY <1>3, <2>2, Appended
  <2>5. all[k] = e
    BY <1>3, <2>1, <2>2, Appended
  <2>6. e.k = "trailer" /\ e.reactions = m.reacted /\ e.n = n
    BY <2>1 DEF Trailer
  <2>7. k \in Nat \ {0} /\ k \in 0 .. Len(lines) /\ lines[k] = e /\ ~IsBlank(lines[k])
    BY <1>3, <2>1, <2>3, <2>5, <2>6 DEF IsBlank
  <2>8. \A i \in 1 .. Len(lines) : i > k => IsBlank(lines[i])
    BY <1>4, <2>3, <2>7
  <2>9. IsSeq(t) /\ Len(t) = k
    BY <1>1, <2>7, <2>8, TrimAt
  <2>10. \A i \in 1 .. k : t[i] = lines[i]
    BY <1>1, <2>7, <2>8, TrimAt
  <2>11. t[k] = e
    BY <2>7, <2>10
  <2>12. PICK c : c = SubSeq(t, 1, k - 1)
    OBVIOUS
  <2>13. c = s
    <3>1. k - 1 \in 0 .. Len(t) /\ k - 1 = Len(s)
      BY <1>3, <2>1, <2>9
    <3>2. IsSeq(c) /\ Len(c) = k - 1
      BY <2>9, <2>12, <3>1, CutOff
    <3>3. \A i \in 1 .. k - 1 : c[i] = t[i]
      BY <2>9, <2>12, <3>1, CutOff
    <3>4. \A i \in 1 .. Len(c) : c[i] = s[i]
      BY <1>3, <2>1, <2>3, <2>4, <2>10, <3>2, <3>3
    <3> QED
      BY <1>3, <3>1, <3>2, <3>4, SameSeq
  <2>14. extractReactions(t) =
           [body |-> Cleaned(SubSeq(t, 1, k - 1)) \o (IF e.n > 0 THEN <<Files(e.n)>> ELSE <<>>), reactions |-> e.reactions]
    <3>1. k # 0 /\ e.k = "trailer" /\ e.reactions # {} /\ k = Len(t) /\ e = t[k] /\ IsSeq(t)
      BY <1>5, <2>6, <2>7, <2>9, <2>11
    <3>2. TakenAs(extractReactions(t), t, k, e)
      BY <3>1, TrailerTaken
    <3> QED
      BY <3>2 DEF TakenAs
  <2>15. Body(m) = Cleaned(s) \o (IF n > 0 THEN <<Files(n)>> ELSE <<>>)
    BY <1>1, <1>5 DEF Body, Reacted, FilesOf
  <2>16. extractReactions(t) = [body |-> Body(m), reactions |-> m.reacted]
    BY <2>6, <2>12, <2>13, <2>14, <2>15
  <2> QED
    BY <1>1, <2>16
<1>6. CASE m.reacted = {}
  <2>1. PICK u : u = TrimEnd(q)
    OBVIOUS
  <2>2. all = q /\ Body(m) = u
    BY <1>1, <1>6, <2>1 DEF Inside, Body, Unreacted
  <2>3. IsSeq(q) /\ Len(q) \in Nat \ {0}
    BY <1>1, <1>2, QuietIs
  <2>4. IsSeq(u) /\ Len(u) \in 0 .. Len(q)
    BY <2>1, <2>3, TrimIs
  <2>5. \A i \in 1 .. Len(u) : u[i] = q[i]
    BY <2>1, <2>3, TrimIs
  <2>6. \A i \in 1 .. Len(q) : i > Len(u) => IsBlank(q[i])
    BY <2>1, <2>3, TrimIs
  <2>7. Len(u) # 0 => ~IsBlank(q[Len(u)])
    BY <2>1, <2>3, TrimIs
  <2>8. Len(u) \in 0 .. Len(lines) /\ (Len(u) # 0 => ~IsBlank(lines[Len(u)]))
    BY <2>2, <2>3, <2>4, <2>7
  <2>9. \A i \in 1 .. Len(lines) : i > Len(u) => IsBlank(lines[i])
    BY <1>4, <2>2, <2>3, <2>4, <2>6
  <2>10. IsSeq(t) /\ Len(t) = Len(u)
    BY <1>1, <2>8, <2>9, TrimAt
  <2>11. \A i \in 1 .. Len(u) : t[i] = lines[i]
    BY <1>1, <2>8, <2>9, TrimAt
  <2>12. \A i \in 1 .. Len(t) : t[i] = u[i]
    BY <2>2, <2>3, <2>4, <2>5, <2>10, <2>11
  <2>13. t = u
    BY <2>4, <2>10, <2>12, SameSeq
  <2>14. ASSUME NEW i \in 1 .. Len(u), u[i].k = "trailer", u[i].reactions # {}
         PROVE  \E j \in i + 1 .. Len(u) : ~IsBlank(u[j])
    <3>1. i \in 1 .. Len(q) /\ q[i] = u[i]
      BY <2>3, <2>4, <2>5
    <3>2. i \in 1 .. Len(s) /\ q[i] = s[i]
      BY <1>1, <1>2, <2>14, <3>1, QuietLines
    <3>3. s = m.say.lines
      <4>1. CASE m.say.lines = <<>>
        <5>1. s = <<Blank>>
          BY <1>1, <4>1 DEF TextOf
        <5>2. Len(s) = 1 /\ s[1] = Blank /\ Blank.k = "blank"
          BY <5>1, Short, LineIs
        <5> QED
          BY <2>14, <3>1, <3>2, <5>2
      <4>2. CASE m.say.lines # <<>>
        BY <1>1, <4>2 DEF TextOf
      <4> QED
        BY <4>1, <4>2
    <3>4. DOMAIN s = 1 .. Len(s)
      BY <1>3 DEF IsSeq
    <3>5. PICK j \in i + 1 .. Len(s) : ~IsBlank(s[j])
      BY <2>14, <3>1, <3>2, <3>3, <3>4 DEF Plain
    <3>6. j \in 1 .. Len(s)
      BY <1>3, <3>2, <3>5
    <3>7. j \in 1 .. Len(q) /\ ~IsBlank(q[j])
      BY <1>1, <1>2, <3>5, <3>6, QuietLines
    <3>8. j <= Len(u)
      BY <2>3, <2>4, <2>6, <3>7
    <3>9. j \in i + 1 .. Len(u) /\ j \in 1 .. Len(u)
      BY <1>3, <2>4, <3>5, <3>6, <3>8
    <3> QED
      BY <2>5, <3>7, <3>9
  <2>15. extractReactions(u) = [body |-> u, reactions |-> {}]
    BY <2>4, <2>14, NoTrailer
  <2> QED
    BY <1>1, <1>6, <2>2, <2>13, <2>15
<1> QED
  BY <1>5, <1>6

SignalDue(m) == None \notin {m.ts, m.say.from}

\* A plain message is read as one row, or as none if its time or sender is unknown.
LEMMA SignalRead ==
  ASSUME NEW x, SignalState(x), IsSeq(x.out), NEW m, MessageOK(m), Plain("signal", m.say.lines),
         NEW y, y = readSignal(x, SignalLines(m))
  PROVE  flushSignal(y) = IF SignalDue(m) THEN Append(flushSignal(x), SignalRow(m)) ELSE flushSignal(x)
<1>1. PICK lines, all : lines = SignalLines(m) /\ all = Inside(m)
  OBVIOUS
<1>2. SignalLinesOf(m, lines, all)
  BY <1>1, SignalLinesAre
<1>3. /\ IsSeq(lines) /\ Len(all) \in Nat \ {0} /\ Len(lines) = Len(all) + 1
      /\ lines[1] = Anchor(m.ts, m.say.from, all[1]) /\ lines[Len(lines)] = Blank
  BY <1>2 DEF SignalLinesOf
<1>4. \A i \in 2 .. Len(all) : lines[i] = all[i]
  BY <1>2 DEF SignalLinesOf
<1>5. lines[1].k = "anchor" /\ lines[1].ts = m.ts /\ lines[1].sender = m.say.from /\ lines[1].line = all[1]
  BY <1>3 DEF Anchor
<1>6. \A i \in 2 .. Len(lines) : lines[i].k # "anchor"
  BY <1>1, PlainContent
<1>7. Len(lines) > 0 /\ y = readSignal(x, lines)
  BY <1>1, <1>3
<1>8. CASE ~SignalDue(m)
  <2>1. None \in {lines[1].ts, lines[1].sender}
    BY <1>5, <1>8 DEF SignalDue
  <2>2. flushSignal(y) = flushSignal(x)
    BY <1>3, <1>5, <1>6, <1>7, <2>1, SignalReads
  <2> QED
    BY <1>8, <2>2
<1>9. CASE SignalDue(m)
  <2>1. None \notin {lines[1].ts, lines[1].sender}
    BY <1>5, <1>9 DEF SignalDue
  <2>2. ReadAs(y, lines, flushSignal(x))
    BY <1>3, <1>5, <1>6, <1>7, <2>1, SignalReads
  <2>3. /\ y.open /\ y.ts = lines[1].ts /\ y.sender = lines[1].sender /\ y.out = flushSignal(x)
        /\ IsSeq(y.lines) /\ Len(y.lines) = Len(lines) /\ y.lines[1] = lines[1].line
    BY <2>2 DEF ReadAs
  <2>4. \A i \in 2 .. Len(lines) : y.lines[i] = lines[i]
    BY <2>2 DEF ReadAs
  <2>5. PICK z : z = y.lines
    OBVIOUS
  <2>6. IsSeq(z) /\ Len(z) = Len(all) + 1 /\ z[Len(z)] = Blank
    BY <1>3, <2>3, <2>4, <2>5
  <2>7. \A i \in 1 .. Len(all) : z[i] = all[i]
    BY <1>3, <1>4, <1>5, <2>3, <2>4, <2>5
  <2>8. extractReactions(TrimEnd(z)) = [body |-> Body(m), reactions |-> m.reacted]
    BY <1>1, <2>6, <2>7, SignalTaken
  <2>9. extract(Body(m)) = m.say.files
    <3>1. SayingOK(m.say)
      BY DEF MessageOK
    <3> QED
      BY <3>1, ReactedBody, UnreactedBody DEF Body
  <2>10. PICK e : e = extractReactions(TrimEnd(z))
    OBVIOUS
  <2>11. flushSignal(y) = Append(y.out, [ts |-> y.ts, sender |-> y.sender, body |-> e.body,
                                         files |-> extract(e.body), reactions |-> e.reactions])
    BY <2>3, <2>5, <2>10 DEF flushSignal
  <2>12. e.body = Body(m) /\ e.reactions = m.reacted
    BY <2>8, <2>10
  <2>13. [ts |-> y.ts, sender |-> y.sender, body |-> e.body, files |-> extract(e.body), reactions |-> e.reactions]
         = SignalRow(m)
    BY <1>5, <2>3, <2>9, <2>12 DEF SignalRow
  <2> QED
    BY <1>9, <2>3, <2>11, <2>13
<1> QED
  BY <1>8, <1>9

\* A list that has the row of every message of D, those of one time in the order in
\* which they were sent, and, if whole, nothing else.
Finds(list, chat, D, row, whole) ==
  /\ IsSeq(list)
  /\ \E at \in [D -> 1 .. Len(list)] :
       /\ \A i \in D : list[at[i]] = row[i]
       /\ \A i, j \in D : i < j /\ chat[i].ts = chat[j].ts => at[i] < at[j]
       /\ whole => \A p \in 1 .. Len(list) : \E i \in D : at[i] = p

LEMMA GatheredFinds ==
  ASSUME NEW lists, NEW n, NEW D, NEW row, Gathers(lists, n, D, row), NEW list, list = lists[n], NEW chat, NEW whole,
         lists[0] = <<>>, whole => \A k \in 1 .. n : k \notin D => lists[k] = lists[k - 1]
  PROVE  Finds(list, chat, D, row, whole)
<1>1. IsSeq(list) /\ \A k \in D : Len(lists[k]) \in 1 .. Len(list) /\ list[Len(lists[k])] = row[k]
  <2>1. IsSeq(list)
    BY Collected
  <2>2. \A k \in D : Len(lists[k]) \in 1 .. Len(list) /\ list[Len(lists[k])] = row[k]
    BY Collected
  <2> QED
    BY <2>1, <2>2
<1>2. \A i, j \in D : i < j => Len(lists[i]) < Len(lists[j])
  BY Collected
<1>3. PICK at : at = [k \in D |-> Len(lists[k])]
  OBVIOUS
<1>4. at \in [D -> 1 .. Len(list)]
  BY <1>1, <1>3
<1>5. \A i \in D : list[at[i]] = row[i]
  BY <1>1, <1>3
<1>6. \A i, j \in D : i < j /\ chat[i].ts = chat[j].ts => at[i] < at[j]
  BY <1>2, <1>3
<1>7. ASSUME whole, NEW p \in 1 .. Len(list) PROVE \E i \in D : at[i] = p
  <2>1. \A k \in 1 .. n : k \notin D => lists[k] = lists[k - 1]
    BY <1>7
  <2>2. p \in 1 .. Len(lists[n])
    BY <1>7
  <2>3. PICK k \in D : Len(lists[k]) = p
    BY <2>1, <2>2, CollectedAll
  <2> QED
    BY <1>3, <2>3
<1> QED
  BY <1>1, <1>4, <1>5, <1>6, <1>7 DEF Finds

SignalKept(chat) == {i \in 1 .. Len(chat) : Plain("signal", chat[i].say.lines) /\ SignalDue(chat[i])}

AllPlain(source, chat) == \A i \in 1 .. Len(chat) : Plain(source, chat[i].say.lines)

LEMMA SignalParsed ==
  ASSUME NEW chat, ChatOK(chat), NEW D, D = SignalKept(chat), NEW row, row = [i \in D |-> SignalRow(chat[i])]
  PROVE  \E list : ParseSignal(chat) = WithSeq(list) /\ Finds(list, chat, D, row, AllPlain("signal", chat))
<1>1. PICK n \in Nat : n = Len(chat)
  BY DEF ChatOK, IsSeq
<1>2. IsSeq(chat) /\ \A i \in 1 .. n : MessageOK(chat[i])
  BY <1>1 DEF ChatOK
<1>3. PICK run : /\ run[0] = NoText /\ \A k \in 1 .. n : run[k] = readSignal(run[k - 1], SignalLines(chat[k]))
                 /\ ParseSignal(chat) = WithSeq(flushSignal(run[n]))
  BY <1>1, <1>2, ParseSignalRuns
<1>4. PICK lists : lists = [k \in 0 .. n |-> flushSignal(run[k])]
  OBVIOUS
<1>5. SignalState(NoText) /\ IsSeq(NoText.out) /\ NoText.out = <<>> /\ ~NoText.open
  BY Short DEF NoText, SignalState
<1> DEFINE Good(k) == SignalState(run[k]) /\ IsSeq(run[k].out)
           Bad == {k \in 0 .. n : ~Good(k)}
<1>6. ASSUME NEW k \in 1 .. n, Good(k - 1)
      PROVE  Good(k) /\ IsSeq(lists[k - 1]) /\ IsSeq(lists[k]) /\ Grows(lists[k - 1], lists[k])
  <2>1. PICK x, y, m, lines : x = run[k - 1] /\ y = run[k] /\ m = chat[k] /\ lines = SignalLines(m)
    OBVIOUS
  <2>2. y = readSignal(x, lines) /\ SignalState(x) /\ IsSeq(x.out) /\ MessageOK(m)
    BY <1>2, <1>3, <1>6, <2>1
  <2>3. PICK all : all = Inside(m)
    OBVIOUS
  <2>4. SignalLinesOf(m, lines, all)
    BY <2>1, <2>2, <2>3, SignalLinesAre
  <2>5. IsSeq(lines) /\ Len(lines) > 0 /\ lines[1] = Anchor(m.ts, m.say.from, all[1])
    BY <2>4 DEF SignalLinesOf
  <2>6. lines[1].k = "anchor"
    BY <2>5 DEF Anchor
  <2>7. SignalState(y) /\ IsSeq(y.out)
    BY <2>2, <2>5, <2>6, SignalGrows
  <2>8. IsSeq(flushSignal(x)) /\ IsSeq(flushSignal(y))
    BY <2>2, <2>5, <2>6, SignalGrows
  <2>9. Grows(flushSignal(x), flushSignal(y))
    BY <2>2, <2>5, <2>6, SignalGrows
  <2>10. lists[k] = flushSignal(y) /\ lists[k - 1] = flushSignal(x)
    BY <1>1, <1>4, <2>1
  <2> QED
    BY <2>1, <2>7, <2>8, <2>9, <2>10
<1>7. Bad = {}
  <2> SUFFICES ASSUME Bad # {} PROVE FALSE
    OBVIOUS
  <2>0. Bad \subseteq Nat
    BY <1>1
  <2>1. PICK m \in Bad : \A k \in Bad : m <= k
    BY <2>0, LeastOf
  <2>2. m \in 0 .. n /\ ~Good(m)
    OBVIOUS
  <2>3. m # 0
    BY <1>3, <1>5, <2>2
  <2>4. m \in 1 .. n /\ m - 1 \in 0 .. n
    BY <1>1, <2>2, <2>3
  <2>5. Good(m - 1)
    BY <2>1, <2>4
  <2> QED
    BY <1>6, <2>2, <2>4, <2>5
<1>8. \A k \in 1 .. n : Good(k - 1)
  BY <1>1, <1>7
<1>9. lists[0] = <<>>
  <2>1. flushSignal(NoText) = <<>>
    BY <1>5 DEF flushSignal
  <2> QED
    BY <1>1, <1>3, <1>4, <2>1
<1>10. \A k \in 0 .. n : IsSeq(lists[k])
  <2>1. IsSeq(lists[0])
    BY <1>9, Short
  <2>2. \A k \in 1 .. n : IsSeq(lists[k])
    BY <1>6, <1>8
  <2> QED
    BY <1>1, <2>1, <2>2
<1>11. \A k \in 1 .. n : Grows(lists[k - 1], lists[k])
  BY <1>6, <1>8
<1>12. ASSUME NEW k \in 1 .. n, Plain("signal", chat[k].say.lines)
       PROVE  lists[k] = IF SignalDue(chat[k]) THEN Append(lists[k - 1], SignalRow(chat[k])) ELSE lists[k - 1]
  <2>1. PICK x, y, m : x = run[k - 1] /\ y = run[k] /\ m = chat[k]
    OBVIOUS
  <2>2. y = readSignal(x, SignalLines(m)) /\ SignalState(x) /\ IsSeq(x.out) /\ MessageOK(m) /\ Plain("signal", m.say.lines)
    BY <1>2, <1>3, <1>8, <1>12, <2>1
  <2>3. flushSignal(y) = IF SignalDue(m) THEN Append(flushSignal(x), SignalRow(m)) ELSE flushSignal(x)
    BY <2>2, SignalRead
  <2>4. lists[k] = flushSignal(y) /\ lists[k - 1] = flushSignal(x)
    BY <1>1, <1>4, <2>1
  <2> QED
    BY <2>1, <2>3, <2>4
<1>13. D \subseteq 1 .. n /\ \A k \in D : lists[k] = Append(lists[k - 1], row[k])
  BY <1>1, <1>12 DEF SignalKept
<1>14. Gathers(lists, n, D, row)
  BY <1>10, <1>11, <1>13 DEF Gathers
<1>15. AllPlain("signal", chat) => \A k \in 1 .. n : k \notin D => lists[k] = lists[k - 1]
  BY <1>1, <1>12 DEF AllPlain, SignalKept
<1>16. PICK list, whole : list = lists[n] /\ whole = AllPlain("signal", chat)
  OBVIOUS
<1>17. Finds(list, chat, D, row, whole)
  BY <1>9, <1>14, <1>15, <1>16, GatheredFinds
<1>18. list = flushSignal(run[n])
  BY <1>1, <1>4, <1>16
<1> QED
  BY <1>3, <1>16, <1>17, <1>18

-----------------------------------------------------------------------------
(* iMessage: what reading a message leaves.                                *)

IMessageState(x) ==
  x = [open |-> x.open, ts |-> x.ts, sender |-> x.sender, lines |-> x.lines, files |-> x.files,
       reactions |-> x.reactions, tapbacks |-> x.tapbacks, awaitsSender |-> x.awaitsSender, out |-> x.out]

IMessageRun(run, x, lines, n) ==
  /\ n = Len(lines)
  /\ run[0] = x /\ \A k \in 1 .. n : run[k] = imessageLine(run[k - 1], lines[k])
  /\ readIMessage(x, lines) = run[n]

LEMMA ReadIMessageRuns ==
  ASSUME NEW x, NEW lines, IsSeq(lines), NEW n, n = Len(lines)
  PROVE  \E run : IMessageRun(run, x, lines, n)
<1>1. n \in Nat
  BY DEF IsSeq
<1> DEFINE at == CHOOSE at : at = [k \in 0 .. n |-> IF k = 0 THEN x ELSE imessageLine(at[k - 1], lines[k])]
<1>2. at = [k \in 0 .. n |-> IF k = 0 THEN x ELSE imessageLine(at[k - 1], lines[k])]
  <2>1. \E run : Runs(run, "imessage", x, lines, n)
    BY RunsExist
  <2> QED
    BY <2>1 DEF Runs, Step
<1>3. readIMessage(x, lines) = at[n]
  BY <1>1 DEF readIMessage
<1> HIDE DEF at
<1>4. at[0] = x /\ \A k \in 1 .. n : at[k] = imessageLine(at[k - 1], lines[k])
  BY <1>1, <1>2
<1>5. IMessageRun(at, x, lines, n)
  BY <1>3, <1>4 DEF IMessageRun
<1> QED
  BY <1>5

LEMMA ParseIMessageRuns ==
  ASSUME NEW chat, IsSeq(chat)
  PROVE  \E run : /\ run[0] = NoMessage
                  /\ \A k \in 1 .. Len(chat) : run[k] = readIMessage(run[k - 1], IMessageLines(chat[k]))
                  /\ ParseIMessage(chat) = WithoutEmpty(WithSeq(flushIMessage(run[Len(chat)])))
<1>1. PICK n \in Nat : n = Len(chat)
  BY DEF IsSeq
<1> DEFINE at == CHOOSE at : at = [k \in 0 .. n |-> IF k = 0 THEN NoMessage ELSE readIMessage(at[k - 1], IMessageLines(chat[k]))]
<1>2. at = [k \in 0 .. n |-> IF k = 0 THEN NoMessage ELSE readIMessage(at[k - 1], IMessageLines(chat[k]))]
  <2>1. \E run : Runs(run, "imessageChat", NoMessage, chat, n)
    BY RunsExist
  <2> QED
    BY <2>1 DEF Runs, Step
<1>3. ParseIMessage(chat) = WithoutEmpty(WithSeq(flushIMessage(at[n])))
  BY <1>1 DEF ParseIMessage
<1> HIDE DEF at
<1>4. at[0] = NoMessage /\ \A k \in 1 .. n : at[k] = readIMessage(at[k - 1], IMessageLines(chat[k]))
  BY <1>2
<1> QED
  BY <1>1, <1>3, <1>4

\* A line adds the message before it to the list, or nothing.
LEMMA IMessageLineIs ==
  ASSUME NEW x, IMessageState(x), NEW line
  PROVE  /\ IMessageState(imessageLine(x, line))
         /\ line.k # "stamp" => imessageLine(x, line).out = x.out
         /\ line.k = "stamp" => imessageLine(x, line).out = flushIMessage(x)
<1>1. CASE line.k = "stamp"
  <2>1. imessageLine(x, line) =
          [open |-> TRUE, ts |-> line.ts, sender |-> None, lines |-> <<>>, files |-> 0,
           reactions |-> {}, tapbacks |-> FALSE, awaitsSender |-> TRUE, out |-> flushIMessage(x)]
    BY <1>1 DEF imessageLine, NoMessage
  <2> QED
    BY <1>1, <2>1 DEF IMessageState
<1>2. CASE line.k # "stamp" /\ ~x.open
  <2>1. imessageLine(x, line) = x
    BY <1>2 DEF imessageLine
  <2> QED
    BY <1>2, <2>1
<1>3. CASE line.k # "stamp" /\ x.open /\ x.awaitsSender
  <2>1. PICK e : e = (IF IsBlank(line) THEN None ELSE IF line.k = "text" THEN line.t ELSE line)
    OBVIOUS
  <2>2. imessageLine(x, line) = [x EXCEPT !.sender = e, !.awaitsSender = FALSE]
    BY <1>3, <2>1 DEF imessageLine
  <2> QED
    BY <1>3, <2>2 DEF IMessageState
<1>4. CASE line.k # "stamp" /\ x.open /\ ~x.awaitsSender
  <2>1. CASE line.k = "tapbacks"
    <3>1. imessageLine(x, line) = [x EXCEPT !.tapbacks = TRUE]
      BY <1>4, <2>1 DEF imessageLine
    <3> QED
      BY <1>4, <3>1 DEF IMessageState
  <2>2. CASE line.k = "tapback" /\ x.tapbacks
    <3>1. imessageLine(x, line) = [x EXCEPT !.reactions = @ \union {line.r}]
      BY <1>4, <2>2 DEF imessageLine
    <3> QED
      BY <1>4, <3>1 DEF IMessageState
  <2>3. CASE line.k # "tapbacks" /\ ~(line.k = "tapback" /\ x.tapbacks)
    <3>1. PICK z : z = [x EXCEPT !.tapbacks = FALSE]
      OBVIOUS
    <3>2. imessageLine(x, line) = classifyContent(z, line)
      BY <1>4, <2>3, <3>1 DEF imessageLine
    <3>3. IMessageState(z) /\ z.out = x.out
      BY <3>1 DEF IMessageState
    <3>4. IMessageState(classifyContent(z, line)) /\ classifyContent(z, line).out = z.out
      <4>1. CASE line.k = "files"
        BY <3>3, <4>1 DEF classifyContent, IMessageState
      <4>2. CASE line.k \in {"blank", "indented", "tapback"}
        BY <3>3, <4>2 DEF classifyContent
      <4>3. CASE line.k \notin {"files", "blank", "indented", "tapback"}
        BY <3>3, <4>3 DEF classifyContent, IMessageState
      <4> QED
        BY <4>1, <4>2, <4>3
    <3> QED
      BY <1>4, <3>2, <3>3, <3>4
  <2> QED
    BY <2>1, <2>2, <2>3
<1> QED
  BY <1>1, <1>2, <1>3, <1>4

LEMMA IMessageFlushed ==
  ASSUME NEW x, IsSeq(x.out)
  PROVE  IsSeq(flushIMessage(x)) /\ Grows(x.out, flushIMessage(x))
<1>1. PICK f, o : f = flushIMessage(x) /\ o = x.out
  OBVIOUS
<1>2. Len(o) \in Nat /\ IsSeq(o)
  BY <1>1 DEF IsSeq
<1>3. CASE f = o
  BY <1>1, <1>2, <1>3 DEF Grows
<1>4. CASE f # o
  <2>1. PICK e : f = Append(o, e)
    BY <1>1, <1>4 DEF flushIMessage
  <2>2. IsSeq(f) /\ Len(f) = Len(o) + 1
    BY <1>2, <2>1, Appended
  <2>3. \A i \in 1 .. Len(o) : f[i] = o[i]
    BY <1>2, <2>1, Appended
  <2> QED
    BY <1>1, <1>2, <2>2, <2>3 DEF Grows
<1> QED
  BY <1>3, <1>4

LEMMA IMessageGrows ==
  ASSUME NEW x, IMessageState(x), IsSeq(x.out), NEW lines, IsSeq(lines), Len(lines) > 0, lines[1].k = "stamp",
         NEW y, y = readIMessage(x, lines)
  PROVE  /\ IMessageState(y) /\ IsSeq(y.out) /\ IsSeq(flushIMessage(x)) /\ IsSeq(flushIMessage(y))
         /\ Grows(flushIMessage(x), flushIMessage(y))
<1>1. PICK n \in Nat : n = Len(lines)
  BY DEF IsSeq
<1>2. PICK run : /\ run[0] = x /\ \A k \in 1 .. n : run[k] = imessageLine(run[k - 1], lines[k])
                 /\ y = run[n]
  <2>1. PICK run : IMessageRun(run, x, lines, n)
    BY <1>1, ReadIMessageRuns
  <2> QED
    BY <2>1 DEF IMessageRun
<1>3. PICK f : f = flushIMessage(x)
  OBVIOUS
<1>4. IsSeq(f)
  BY <1>3, IMessageFlushed
<1> DEFINE Good(k) == IMessageState(run[k]) /\ IsSeq(run[k].out) /\ Grows(f, run[k].out)
           Bad == {k \in 1 .. n : ~Good(k)}
<1>5. Good(1)
  <2>1. PICK w, line : w = run[1] /\ line = lines[1] /\ w = imessageLine(x, line) /\ line.k = "stamp"
    BY <1>1, <1>2
  <2>2. IMessageState(w)
    BY <2>1, IMessageLineIs
  <2>4. imessageLine(x, line).out = flushIMessage(x)
    BY <2>1, IMessageLineIs
  <2>3. Len(f) \in Nat
    BY <1>4 DEF IsSeq
  <2> QED
    BY <1>3, <1>4, <2>1, <2>2, <2>3, <2>4 DEF Grows
<1>6. ASSUME NEW k \in 2 .. n, Good(k - 1) PROVE Good(k)
  <2>1. PICK u, w, line : u = run[k - 1] /\ w = run[k] /\ line = lines[k]
    OBVIOUS
  <2>2. w = imessageLine(u, line) /\ IMessageState(u) /\ IsSeq(u.out) /\ Grows(f, u.out)
    BY <1>1, <1>2, <1>6, <2>1
  <2>3. IMessageState(w) /\ w.out \in {u.out, flushIMessage(u)}
    BY <2>2, IMessageLineIs
  <2>4. IsSeq(flushIMessage(u)) /\ Grows(u.out, flushIMessage(u))
    BY <2>2, IMessageFlushed
  <2>5. IsSeq(w.out) /\ Grows(f, w.out)
    BY <1>4, <2>2, <2>3, <2>4, GrowsToo
  <2> QED
    BY <2>1, <2>3, <2>5
<1>7. Bad = {}
  <2> SUFFICES ASSUME Bad # {} PROVE FALSE
    OBVIOUS
  <2>0. Bad \subseteq Nat
    BY <1>1
  <2>1. PICK m \in Bad : \A k \in Bad : m <= k
    BY <2>0, LeastOf
  <2>2. m \in 1 .. n /\ ~Good(m)
    OBVIOUS
  <2>3. m # 1
    BY <1>5, <2>2
  <2>4. m \in 2 .. n /\ m - 1 \in 1 .. n
    BY <1>1, <2>2, <2>3
  <2>5. Good(m - 1)
    BY <2>1, <2>4
  <2> QED
    BY <1>6, <2>2, <2>4, <2>5
<1>8. Good(n)
  BY <1>1, <1>7
<1>9. IMessageState(y) /\ IsSeq(y.out) /\ Grows(f, y.out)
  BY <1>2, <1>8
<1>10. IsSeq(flushIMessage(y)) /\ Grows(y.out, flushIMessage(y))
  BY <1>9, IMessageFlushed
<1> QED
  BY <1>3, <1>4, <1>9, <1>10, GrowsToo

\* One part of a message after the other.
InParts(x, a, b, t) == readIMessage(x, t) = readIMessage(readIMessage(x, a), b)

LEMMA ReadInParts ==
  ASSUME NEW x, NEW a, IsSeq(a), NEW b, IsSeq(b), NEW t, t = a \o b
  PROVE  InParts(x, a, b, t)
<1>1. PICK m \in Nat, n \in Nat : m = Len(a) /\ n = Len(b)
  BY DEF IsSeq
<1>2. Concats(t, a, b)
  BY ConcatIs
<1>3. IsSeq(t) /\ Len(t) = m + n /\ \A i \in 1 .. m : t[i] = a[i]
  BY <1>1, <1>2 DEF Concats
<1>4. \A i \in 1 .. n : t[m + i] = b[i]
  BY <1>1, <1>2 DEF Concats
<1>5. PICK run : IMessageRun(run, x, t, m + n)
  BY <1>3, ReadIMessageRuns
<1>6. PICK p : IMessageRun(p, x, a, m)
  BY <1>1, ReadIMessageRuns
<1>7. PICK y : y = p[m]
  OBVIOUS
<1>8. PICK q : IMessageRun(q, y, b, n)
  BY <1>1, ReadIMessageRuns
<1> USE DEF IMessageRun
<1> DEFINE Bad == {k \in 0 .. m : run[k] # p[k]}
           Worse == {k \in 0 .. n : run[m + k] # q[k]}
<1>9. Bad = {}
  <2> SUFFICES ASSUME Bad # {} PROVE FALSE
    OBVIOUS
  <2>0. Bad \subseteq Nat
    BY <1>1
  <2>1. PICK k \in Bad : \A l \in Bad : k <= l
    BY <2>0, LeastOf
  <2>2. k \in 0 .. m /\ run[k] # p[k]
    OBVIOUS
  <2>3. k # 0
    BY <1>5, <1>6, <2>2
  <2>4. k \in 1 .. m /\ k \in 1 .. m + n /\ k - 1 \in 0 .. m
    BY <1>1, <2>2, <2>3
  <2>5. run[k - 1] = p[k - 1]
    BY <2>1, <2>4
  <2> QED
    BY <1>3, <1>5, <1>6, <2>2, <2>4, <2>5
<1>10. Worse = {}
  <2> SUFFICES ASSUME Worse # {} PROVE FALSE
    OBVIOUS
  <2>0. Worse \subseteq Nat
    BY <1>1
  <2>1. PICK k \in Worse : \A l \in Worse : k <= l
    BY <2>0, LeastOf
  <2>2. k \in 0 .. n /\ run[m + k] # q[k]
    OBVIOUS
  <2>3. k # 0
    <3>1. run[m] = p[m]
      BY <1>1, <1>9
    <3>2. m + 0 = m
      BY <1>1
    <3> QED
      BY <1>7, <1>8, <2>2, <3>1, <3>2
  <2>4. k \in 1 .. n /\ m + k \in 1 .. m + n /\ k - 1 \in 0 .. n /\ (m + k) - 1 = m + (k - 1)
    BY <1>1, <2>2, <2>3
  <2>5. run[m + (k - 1)] = q[k - 1]
    BY <2>1, <2>4
  <2>6. run[m + k] = imessageLine(run[m + (k - 1)], t[m + k])
    BY <1>5, <2>4
  <2> QED
    BY <1>4, <1>8, <2>2, <2>4, <2>5, <2>6
<1>11. run[m + n] = q[n]
  <2>1. n \in 0 .. n
    BY <1>1
  <2> QED
    BY <1>10, <2>1
<1> QED
  BY <1>5, <1>6, <1>7, <1>8, <1>11 DEF InParts

\* What is read of a message, in its parts.
Begun(m, f, lines, n, reactions) ==
  [open |-> TRUE, ts |-> m.ts, sender |-> m.say.from, lines |-> lines, files |-> n, reactions |-> reactions,
   tapbacks |-> FALSE, awaitsSender |-> FALSE, out |-> f]
Reacting(m, f, lines, n, reactions) ==
  [open |-> TRUE, ts |-> m.ts, sender |-> m.say.from, lines |-> lines, files |-> n, reactions |-> reactions,
   tapbacks |-> TRUE, awaitsSender |-> FALSE, out |-> f]

HeadOf(m) == <<Stamp(m.ts), IF m.say.from = None THEN Blank ELSE Text(m.say.from)>>
TapbacksOf(m) == IF m.reacted # {} THEN <<Tapbacks>> \o SetToSeq({Tapback(r) : r \in m.reacted}) ELSE <<>>

LEMMA ReadShort ==
  ASSUME NEW x, NEW e
  PROVE  readIMessage(x, <<>>) = x /\ readIMessage(x, <<e>>) = imessageLine(x, e)
<1>1. PICK a, b : a = <<>> /\ b = <<e>>
  OBVIOUS
<1>2. IsSeq(a) /\ Len(a) = 0 /\ IsSeq(b) /\ Len(b) = 1 /\ b[1] = e
  BY <1>1, Short
<1>3. PICK p : IMessageRun(p, x, a, 0)
  BY <1>2, ReadIMessageRuns
<1>4. PICK q : IMessageRun(q, x, b, 1)
  BY <1>2, ReadIMessageRuns
<1> QED
  BY <1>1, <1>2, <1>3, <1>4 DEF IMessageRun

LEMMA ReadHead ==
  ASSUME NEW x, IMessageState(x), NEW m
  PROVE  readIMessage(x, HeadOf(m)) = Begun(m, flushIMessage(x), <<>>, 0, {})
<1>1. PICK a, b, e, f : a = <<Stamp(m.ts)>> /\ e = (IF m.say.from = None THEN Blank ELSE Text(m.say.from)) /\ b = <<e>>
                        /\ f = flushIMessage(x)
  OBVIOUS
<1>2. IsSeq(a) /\ IsSeq(b)
  BY <1>1, Short
<1>3. HeadOf(m) = a \o b
  BY <1>1 DEF HeadOf
<1>4. PICK y : y = readIMessage(x, a)
  OBVIOUS
<1>5. y = [open |-> TRUE, ts |-> m.ts, sender |-> None, lines |-> <<>>, files |-> 0,
           reactions |-> {}, tapbacks |-> FALSE, awaitsSender |-> TRUE, out |-> f]
  <2>1. PICK line : line = Stamp(m.ts)
    OBVIOUS
  <2>2. line.k = "stamp" /\ line.ts = m.ts
    BY <2>1 DEF Stamp
  <2>3. y = imessageLine(x, line)
    BY <1>1, <1>4, <2>1, ReadShort
  <2>4. imessageLine(x, line) = [NoMessage EXCEPT !.open = TRUE, !.ts = line.ts, !.awaitsSender = TRUE, !.out = flushIMessage(x)]
    BY <2>2 DEF imessageLine
  <2> QED
    BY <1>1, <2>2, <2>3, <2>4 DEF NoMessage
<1>6. readIMessage(x, HeadOf(m)) = readIMessage(y, b)
  <2>1. PICK t : t = HeadOf(m)
    OBVIOUS
  <2>2. t = a \o b
    BY <1>3, <2>1
  <2>3. InParts(x, a, b, t)
    BY <1>2, <2>2, ReadInParts
  <2> QED
    BY <1>4, <2>1, <2>3 DEF InParts
<1>7. readIMessage(y, b) = imessageLine(y, e)
  BY <1>1, ReadShort
<1>8. e.k # "stamp" /\ (IF IsBlank(e) THEN None ELSE IF e.k = "text" THEN e.t ELSE e) = m.say.from
  <2>1. CASE m.say.from = None
    <3>1. e = Blank
      BY <1>1, <2>1
    <3>2. e.k = "blank" /\ IsBlank(e)
      BY <3>1, LineIs
    <3> QED
      BY <2>1, <3>2
  <2>2. CASE m.say.from # None
    <3>1. e = Text(m.say.from)
      BY <1>1, <2>2
    <3>2. e.k = "text" /\ e.t = m.say.from
      BY <3>1 DEF Text
    <3>3. ~IsBlank(e)
      BY <3>2 DEF IsBlank
    <3> QED
      BY <3>2, <3>3
  <2> QED
    BY <2>1, <2>2
<1>9. imessageLine(y, e) = [y EXCEPT !.sender = m.say.from, !.awaitsSender = FALSE]
  <2>1. y.open /\ y.awaitsSender
    BY <1>5
  <2>2. imessageLine(y, e) =
          [y EXCEPT !.sender = IF IsBlank(e) THEN None ELSE IF e.k = "text" THEN e.t ELSE e, !.awaitsSender = FALSE]
    BY <1>8, <2>1 DEF imessageLine
  <2> QED
    BY <1>8, <2>2
<1> QED
  BY <1>1, <1>5, <1>6, <1>7, <1>9 DEF Begun

\* Lines of content.
LEMMA TextRead ==
  ASSUME NEW m, NEW f, NEW lines, NEW n, NEW reactions, NEW line, line.k = "text"
  PROVE  imessageLine(Begun(m, f, lines, n, reactions), line) = Begun(m, f, Append(lines, line), n, reactions)
<1>1. PICK x : x = Begun(m, f, lines, n, reactions)
  OBVIOUS
<1>2. x.open /\ ~x.awaitsSender /\ ~x.tapbacks
  BY <1>1 DEF Begun, Reacting
<1>3. PICK z : z = [x EXCEPT !.tapbacks = FALSE]
  OBVIOUS
<1>4. z = Begun(m, f, lines, n, reactions)
  BY <1>1, <1>3 DEF Begun, Reacting
<1>5. imessageLine(x, line) = classifyContent(z, line)
  BY <1>2, <1>3 DEF imessageLine
<1>6. classifyContent(z, line) = [z EXCEPT !.lines = Append(@, line)]
  BY DEF classifyContent
<1> QED
  BY <1>1, <1>4, <1>5, <1>6 DEF Begun, Reacting

LEMMA FilesRead ==
  ASSUME NEW m, NEW f, NEW lines, NEW n, NEW reactions, NEW line, line.k = "files"
  PROVE  imessageLine(Begun(m, f, lines, n, reactions), line) = Begun(m, f, lines, n + line.n, reactions)
<1>1. PICK x : x = Begun(m, f, lines, n, reactions)
  OBVIOUS
<1>2. x.open /\ ~x.awaitsSender /\ ~x.tapbacks
  BY <1>1 DEF Begun, Reacting
<1>3. PICK z : z = [x EXCEPT !.tapbacks = FALSE]
  OBVIOUS
<1>4. z = Begun(m, f, lines, n, reactions)
  BY <1>1, <1>3 DEF Begun, Reacting
<1>5. imessageLine(x, line) = classifyContent(z, line)
  BY <1>2, <1>3 DEF imessageLine
<1>6. classifyContent(z, line) = [z EXCEPT !.files = @ + line.n]
  BY DEF classifyContent
<1> QED
  BY <1>1, <1>4, <1>5, <1>6 DEF Begun, Reacting

LEMMA BlankRead ==
  ASSUME NEW m, NEW f, NEW lines, NEW n, NEW reactions, NEW line, line.k = "blank"
  PROVE  imessageLine(Begun(m, f, lines, n, reactions), line) = Begun(m, f, lines, n, reactions)
<1>1. PICK x : x = Begun(m, f, lines, n, reactions)
  OBVIOUS
<1>2. x.open /\ ~x.awaitsSender /\ ~x.tapbacks
  BY <1>1 DEF Begun, Reacting
<1>3. PICK z : z = [x EXCEPT !.tapbacks = FALSE]
  OBVIOUS
<1>4. z = Begun(m, f, lines, n, reactions)
  BY <1>1, <1>3 DEF Begun, Reacting
<1>5. imessageLine(x, line) = classifyContent(z, line)
  BY <1>2, <1>3 DEF imessageLine
<1>6. classifyContent(z, line) = z
  BY DEF classifyContent
<1> QED
  BY <1>1, <1>4, <1>5, <1>6 DEF Begun, Reacting

LEMMA LastRead ==
  ASSUME NEW m, NEW f, NEW lines, NEW n, NEW reactions, NEW line, line.k = "blank"
  PROVE  imessageLine(Reacting(m, f, lines, n, reactions), line) = Begun(m, f, lines, n, reactions)
<1>1. PICK x : x = Reacting(m, f, lines, n, reactions)
  OBVIOUS
<1>2. x.open /\ ~x.awaitsSender /\ x.tapbacks
  BY <1>1 DEF Begun, Reacting
<1>3. PICK z : z = [x EXCEPT !.tapbacks = FALSE]
  OBVIOUS
<1>4. z = Begun(m, f, lines, n, reactions)
  BY <1>1, <1>3 DEF Begun, Reacting
<1>5. imessageLine(x, line) = classifyContent(z, line)
  BY <1>2, <1>3 DEF imessageLine
<1>6. classifyContent(z, line) = z
  BY DEF classifyContent
<1> QED
  BY <1>1, <1>4, <1>5, <1>6 DEF Begun, Reacting

LEMMA TapbacksRead ==
  ASSUME NEW m, NEW f, NEW lines, NEW n, NEW reactions, NEW line, line.k = "tapbacks"
  PROVE  imessageLine(Begun(m, f, lines, n, reactions), line) = Reacting(m, f, lines, n, reactions)
<1>1. PICK x : x = Begun(m, f, lines, n, reactions)
  OBVIOUS
<1>2. x.open /\ ~x.awaitsSender /\ ~x.tapbacks
  BY <1>1 DEF Begun, Reacting
<1>3. imessageLine(x, line) = [x EXCEPT !.tapbacks = TRUE]
  BY <1>2 DEF imessageLine
<1> QED
  BY <1>1, <1>3 DEF Begun, Reacting

LEMMA TapbackRead ==
  ASSUME NEW m, NEW f, NEW lines, NEW n, NEW reactions, NEW line, line.k = "tapback"
  PROVE  imessageLine(Reacting(m, f, lines, n, reactions), line) = Reacting(m, f, lines, n, reactions \union {line.r})
<1>1. PICK x : x = Reacting(m, f, lines, n, reactions)
  OBVIOUS
<1>2. x.open /\ ~x.awaitsSender /\ x.tapbacks
  BY <1>1 DEF Begun, Reacting
<1>3. imessageLine(x, line) = [x EXCEPT !.reactions = @ \union {line.r}]
  BY <1>2 DEF imessageLine
<1> QED
  BY <1>1, <1>3 DEF Begun, Reacting

TextSoFar(y, m, f, n, lines, k) ==
  \E s : y = Begun(m, f, s, n, {}) /\ IsSeq(s) /\ Len(s) = k /\ \A i \in 1 .. k : s[i] = lines[i]

LEMMA ReadText ==
  ASSUME NEW m, NEW f, NEW n, NEW lines, IsSeq(lines), \A i \in 1 .. Len(lines) : lines[i].k = "text"
  PROVE  readIMessage(Begun(m, f, <<>>, n, {}), lines) = Begun(m, f, lines, n, {})
<1>1. PICK l \in Nat : l = Len(lines)
  BY DEF IsSeq
<1>2. PICK x : x = Begun(m, f, <<>>, n, {})
  OBVIOUS
<1>3. PICK run : IMessageRun(run, x, lines, l)
  BY <1>1, ReadIMessageRuns
<1> DEFINE Good(k) == TextSoFar(run[k], m, f, n, lines, k)
<1>4. Good(0)
  <2>1. PICK s : s = <<>>
    OBVIOUS
  <2>2. run[0] = Begun(m, f, s, n, {}) /\ IsSeq(s) /\ Len(s) = 0
    BY <1>2, <1>3, <2>1, Short DEF IMessageRun
  <2> QED
    BY <2>2 DEF TextSoFar
<1>5. ASSUME NEW k \in 1 .. l, Good(k - 1) PROVE Good(k)
  <2>1. PICK s : /\ run[k - 1] = Begun(m, f, s, n, {})
                 /\ IsSeq(s) /\ Len(s) = k - 1 /\ \A i \in 1 .. k - 1 : s[i] = lines[i]
    BY <1>5 DEF TextSoFar
  <2>2. PICK u, line, t : u = run[k - 1] /\ line = lines[k] /\ t = Append(s, line)
    OBVIOUS
  <2>3. line.k = "text"
    BY <1>1, <2>2
  <2>4. imessageLine(u, line) = Begun(m, f, t, n, {})
    BY <2>1, <2>2, <2>3, TextRead
  <2>5. run[k] = Begun(m, f, t, n, {})
    BY <1>3, <2>2, <2>4 DEF IMessageRun
  <2>6. IsSeq(t) /\ Len(t) = Len(s) + 1
    BY <2>1, <2>2, Appended
  <2>7. \A i \in 1 .. Len(s) : t[i] = s[i]
    BY <2>1, <2>2, Appended
  <2>8. t[Len(s) + 1] = line
    BY <2>1, <2>2, Appended
  <2>9. Len(t) = k /\ \A i \in 1 .. k : t[i] = lines[i]
    BY <1>1, <2>1, <2>2, <2>6, <2>7, <2>8
  <2> QED
    BY <2>5, <2>6, <2>9 DEF TextSoFar
<1> HIDE DEF Good
<1> DEFINE Bad == {k \in 0 .. l : ~Good(k)}
<1>6. Bad = {}
  <2> SUFFICES ASSUME Bad # {} PROVE FALSE
    OBVIOUS
  <2>0. Bad \subseteq Nat
    BY <1>1
  <2>1. PICK k \in Bad : \A j \in Bad : k <= j
    BY <2>0, LeastOf
  <2>2. k \in 0 .. l /\ ~Good(k)
    OBVIOUS
  <2>3. k # 0
    BY <1>4, <2>2
  <2>4. k \in 1 .. l /\ k - 1 \in 0 .. l
    BY <1>1, <2>2, <2>3
  <2>5. Good(k - 1)
    BY <2>1, <2>4
  <2> QED
    BY <1>5, <2>2, <2>4, <2>5
<1>7. l \in 0 .. l
  BY <1>1
<1> USE DEF Good
<1>8. PICK s : /\ run[l] = Begun(m, f, s, n, {})
               /\ IsSeq(s) /\ Len(s) = l /\ \A i \in 1 .. l : s[i] = lines[i]
  BY <1>6, <1>7 DEF TextSoFar
<1>9. s = lines
  BY <1>1, <1>8, SameSeq
<1> QED
  BY <1>2, <1>3, <1>8, <1>9 DEF IMessageRun

LEMMA ReadTapbacks ==
  ASSUME NEW m, NEW f, NEW n, NEW text, NEW lines, IsSeq(lines), \A i \in 1 .. Len(lines) : lines[i].k = "tapback"
  PROVE  readIMessage(Reacting(m, f, text, n, {}), lines) =
           Reacting(m, f, text, n, {lines[i].r : i \in 1 .. Len(lines)})
<1>1. PICK l \in Nat : l = Len(lines)
  BY DEF IsSeq
<1>2. PICK x : x = Reacting(m, f, text, n, {})
  OBVIOUS
<1>3. PICK run : IMessageRun(run, x, lines, l)
  BY <1>1, ReadIMessageRuns
<1> DEFINE Good(k) == run[k] = Reacting(m, f, text, n, {lines[i].r : i \in 1 .. k})
<1>4. Good(0)
  <2>1. {lines[i].r : i \in 1 .. 0} = {}
    OBVIOUS
  <2> QED
    BY <1>2, <1>3, <2>1 DEF IMessageRun
<1>5. ASSUME NEW k \in 1 .. l, Good(k - 1) PROVE Good(k)
  <2>1. PICK u, line, R : u = run[k - 1] /\ line = lines[k] /\ R = {lines[i].r : i \in 1 .. k - 1}
    OBVIOUS
  <2>2. line.k = "tapback" /\ u = Reacting(m, f, text, n, R)
    BY <1>1, <1>5, <2>1
  <2>3. imessageLine(u, line) = Reacting(m, f, text, n, R \union {line.r})
    BY <2>2, TapbackRead
  <2>4. R \union {line.r} = {lines[i].r : i \in 1 .. k}
    <3>1. 1 .. k = (1 .. k - 1) \union {k}
      BY <1>1
    <3> QED
      BY <2>1, <3>1
  <2>5. run[k] = imessageLine(u, line)
    BY <1>3, <2>1 DEF IMessageRun
  <2> QED
    BY <2>3, <2>4, <2>5
<1> HIDE DEF Good
<1> DEFINE Bad == {k \in 0 .. l : ~Good(k)}
<1>6. Bad = {}
  <2> SUFFICES ASSUME Bad # {} PROVE FALSE
    OBVIOUS
  <2>0. Bad \subseteq Nat
    BY <1>1
  <2>1. PICK k \in Bad : \A j \in Bad : k <= j
    BY <2>0, LeastOf
  <2>2. k \in 0 .. l /\ ~Good(k)
    OBVIOUS
  <2>3. k # 0
    BY <1>4, <2>2
  <2>4. k \in 1 .. l /\ k - 1 \in 0 .. l
    BY <1>1, <2>2, <2>3
  <2>5. Good(k - 1)
    BY <2>1, <2>4
  <2> QED
    BY <1>5, <2>2, <2>4, <2>5
<1>7. l \in 0 .. l
  BY <1>1
<1> USE DEF Good
<1>8. run[l] = Reacting(m, f, text, n, {lines[i].r : i \in 1 .. l})
  BY <1>6, <1>7
<1> QED
  BY <1>1, <1>2, <1>3, <1>8 DEF IMessageRun

\* A finite set as a sequence.
LEMMA SetListed ==
  ASSUME NEW S, IsFiniteSet(S), NEW s, s = SetToSeq(S)
  PROVE  IsSeq(s) /\ Len(s) = Cardinality(S) /\ S = {s[i] : i \in 1 .. Len(s)}
<1>1. PICK n : n = Cardinality(S)
  OBVIOUS
<1>2. n \in Nat /\ \E f : ExistsBijection(1 .. n, S)
  BY <1>1, FS_CardinalityType, FS_CountingElements
<1>3. \E f \in [1 .. n -> S] : IsInjective(f)
  <2>1. PICK f : f \in Bijection(1 .. n, S)
    BY <1>2 DEF ExistsBijection
  <2>2. f \in [1 .. n -> S] /\ \A i, j \in 1 .. n : f[i] = f[j] => i = j
    BY <2>1 DEF Bijection, Injection, IsInjective
  <2> QED
    BY <2>2 DEF IsInjective
<1>4. s \in [1 .. n -> S] /\ IsInjective(s)
  BY <1>1, <1>3 DEF SetToSeq
<1>5. s = [i \in 1 .. n |-> s[i]]
  BY <1>4
<1>6. OfLength(s, n)
  BY <1>2, <1>5 DEF OfLength
<1>7. IsSeq(s) /\ Len(s) = n
  BY <1>6, SeqListed
<1>8. S = {s[i] : i \in 1 .. n}
  <2>1. s \in Injection(1 .. n, S)
    <3>1. \A i, j \in 1 .. n : s[i] = s[j] => i = j
      BY <1>4 DEF IsInjective
    <3> QED
      BY <1>4, <3>1, Fun_IsInj
  <2>2. IsFiniteSet(1 .. n) /\ Cardinality(1 .. n) = Cardinality(S)
    BY <1>1, <1>2, FS_Interval
  <2>3. s \in Surjection(1 .. n, S)
    BY <2>1, <2>2, FS_Injection
  <2> QED
    BY <2>3 DEF Surjection
<1> QED
  BY <1>1, <1>7, <1>8

TapbackSet(m) == {Tapback(r) : r \in m.reacted}

LEMMA TapbacksAre ==
  ASSUME NEW m, IsFiniteSet(m.reacted), NEW s, s = SetToSeq(TapbackSet(m))
  PROVE  /\ IsSeq(s) /\ \A i \in 1 .. Len(s) : s[i].k = "tapback"
         /\ {s[i].r : i \in 1 .. Len(s)} = m.reacted
<1>1. PICK S : S = TapbackSet(m)
  OBVIOUS
<1>2. IsFiniteSet(S)
  <2>1. PICK g : g = [r \in m.reacted |-> Tapback(r)]
    OBVIOUS
  <2>2. S = {g[r] : r \in m.reacted}
    BY <1>1, <2>1 DEF TapbackSet
  <2>3. g \in Surjection(m.reacted, S)
    BY <2>1, <2>2 DEF Surjection
  <2> QED
    BY <2>3, FS_Surjection
<1>3. IsSeq(s) /\ S = {s[i] : i \in 1 .. Len(s)}
  BY <1>1, <1>2, SetListed
<1>4. ASSUME NEW i \in 1 .. Len(s) PROVE s[i].k = "tapback" /\ s[i].r \in m.reacted
  <2>1. PICK r \in m.reacted : s[i] = Tapback(r)
    BY <1>1, <1>3 DEF TapbackSet
  <2> QED
    BY <2>1 DEF Tapback
<1>5. ASSUME NEW r \in m.reacted PROVE \E i \in 1 .. Len(s) : r = s[i].r
  <2>1. PICK i \in 1 .. Len(s) : s[i] = Tapback(r)
    BY <1>1, <1>3 DEF TapbackSet
  <2> QED
    BY <2>1 DEF Tapback
<1> QED
  BY <1>3, <1>4, <1>5

LEMMA HeadIs ==
  ASSUME NEW m, NEW h, h = HeadOf(m)
  PROVE  IsSeq(h) /\ Len(h) = 2 /\ h[1] = Stamp(m.ts)
<1>1. PICK a, b, e : a = <<Stamp(m.ts)>> /\ e = (IF m.say.from = None THEN Blank ELSE Text(m.say.from)) /\ b = <<e>>
  OBVIOUS
<1>2. IsSeq(a) /\ Len(a) = 1 /\ a[1] = Stamp(m.ts) /\ IsSeq(b) /\ Len(b) = 1
  BY <1>1, Short
<1>3. h = a \o b
  BY <1>1 DEF HeadOf
<1>4. Concats(h, a, b)
  BY <1>2, <1>3, ConcatIs
<1> QED
  BY <1>2, <1>4 DEF Concats

LEMMA TapbacksSeq ==
  ASSUME NEW m, IsFiniteSet(m.reacted)
  PROVE  IsSeq(TapbacksOf(m))
<1>1. CASE m.reacted = {}
  BY <1>1, Short DEF TapbacksOf
<1>2. CASE m.reacted # {}
  <2>1. PICK s, b, t : s = SetToSeq(TapbackSet(m)) /\ b = <<Tapbacks>> /\ t = b \o s
    OBVIOUS
  <2>2. IsSeq(s)
    BY <2>1, TapbacksAre
  <2>3. IsSeq(b)
    BY <2>1, Short
  <2>4. Concats(t, b, s)
    BY <2>1, <2>2, <2>3, ConcatIs
  <2>5. TapbacksOf(m) = t
    BY <1>2, <2>1 DEF TapbacksOf, TapbackSet
  <2> QED
    BY <2>4, <2>5 DEF Concats
<1> QED
  BY <1>1, <1>2

\* The parts of a message.
Parted(lines, a, b, c, d, h, f, l, t) ==
  /\ IsSeq(lines) /\ IsSeq(a) /\ IsSeq(b) /\ IsSeq(c) /\ IsSeq(h) /\ IsSeq(f) /\ IsSeq(l) /\ IsSeq(t) /\ IsSeq(d)
  /\ a = h \o f /\ b = a \o l /\ c = b \o t /\ lines = c \o d

LEMMA IMessageParts ==
  ASSUME NEW m, MessageOK(m), NEW lines, lines = IMessageLines(m)
  PROVE  /\ IsSeq(lines) /\ Len(lines) > 0 /\ lines[1].k = "stamp"
         /\ \E a, b, c : Parted(lines, a, b, c, <<Blank>>, HeadOf(m), FilesOf(m.say), m.say.lines, TapbacksOf(m))
<1>1. PICK h, f, l, t, d : h = HeadOf(m) /\ f = FilesOf(m.say) /\ l = m.say.lines /\ t = TapbacksOf(m) /\ d = <<Blank>>
  OBVIOUS
<1>2. PICK a, b, c : a = h \o f /\ b = a \o l /\ c = b \o t
  OBVIOUS
<1>3. lines = c \o d
  BY <1>1, <1>2 DEF IMessageLines, HeadOf, FilesOf, TapbacksOf
<1>4. IsSeq(h) /\ Len(h) = 2 /\ h[1] = Stamp(m.ts)
  BY <1>1, HeadIs
<1>5. IsSeq(f)
  <2>1. f = <<>> \/ f = <<Files(m.say.files)>>
    BY <1>1 DEF FilesOf
  <2> QED
    BY <2>1, Short
<1>6. IsSeq(l)
  <2>1. SayingOK(m.say)
    BY DEF MessageOK
  <2>2. PICK s : s = TextOf(m.say)
    OBVIOUS
  <2> QED
    BY <1>1, <2>1, <2>2, TextIs
<1>7. IsSeq(t)
  BY <1>1, TapbacksSeq DEF MessageOK
<1>8. IsSeq(d)
  BY <1>1, Short
<1>9. Concats(a, h, f)
  BY <1>2, <1>4, <1>5, ConcatIs
<1>10. IsSeq(a) /\ Len(a) \in Nat /\ Len(a) > 0 /\ a[1] = h[1]
  BY <1>4, <1>9 DEF Concats
<1>11. Concats(b, a, l)
  BY <1>2, <1>6, <1>10, ConcatIs
<1>12. IsSeq(b) /\ Len(b) \in Nat /\ Len(b) > 0 /\ b[1] = a[1]
  BY <1>10, <1>11 DEF Concats
<1>13. Concats(c, b, t)
  BY <1>2, <1>7, <1>12, ConcatIs
<1>14. IsSeq(c) /\ Len(c) \in Nat /\ Len(c) > 0 /\ c[1] = b[1]
  BY <1>12, <1>13 DEF Concats
<1>15. Concats(lines, c, d)
  BY <1>3, <1>8, <1>14, ConcatIs
<1>16. IsSeq(lines) /\ Len(lines) > 0 /\ lines[1] = c[1]
  BY <1>14, <1>15 DEF Concats
<1>17. lines[1].k = "stamp"
  <2>1. lines[1] = Stamp(m.ts)
    BY <1>4, <1>10, <1>12, <1>14, <1>16
  <2> QED
    BY <2>1 DEF Stamp
<1>18. Parted(lines, a, b, c, d, h, f, l, t)
  BY <1>2, <1>3, <1>4, <1>5, <1>6, <1>7, <1>8, <1>10, <1>12, <1>14, <1>16 DEF Parted
<1> QED
  BY <1>1, <1>16, <1>17, <1>18

\* A plain message is read as it was sent.
LEMMA IMessageReads ==
  ASSUME NEW x, IMessageState(x), NEW m, MessageOK(m), Plain("imessage", m.say.lines), NEW lines, lines = IMessageLines(m)
  PROVE  readIMessage(x, lines) = Begun(m, flushIMessage(x), m.say.lines, m.say.files, m.reacted)
<1>1. PICK h, f, l, t, d, out1, n :
        h = HeadOf(m) /\ f = FilesOf(m.say) /\ l = m.say.lines /\ t = TapbacksOf(m) /\ d = <<Blank>>
        /\ out1 = flushIMessage(x) /\ n = m.say.files
  OBVIOUS
<1>2. PICK a, b, c : Parted(lines, a, b, c, d, h, f, l, t)
  BY <1>1, IMessageParts
<1>3. IsSeq(a) /\ IsSeq(b) /\ IsSeq(c) /\ IsSeq(h) /\ IsSeq(f) /\ IsSeq(l) /\ IsSeq(t) /\ IsSeq(d)
  BY <1>2 DEF Parted
<1>4. a = h \o f /\ b = a \o l /\ c = b \o t /\ lines = c \o d
  BY <1>2 DEF Parted
<1>5. n \in Nat /\ \A i \in 1 .. Len(l) : l[i].k = "text"
  <2>1. SayingOK(m.say) /\ DOMAIN l = 1 .. Len(l)
    BY <1>3 DEF MessageOK, IsSeq
  <2> QED
    BY <1>1, <2>1 DEF SayingOK, Plain
<1>6. readIMessage(x, h) = Begun(m, out1, <<>>, 0, {})
  BY <1>1, ReadHead
<1>7. readIMessage(x, a) = Begun(m, out1, <<>>, n, {})
  <2>1. InParts(x, h, f, a)
    BY <1>3, <1>4, ReadInParts
  <2>2. PICK y : y = Begun(m, out1, <<>>, 0, {})
    OBVIOUS
  <2>3. readIMessage(x, a) = readIMessage(y, f)
    BY <1>6, <2>1, <2>2 DEF InParts
  <2>4. CASE n > 0
    <3>1. PICK line : line = Files(n)
      OBVIOUS
    <3>2. f = <<line>>
      BY <1>1, <2>4, <3>1 DEF FilesOf
    <3>3. line.k = "files" /\ line.n = n
      BY <3>1 DEF Files
    <3>4. readIMessage(y, f) = imessageLine(y, line)
      BY <3>2, ReadShort
    <3>5. imessageLine(y, line) = Begun(m, out1, <<>>, 0 + line.n, {})
      BY <2>2, <3>3, FilesRead
    <3>6. 0 + line.n = n
      BY <1>5, <3>3
    <3> QED
      BY <2>3, <3>4, <3>5, <3>6
  <2>5. CASE n = 0
    <3>1. f = <<>>
      BY <1>1, <2>5 DEF FilesOf
    <3>2. readIMessage(y, f) = y
      BY <3>1, ReadShort
    <3> QED
      BY <2>2, <2>3, <2>5, <3>2
  <2> QED
    BY <1>5, <2>4, <2>5
<1>8. readIMessage(x, b) = Begun(m, out1, l, n, {})
  <2>1. InParts(x, a, l, b)
    BY <1>3, <1>4, ReadInParts
  <2>2. readIMessage(Begun(m, out1, <<>>, n, {}), l) = Begun(m, out1, l, n, {})
    BY <1>3, <1>5, ReadText
  <2> QED
    BY <1>7, <2>1, <2>2 DEF InParts
<1>9. readIMessage(x, lines) = Begun(m, out1, l, n, m.reacted)
  <2>1. InParts(x, b, t, c)
    BY <1>3, <1>4, ReadInParts
  <2>2. InParts(x, c, d, lines)
    BY <1>3, <1>4, ReadInParts
  <2>3. PICK y, blank : y = Begun(m, out1, l, n, {}) /\ blank = Blank
    OBVIOUS
  <2>4. blank.k = "blank"
    BY <2>3, LineIs
  <2>5. PICK z : z = readIMessage(y, t)
    OBVIOUS
  <2>6. readIMessage(x, lines) = readIMessage(z, d)
    BY <1>8, <2>1, <2>2, <2>3, <2>5 DEF InParts
  <2>7. readIMessage(z, d) = imessageLine(z, blank)
    BY <1>1, <2>3, ReadShort
  <2>8. CASE m.reacted = {}
    <3>1. t = <<>>
      BY <1>1, <2>8 DEF TapbacksOf
    <3>2. z = y
      BY <2>5, <3>1, ReadShort
    <3>3. imessageLine(y, blank) = Begun(m, out1, l, n, {})
      BY <2>3, <2>4, BlankRead
    <3> QED
      BY <2>6, <2>7, <2>8, <3>2, <3>3
  <2>9. CASE m.reacted # {}
    <3>1. PICK s, e, line : s = SetToSeq(TapbackSet(m)) /\ e = <<Tapbacks>> /\ line = Tapbacks
      OBVIOUS
    <3>2. IsSeq(s) /\ \A i \in 1 .. Len(s) : s[i].k = "tapback"
      BY <3>1, TapbacksAre DEF MessageOK
    <3>3. {s[i].r : i \in 1 .. Len(s)} = m.reacted
      BY <3>1, TapbacksAre DEF MessageOK
    <3>4. IsSeq(e)
      BY <3>1, Short
    <3>5. t = e \o s
      BY <1>1, <2>9, <3>1 DEF TapbacksOf, TapbackSet
    <3>6. InParts(y, e, s, t)
      BY <3>2, <3>4, <3>5, ReadInParts
    <3>7. readIMessage(y, e) = imessageLine(y, line)
      BY <3>1, ReadShort
    <3>8. line.k = "tapbacks"
      BY <3>1 DEF Tapbacks
    <3>9. imessageLine(y, line) = Reacting(m, out1, l, n, {})
      BY <2>3, <3>8, TapbacksRead
    <3>10. readIMessage(Reacting(m, out1, l, n, {}), s) = Reacting(m, out1, l, n, {s[i].r : i \in 1 .. Len(s)})
      BY <3>2, ReadTapbacks
    <3>11. z = Reacting(m, out1, l, n, m.reacted)
      BY <2>5, <3>3, <3>6, <3>7, <3>9, <3>10 DEF InParts
    <3>12. imessageLine(z, blank) = Begun(m, out1, l, n, m.reacted)
      BY <2>4, <3>11, LastRead
    <3> QED
      BY <2>6, <2>7, <3>12
  <2> QED
    BY <2>8, <2>9
<1> QED
  BY <1>1, <1>9

IMessageRow(m) ==
  [ts |-> m.ts, sender |-> m.say.from, body |-> m.say.lines, files |-> m.say.files, reactions |-> m.reacted]

LEMMA IMessageRead ==
  ASSUME NEW x, IMessageState(x), NEW m, MessageOK(m), Plain("imessage", m.say.lines),
         NEW y, y = readIMessage(x, IMessageLines(m))
  PROVE  flushIMessage(y) = Append(flushIMessage(x), IMessageRow(m))
<1>1. y = Begun(m, flushIMessage(x), m.say.lines, m.say.files, m.reacted)
  BY IMessageReads
<1>2. /\ y.open /\ y.ts = m.ts /\ y.sender = m.say.from /\ y.lines = m.say.lines /\ y.files = m.say.files
      /\ y.reactions = m.reacted /\ y.out = flushIMessage(x)
  BY <1>1 DEF Begun
<1>3. [ts |-> y.ts, sender |-> y.sender, body |-> y.lines, files |-> y.files, reactions |-> y.reactions] = IMessageRow(m)
  BY <1>2 DEF IMessageRow
<1>4. flushIMessage(y) = Append(y.out, [ts |-> y.ts, sender |-> y.sender, body |-> y.lines,
                                        files |-> y.files, reactions |-> y.reactions])
  BY <1>2 DEF flushIMessage
<1> QED
  BY <1>2, <1>3, <1>4

IMessageKept(chat) == {i \in 1 .. Len(chat) : Plain("imessage", chat[i].say.lines)}

\* A list of one row for each message.
RowForEach(list, chat) == Len(list) = Len(chat) /\ \A i \in 1 .. Len(chat) : list[i] = IMessageRow(chat[i])

\* The list that a transcript is read into, and its rows.
IMessageRows(p, list, chat, D, row) ==
  /\ p = WithoutEmpty(WithSeq(list))
  /\ Finds(list, chat, D, row, AllPlain("imessage", chat))
  /\ AllPlain("imessage", chat) => RowForEach(list, chat)

LEMMA IMessageParsed ==
  ASSUME NEW chat, ChatOK(chat), NEW D, D = IMessageKept(chat), NEW row, row = [i \in D |-> IMessageRow(chat[i])]
  PROVE  \E list : IMessageRows(ParseIMessage(chat), list, chat, D, row)
<1>1. PICK n \in Nat : n = Len(chat)
  BY DEF ChatOK, IsSeq
<1>2. IsSeq(chat) /\ \A i \in 1 .. n : MessageOK(chat[i])
  BY <1>1 DEF ChatOK
<1>3. PICK run : /\ run[0] = NoMessage /\ \A k \in 1 .. n : run[k] = readIMessage(run[k - 1], IMessageLines(chat[k]))
                 /\ ParseIMessage(chat) = WithoutEmpty(WithSeq(flushIMessage(run[n])))
  BY <1>1, <1>2, ParseIMessageRuns
<1>4. PICK lists : lists = [k \in 0 .. n |-> flushIMessage(run[k])]
  OBVIOUS
<1>5. IMessageState(NoMessage) /\ IsSeq(NoMessage.out) /\ NoMessage.out = <<>> /\ ~NoMessage.open
  BY Short DEF NoMessage, IMessageState
<1> DEFINE Good(k) == IMessageState(run[k]) /\ IsSeq(run[k].out)
           Bad == {k \in 0 .. n : ~Good(k)}
<1>6. ASSUME NEW k \in 1 .. n, Good(k - 1)
      PROVE  Good(k) /\ IsSeq(lists[k - 1]) /\ IsSeq(lists[k]) /\ Grows(lists[k - 1], lists[k])
  <2>1. PICK x, y, m, lines : x = run[k - 1] /\ y = run[k] /\ m = chat[k] /\ lines = IMessageLines(m)
    OBVIOUS
  <2>2. y = readIMessage(x, lines) /\ IMessageState(x) /\ IsSeq(x.out) /\ MessageOK(m)
    BY <1>2, <1>3, <1>6, <2>1
  <2>5. IsSeq(lines) /\ Len(lines) > 0
    BY <2>1, <2>2, IMessageParts
  <2>6. lines[1].k = "stamp"
    BY <2>1, <2>2, IMessageParts
  <2>7. IMessageState(y) /\ IsSeq(y.out)
    BY <2>2, <2>5, <2>6, IMessageGrows
  <2>8. IsSeq(flushIMessage(x)) /\ IsSeq(flushIMessage(y))
    BY <2>2, <2>5, <2>6, IMessageGrows
  <2>9. Grows(flushIMessage(x), flushIMessage(y))
    BY <2>2, <2>5, <2>6, IMessageGrows
  <2>10. lists[k] = flushIMessage(y) /\ lists[k - 1] = flushIMessage(x)
    BY <1>1, <1>4, <2>1
  <2> QED
    BY <2>1, <2>7, <2>8, <2>9, <2>10
<1>7. Bad = {}
  <2> SUFFICES ASSUME Bad # {} PROVE FALSE
    OBVIOUS
  <2>0. Bad \subseteq Nat
    BY <1>1
  <2>1. PICK m \in Bad : \A k \in Bad : m <= k
    BY <2>0, LeastOf
  <2>2. m \in 0 .. n /\ ~Good(m)
    OBVIOUS
  <2>3. m # 0
    BY <1>3, <1>5, <2>2
  <2>4. m \in 1 .. n /\ m - 1 \in 0 .. n
    BY <1>1, <2>2, <2>3
  <2>5. Good(m - 1)
    BY <2>1, <2>4
  <2> QED
    BY <1>6, <2>2, <2>4, <2>5
<1>8. \A k \in 1 .. n : Good(k - 1)
  BY <1>1, <1>7
<1>9. lists[0] = <<>>
  <2>1. flushIMessage(NoMessage) = <<>>
    BY <1>5 DEF flushIMessage
  <2> QED
    BY <1>1, <1>3, <1>4, <2>1
<1>10. \A k \in 0 .. n : IsSeq(lists[k])
  <2>1. IsSeq(lists[0])
    BY <1>9, Short
  <2>2. \A k \in 1 .. n : IsSeq(lists[k])
    BY <1>6, <1>8
  <2> QED
    BY <1>1, <2>1, <2>2
<1>11. \A k \in 1 .. n : Grows(lists[k - 1], lists[k])
  BY <1>6, <1>8
<1>12. ASSUME NEW k \in 1 .. n, Plain("imessage", chat[k].say.lines)
       PROVE  lists[k] = Append(lists[k - 1], IMessageRow(chat[k]))
  <2>1. PICK x, y, m : x = run[k - 1] /\ y = run[k] /\ m = chat[k]
    OBVIOUS
  <2>2. y = readIMessage(x, IMessageLines(m)) /\ IMessageState(x) /\ IsSeq(x.out) /\ MessageOK(m) /\ Plain("imessage", m.say.lines)
    BY <1>2, <1>3, <1>8, <1>12, <2>1
  <2>3. flushIMessage(y) = Append(flushIMessage(x), IMessageRow(m))
    BY <2>2, IMessageRead
  <2>4. lists[k] = flushIMessage(y) /\ lists[k - 1] = flushIMessage(x)
    BY <1>1, <1>4, <2>1
  <2> QED
    BY <2>1, <2>3, <2>4
<1>13. D \subseteq 1 .. n /\ \A k \in D : lists[k] = Append(lists[k - 1], row[k])
  BY <1>1, <1>12 DEF IMessageKept
<1>14. Gathers(lists, n, D, row)
  BY <1>10, <1>11, <1>13 DEF Gathers
<1>15. AllPlain("imessage", chat) => \A k \in 1 .. n : k \notin D => lists[k] = lists[k - 1]
  BY <1>1, <1>12 DEF AllPlain, IMessageKept
<1>16. PICK list, whole : list = lists[n] /\ whole = AllPlain("imessage", chat)
  OBVIOUS
<1>17. Finds(list, chat, D, row, whole)
  BY <1>9, <1>14, <1>15, <1>16, GatheredFinds
<1>18. list = flushIMessage(run[n])
  BY <1>1, <1>4, <1>16
<1>19. ASSUME whole PROVE RowForEach(list, chat)
  <2>1. D = 1 .. n
    BY <1>1, <1>16, <1>19 DEF IMessageKept, AllPlain
  <2> DEFINE Off == {k \in 0 .. n : Len(lists[k]) # k}
  <2>2. Off = {}
    <3> SUFFICES ASSUME Off # {} PROVE FALSE
      OBVIOUS
    <3>0. Off \subseteq Nat
      BY <1>1
    <3>1. PICK m \in Off : \A k \in Off : m <= k
      BY <3>0, LeastOf
    <3>2. m \in 0 .. n /\ Len(lists[m]) # m
      OBVIOUS
    <3>3. m # 0
      <4>1. Len(lists[0]) = 0
        BY <1>9, Short
      <4> QED
        BY <3>2, <4>1
    <3>4. m \in 1 .. n /\ m - 1 \in 0 .. n
      BY <1>1, <3>2, <3>3
    <3>5. Len(lists[m - 1]) = m - 1
      BY <3>1, <3>4
    <3>6. PICK s, e : s = lists[m - 1] /\ lists[m] = Append(s, e)
      BY <1>13, <2>1, <3>4
    <3>7. Len(lists[m]) = Len(s) + 1
      BY <1>10, <3>4, <3>6, Appended
    <3> QED
      BY <3>2, <3>4, <3>5, <3>6, <3>7
  <2>3. \A k \in 1 .. n : Len(lists[k]) = k
    BY <1>1, <2>2
  <2>4. \A k \in D : list[Len(lists[k])] = row[k]
    BY <1>14, <1>16, Collected
  <2>5. \A k \in 1 .. n : list[k] = IMessageRow(chat[k])
    BY <2>1, <2>3, <2>4
  <2>6. Len(list) = n
    <3>1. CASE n = 0
      BY <1>9, <1>16, <3>1, Short
    <3>2. CASE n # 0
      BY <1>1, <1>16, <2>3, <3>2
    <3> QED
      BY <3>1, <3>2
  <2> QED
    BY <1>1, <2>5, <2>6 DEF RowForEach
<1> QED
  BY <1>3, <1>16, <1>17, <1>18, <1>19 DEF IMessageRows

-----------------------------------------------------------------------------
(* WhatsApp: the entries that have a time, in the order of their times.    *)

WhatsAppKept(entries) == {i \in 1 .. Len(entries) : entries[i].ts # None}

LEMMA WhatsAppParsed ==
  ASSUME NEW conv, NEW entries, ChatOK(entries), NEW D, D = WhatsAppKept(entries),
         NEW row, row = [i \in D |-> mapMessage(conv, entries[i])]
  PROVE  \E list : parseChatMessages(conv, entries) = WithSeq(list)
                   /\ Finds(list, entries, D, row, AllPlain("whatsapp", entries))
<1>1. PICK n \in Nat : n = Len(entries)
  BY DEF ChatOK, IsSeq
<1>2. DOMAIN entries = 1 .. n /\ \A i \in 1 .. n : MessageOK(entries[i])
  BY <1>1 DEF ChatOK, IsSeq
<1>3. D \subseteq 1 .. n /\ D = {i \in DOMAIN entries : entries[i].ts # None}
  BY <1>1, <1>2 DEF WhatsAppKept
<1>4. \A i \in D : entries[i].ts \in Int
  BY <1>2, <1>3 DEF MessageOK
<1>5. IsFiniteSet(D)
  <2>1. IsFiniteSet(1 .. n) /\ D \in SUBSET (1 .. n)
    BY <1>1, <1>3, FS_Interval
  <2> QED
    BY <2>1, FS_Subset
<1> DEFINE before(i) == {j \in D : entries[j].ts < entries[i].ts \/ (entries[j].ts = entries[i].ts /\ j < i)}
           nth(k) == CHOOSE i \in D : Cardinality(before(i)) = k - 1
<1>6. PICK R : R = {x \in D \X D : \/ entries[x[1]].ts < entries[x[2]].ts
                                   \/ entries[x[1]].ts = entries[x[2]].ts /\ x[1] < x[2]}
  OBVIOUS
<1>7. \A i, j \in D : <<i, j>> \in R <=> (entries[i].ts < entries[j].ts \/ (entries[i].ts = entries[j].ts /\ i < j))
  BY <1>6
<1>8. Orders(R, D)
  <2>0. D \subseteq Int
    BY <1>1, <1>3
  <2>1. \A e \in D : <<e, e>> \notin R
    BY <1>4, <1>7, <2>0
  <2>2. \A e, f \in D : e = f \/ <<e, f>> \in R \/ <<f, e>> \in R
    <3> SUFFICES ASSUME NEW e \in D, NEW f \in D PROVE e = f \/ <<e, f>> \in R \/ <<f, e>> \in R
      OBVIOUS
    <3>1. entries[e].ts \in Int /\ entries[f].ts \in Int /\ e \in Int /\ f \in Int
      BY <1>4, <2>0
    <3> QED
      BY <1>7, <3>1
  <2>3. \A e, f, g \in D : <<e, f>> \in R /\ <<f, g>> \in R => <<e, g>> \in R
    <3> SUFFICES ASSUME NEW e \in D, NEW f \in D, NEW g \in D, <<e, f>> \in R, <<f, g>> \in R PROVE <<e, g>> \in R
      OBVIOUS
    <3>1. entries[e].ts \in Int /\ entries[f].ts \in Int /\ entries[g].ts \in Int /\ e \in Int /\ f \in Int /\ g \in Int
      BY <1>4, <2>0
    <3> QED
      BY <1>7, <3>1
  <2> QED
    BY <2>1, <2>2, <2>3 DEF Orders
<1>9. PICK s : s = [k \in 1 .. Cardinality(D) |-> nth(k)]
  OBVIOUS
<1>10. ByRank(s, D, R)
  <2> DEFINE by(k) == CHOOSE i \in D : Cardinality({x \in D : <<x, i>> \in R}) = k - 1
  <2>1. \A i \in D : {x \in D : <<x, i>> \in R} = before(i)
    BY <1>7
  <2>2. ASSUME NEW k PROVE nth(k) = by(k)
    BY <2>1
  <2> HIDE DEF nth, by
  <2>3. s = [k \in 1 .. Cardinality(D) |-> by(k)]
    BY <1>9, <2>2
  <2> QED
    BY <2>3 DEF ByRank, by
<1>11. /\ Cardinality(D) \in Nat
       /\ s \in [1 .. Cardinality(D) -> D]
       /\ \A e \in D : \E i \in 1 .. Cardinality(D) : s[i] = e
       /\ \A i, j \in 1 .. Cardinality(D) : i < j <=> <<s[i], s[j]>> \in R
  BY <1>5, <1>8, <1>10, RanksAre
<1>12. PICK c \in Nat : c = Cardinality(D)
  BY <1>11
<1>13. PICK list : list = [k \in 1 .. c |-> mapMessage(conv, entries[s[k]])]
  OBVIOUS
<1>14. parseChatMessages(conv, entries) = WithSeq(list)
  <2>1. parseChatMessages(conv, entries) = WithSeq([k \in 1 .. Cardinality(D) |-> mapMessage(conv, entries[nth(k)])])
    BY <1>3 DEF parseChatMessages
  <2> HIDE DEF nth
  <2>2. list = [k \in 1 .. Cardinality(D) |-> mapMessage(conv, entries[nth(k)])]
    BY <1>9, <1>12, <1>13
  <2> QED
    BY <2>1, <2>2
<1> HIDE DEF before, nth
<1>15. IsSeq(list) /\ Len(list) = c
  <2>1. OfLength(list, c)
    BY <1>13 DEF OfLength
  <2> QED
    BY <2>1, SeqListed
<1>16. PICK at : at = [i \in D |-> CHOOSE k \in 1 .. c : s[k] = i]
  OBVIOUS
<1>17. ASSUME NEW i \in D PROVE at[i] \in 1 .. c /\ s[at[i]] = i
  BY <1>11, <1>12, <1>16
<1>18. at \in [D -> 1 .. Len(list)]
  BY <1>15, <1>16, <1>17
<1>19. \A i \in D : list[at[i]] = row[i]
  BY <1>13, <1>17
<1>20. ASSUME NEW i \in D, NEW j \in D, i < j, entries[i].ts = entries[j].ts PROVE at[i] < at[j]
  <2>1. <<s[at[i]], s[at[j]]>> \in R
    BY <1>7, <1>17, <1>20
  <2> QED
    BY <1>11, <1>12, <1>17, <2>1
<1>21. ASSUME NEW p \in 1 .. Len(list) PROVE \E i \in D : at[i] = p
  <2>1. PICK i \in D : i = s[p]
    BY <1>11, <1>12, <1>15
  <2>2. at[i] \in 1 .. c /\ s[at[i]] = s[p]
    BY <1>17, <2>1
  <2>3. ~(at[i] < p) /\ ~(p < at[i])
    <3>1. <<i, i>> \notin R
      BY <1>8 DEF Orders
    <3> QED
      BY <1>11, <1>12, <1>15, <2>1, <2>2, <3>1
  <2> QED
    BY <1>15, <2>2, <2>3
<1>22. Finds(list, entries, D, row, AllPlain("whatsapp", entries))
  BY <1>15, <1>18, <1>19, <1>20, <1>21 DEF Finds
<1> QED
  BY <1>14, <1>22

-----------------------------------------------------------------------------
(* What the parsers promise together.                                      *)

Sources == {"signal", "imessage", "whatsapp"}

RowOf(conv, m) ==
  IF conv[1] = "signal" THEN SignalRow(m) ELSE IF conv[1] = "imessage" THEN IMessageRow(m) ELSE mapMessage(conv, m)

Kept(source, chat) ==
  IF source = "signal" THEN SignalKept(chat) ELSE IF source = "imessage" THEN IMessageKept(chat) ELSE WhatsAppKept(chat)

\* Rows of a list, in its order, each with the number that it has in the list: all
\* that are not empty.
DrawnAt(p, list, f) ==
  /\ DOMAIN p \subseteq Nat /\ f \in [DOMAIN p -> 1 .. Len(list)]
  /\ \A k \in DOMAIN p : p[k] = AsRow(list[f[k]], SeqAt(list, f[k]))
  /\ \A k, l \in DOMAIN p : k < l => f[k] < f[l]
  /\ \A i \in 1 .. Len(list) : ~IsEmpty(list[i]) => \E k \in DOMAIN p : f[k] = i

Drawn(p, list) == \E f : DrawnAt(p, list, f)

LEMMA AllDrawn ==
  ASSUME NEW list, IsSeq(list), NEW p, p = WithSeq(list)
  PROVE  DrawnAt(p, list, [k \in DOMAIN p |-> k]) /\ Drawn(p, list)
<1>1. DOMAIN p = 1 .. Len(list) /\ \A i \in 1 .. Len(list) : p[i] = AsRow(list[i], SeqAt(list, i))
  BY WithSeqIs
<1>2. PICK f : f = [k \in DOMAIN p |-> k]
  OBVIOUS
<1>3. Len(list) \in Nat
  BY DEF IsSeq
<1>4. DrawnAt(p, list, f)
  BY <1>1, <1>2, <1>3 DEF DrawnAt
<1> QED
  BY <1>2, <1>4 DEF Drawn

LEMMA SomeDrawn ==
  ASSUME NEW list, IsSeq(list), NEW p, p = WithoutEmpty(WithSeq(list))
  PROVE  Drawn(p, list) /\ \A k \in DOMAIN p : ~IsEmpty(p[k])
<1>0. PICK n \in Nat : n = Len(list)
  BY DEF IsSeq
<1>1. PICK q : q = WithSeq(list) /\ n = Len(list)
  BY <1>0
<1>2. DOMAIN q = 1 .. n /\ \A i \in 1 .. n : q[i] = AsRow(list[i], SeqAt(list, i))
  BY <1>1, WithSeqIs
<1>3. PICK E : E = {i \in DOMAIN q : ~IsEmpty(q[i])}
  OBVIOUS
<1>4. IsFiniteSet(E) /\ E \subseteq 1 .. n /\ E \subseteq Nat
  <2>1. IsFiniteSet(1 .. n) /\ E \in SUBSET (1 .. n)
    BY <1>1, <1>2, <1>3, FS_Interval
  <2>2. IsFiniteSet(E)
    BY <2>1, FS_Subset
  <2> QED
    BY <1>1, <2>1, <2>2
<1>5. PICK R : R = {x \in E \X E : x[1] < x[2]}
  OBVIOUS
<1>6. \A i, j \in E : <<i, j>> \in R <=> i < j
  BY <1>5
<1>7. Orders(R, E)
  BY <1>4, <1>6 DEF Orders
<1> DEFINE nth(k) == CHOOSE i \in E : Cardinality({j \in E : j < i}) = k - 1
<1>8. PICK s : s = [k \in 1 .. Cardinality(E) |-> nth(k)]
  OBVIOUS
<1>9. ByRank(s, E, R)
  <2> DEFINE by(k) == CHOOSE i \in E : Cardinality({x \in E : <<x, i>> \in R}) = k - 1
  <2>1. \A i \in E : {x \in E : <<x, i>> \in R} = {j \in E : j < i}
    BY <1>6
  <2>2. ASSUME NEW k PROVE nth(k) = by(k)
    BY <2>1
  <2> HIDE DEF nth, by
  <2>3. s = [k \in 1 .. Cardinality(E) |-> by(k)]
    BY <1>8, <2>2
  <2> QED
    BY <2>3 DEF ByRank, by
<1>10. /\ Cardinality(E) \in Nat
       /\ s \in [1 .. Cardinality(E) -> E]
       /\ \A e \in E : \E i \in 1 .. Cardinality(E) : s[i] = e
       /\ \A i, j \in 1 .. Cardinality(E) : i < j <=> <<s[i], s[j]>> \in R
  BY <1>4, <1>7, <1>9, RanksAre
<1>11. p = [k \in 1 .. Cardinality(E) |-> q[s[k]]]
  <2>1. p = [k \in 1 .. Cardinality(E) |-> q[nth(k)]]
    BY <1>1, <1>3 DEF WithoutEmpty
  <2> HIDE DEF nth
  <2> QED
    BY <1>8, <2>1
<1> HIDE DEF nth
<1>12. PICK c \in Nat : c = Cardinality(E)
  BY <1>10
<1>13. DOMAIN p = 1 .. c /\ \A k \in 1 .. c : p[k] = q[s[k]] /\ s[k] \in E
  BY <1>10, <1>11, <1>12
<1>14. \A i \in 1 .. n : ~IsEmpty(list[i]) => i \in E
  <2> SUFFICES ASSUME NEW i \in 1 .. n, ~IsEmpty(list[i]) PROVE i \in E
    OBVIOUS
  <2>1. PICK m : q[i] = AsRow(list[i], m)
    BY <1>2
  <2>2. ~IsEmpty(AsRow(list[i], m))
    BY DEF IsEmpty, AsRow
  <2> QED
    BY <1>2, <1>3, <2>1, <2>2
<1>15. DrawnAt(p, list, s)
  <2>1. DOMAIN p \subseteq Nat /\ s \in [DOMAIN p -> 1 .. Len(list)]
    <3>1. s \in [1 .. c -> E]
      BY <1>10, <1>12
    <3>2. s \in [1 .. c -> 1 .. n]
      BY <1>4, <3>1
    <3> QED
      BY <1>1, <1>12, <1>13, <3>2
  <2>2. \A k \in DOMAIN p : p[k] = AsRow(list[s[k]], SeqAt(list, s[k]))
    BY <1>2, <1>4, <1>13
  <2>3. \A k, l \in DOMAIN p : k < l => s[k] < s[l]
    BY <1>6, <1>10, <1>12, <1>13
  <2>4. \A i \in 1 .. Len(list) : ~IsEmpty(list[i]) => \E k \in DOMAIN p : s[k] = i
    BY <1>1, <1>10, <1>12, <1>13, <1>14
  <2> QED
    BY <2>1, <2>2, <2>3, <2>4 DEF DrawnAt
<1>16. \A k \in DOMAIN p : ~IsEmpty(p[k])
  BY <1>3, <1>13
<1> QED
  BY <1>15, <1>16 DEF Drawn

\* The rows of a transcript, and the list that they are drawn from.
ReadFrom(p, list, source, chat) ==
  /\ Drawn(p, list)
  /\ source # "imessage" => p = WithSeq(list)
  /\ source = "imessage" => /\ \A k \in DOMAIN p : ~IsEmpty(p[k])
                            /\ AllPlain(source, chat) => RowForEach(list, chat)

LEMMA ParseIs ==
  ASSUME NEW conv, NEW source \in Sources, conv[1] = source, NEW chat, ChatOK(chat),
         NEW D, D = Kept(source, chat), NEW row, row = [i \in D |-> RowOf(conv, chat[i])]
  PROVE  \E list : ReadFrom(Parse(conv, chat), list, source, chat)
                   /\ Finds(list, chat, D, row, AllPlain(source, chat))
<1>1. PICK p : p = Parse(conv, chat)
  OBVIOUS
<1>2. CASE source = "signal"
  <2>1. D = SignalKept(chat) /\ row = [i \in D |-> SignalRow(chat[i])] /\ p = ParseSignal(chat)
    BY <1>1, <1>2 DEF Kept, RowOf, Parse
  <2>2. PICK list : p = WithSeq(list) /\ Finds(list, chat, D, row, AllPlain("signal", chat))
    BY <2>1, SignalParsed
  <2>3. Drawn(p, list)
    BY <2>2, AllDrawn DEF Finds
  <2> QED
    BY <1>1, <1>2, <2>2, <2>3 DEF ReadFrom
<1>3. CASE source = "imessage"
  <2>1. D = IMessageKept(chat) /\ row = [i \in D |-> IMessageRow(chat[i])] /\ p = ParseIMessage(chat)
    BY <1>1, <1>3 DEF Kept, RowOf, Parse
  <2>2. PICK list : IMessageRows(p, list, chat, D, row)
    BY <2>1, IMessageParsed
  <2>3. IsSeq(list) /\ p = WithoutEmpty(WithSeq(list))
    BY <2>2 DEF IMessageRows, Finds
  <2>4. Drawn(p, list)
    BY <2>3, SomeDrawn
  <2>5. \A k \in DOMAIN p : ~IsEmpty(p[k])
    BY <2>3, SomeDrawn
  <2>6. ReadFrom(p, list, source, chat)
    BY <1>3, <2>2, <2>4, <2>5 DEF ReadFrom, IMessageRows
  <2>7. Finds(list, chat, D, row, AllPlain(source, chat))
    BY <1>3, <2>2 DEF IMessageRows
  <2> QED
    BY <1>1, <2>6, <2>7
<1>4. CASE source = "whatsapp"
  <2>1. D = WhatsAppKept(chat) /\ row = [i \in D |-> mapMessage(conv, chat[i])]
        /\ p = parseChatMessages(conv, chat)
    BY <1>1, <1>4 DEF Kept, RowOf, Parse
  <2>2. PICK list : p = WithSeq(list) /\ Finds(list, chat, D, row, AllPlain("whatsapp", chat))
    BY <2>1, WhatsAppParsed
  <2>3. Drawn(p, list)
    BY <2>2, AllDrawn DEF Finds
  <2> QED
    BY <1>1, <1>4, <2>2, <2>3 DEF ReadFrom
<1> QED
  BY <1>2, <1>3, <1>4 DEF Sources

\* A row says what was sent.
LEMMA RowSays ==
  ASSUME NEW conv, NEW m, MessageOK(m)
  PROVE  Says(RowOf(conv, m), m)
<1>1. PICK row, say, lines : row = RowOf(conv, m) /\ say = m.say /\ lines = say.lines
  OBVIOUS
<1>2. SayingOK(say)
  BY <1>1 DEF MessageOK
<1>3. /\ row.ts = m.ts /\ row.files = say.files /\ row.reactions = m.reacted
      /\ say.from \notin {None, System} => row.sender = say.from
  BY <1>1 DEF RowOf, SignalRow, IMessageRow, mapMessage
<1>4. WritesAlike(row.body, lines)
  <2>1. CASE conv[1] = "signal"
    <3>1. row.body = Body(m)
      BY <1>1, <2>1 DEF RowOf, SignalRow
    <3>2. WritesAlike(Reacted(say), lines)
      BY <1>1, <1>2, ReactedBody
    <3>3. WritesAlike(Unreacted(say), lines)
      BY <1>1, <1>2, UnreactedBody
    <3> QED
      BY <1>1, <3>1, <3>2, <3>3 DEF Body
  <2>2. CASE conv[1] = "imessage"
    BY <1>1, <2>2 DEF RowOf, IMessageRow, WritesAlike
  <2>3. CASE conv[1] \notin {"signal", "imessage"}
    <3>1. row.body = TrimEnd(lines)
      BY <1>1, <2>3 DEF RowOf, mapMessage
    <3>2. LinesOK(lines)
      <4>1. PICK s : s = TextOf(say)
        OBVIOUS
      <4>2. CASE lines = <<>>
        <5>1. IsSeq(lines) /\ Len(lines) = 0
          BY <4>2, Short
        <5> QED
          BY <5>1 DEF LinesOK
      <4>3. CASE lines # <<>>
        <5>1. s = lines
          BY <1>1, <4>1, <4>3 DEF TextOf
        <5>2. LinesOK(s)
          BY <1>2, <4>1, TextIs
        <5> QED
          BY <5>1, <5>2
      <4> QED
        BY <4>2, <4>3
    <3> QED
      BY <3>1, <3>2, WritesTrimmed
  <2> QED
    BY <2>1, <2>2, <2>3
<1>5. \A i \in DOMAIN row.body \union DOMAIN lines : WrittenAt(row.body, i) = WrittenAt(lines, i)
  BY <1>4 DEF WritesAlike
<1> QED
  BY <1>1, <1>3, <1>5 DEF Says

\* What an import must find of a chat.
Expected(source, chat) ==
  {i \in DOMAIN chat :
     LET say == chat[i].say
     IN /\ chat[i].ts # None
        /\ say.from = None => source # "signal" /\ say.lines # <<>>
        /\ Plain(source, say.lines)}

\* What was parsed holds it.
FoundIn(p, chat, E) ==
  \E at \in [E -> DOMAIN p] :
    /\ \A i \in E : Says(p[at[i]], chat[i])
    /\ \A i, j \in E : i < j /\ chat[i].ts = chat[j].ts => at[i] < at[j]

LEMMA ParseFinds ==
  ASSUME NEW conv, NEW source \in Sources, conv[1] = source, NEW chat, ChatOK(chat), NEW p, p = Parse(conv, chat),
         NEW E, E = Expected(source, chat)
  PROVE  FoundIn(p, chat, E)
<1>1. PICK D, row : D = Kept(source, chat) /\ row = [i \in D |-> RowOf(conv, chat[i])]
  OBVIOUS
<1>2. PICK list : ReadFrom(p, list, source, chat) /\ Finds(list, chat, D, row, AllPlain(source, chat))
  BY <1>1, ParseIs
<1>3. DOMAIN chat = 1 .. Len(chat) /\ \A i \in 1 .. Len(chat) : MessageOK(chat[i])
  BY DEF ChatOK, IsSeq
<1>4. E \subseteq D /\ \A i \in E : chat[i].say.from = None => chat[i].say.lines # <<>> /\ source # "signal"
  <2>1. ASSUME NEW i \in E
        PROVE  i \in D /\ (chat[i].say.from = None => chat[i].say.lines # <<>> /\ source # "signal")
    <3>1. /\ i \in 1 .. Len(chat) /\ chat[i].ts # None /\ Plain(source, chat[i].say.lines)
          /\ chat[i].say.from = None => source # "signal" /\ chat[i].say.lines # <<>>
      BY <1>3 DEF Expected
    <3>2. CASE source = "signal"
      BY <1>1, <3>1, <3>2 DEF Kept, SignalKept, SignalDue
    <3>3. CASE source = "imessage"
      BY <1>1, <3>1, <3>3 DEF Kept, IMessageKept
    <3>4. CASE source = "whatsapp"
      BY <1>1, <3>1, <3>4 DEF Kept, WhatsAppKept
    <3> QED
      BY <3>1, <3>2, <3>3, <3>4 DEF Sources
  <2> QED
    BY <2>1
<1>5. PICK at \in [D -> 1 .. Len(list)] :
        /\ \A i \in D : list[at[i]] = row[i]
        /\ \A i, j \in D : i < j /\ chat[i].ts = chat[j].ts => at[i] < at[j]
  BY <1>2 DEF Finds
\* No row that is expected is left out.
<1>6. PICK f : DrawnAt(p, list, f) /\ \A i \in E : \E k \in DOMAIN p : f[k] = at[i]
  <2>1. CASE source = "imessage"
    <3>1. PICK f : DrawnAt(p, list, f)
      BY <1>2 DEF ReadFrom, Drawn
    <3>2. ASSUME NEW i \in E PROVE \E k \in DOMAIN p : f[k] = at[i]
      <4>1. PICK place : place = at[i] /\ place \in 1 .. Len(list) /\ list[place] = RowOf(conv, chat[i])
        BY <1>1, <1>4, <1>5
      <4>2. list[place] = IMessageRow(chat[i])
        BY <2>1, <4>1 DEF RowOf
      <4>3. ~IsEmpty(IMessageRow(chat[i]))
        BY <1>4 DEF IsEmpty, IMessageRow
      <4> QED
        BY <3>1, <4>1, <4>2, <4>3 DEF DrawnAt
    <3> QED
      BY <3>1, <3>2
  <2>2. CASE source # "imessage"
    <3>1. p = WithSeq(list) /\ IsSeq(list)
      BY <1>2, <2>2 DEF ReadFrom, Finds
    <3>2. DOMAIN p = 1 .. Len(list)
      BY <3>1, WithSeqIs
    <3>3. PICK f : f = [k \in DOMAIN p |-> k]
      OBVIOUS
    <3>4. DrawnAt(p, list, f)
      BY <3>1, <3>3, AllDrawn
    <3>5. \A i \in E : at[i] \in DOMAIN p /\ f[at[i]] = at[i]
      BY <1>4, <1>5, <3>2, <3>3
    <3> QED
      BY <3>4, <3>5
  <2> QED
    BY <2>1, <2>2
<1>7. \A i \in E : \E k \in DOMAIN p : f[k] = at[i]
  BY <1>6
<1>8. PICK to : to = [i \in E |-> CHOOSE k \in DOMAIN p : f[k] = at[i]]
  OBVIOUS
<1>9. to \in [E -> DOMAIN p] /\ \A i \in E : f[to[i]] = at[i]
  BY <1>7, <1>8
<1>10. ASSUME NEW i \in E PROVE Says(p[to[i]], chat[i])
  <2>1. i \in D /\ i \in 1 .. Len(chat) /\ MessageOK(chat[i])
    BY <1>3, <1>4 DEF Expected
  <2>2. PICK r, m : r = RowOf(conv, chat[i]) /\ m = chat[i]
    OBVIOUS
  <2>3. Says(r, m)
    BY <2>1, <2>2, RowSays
  <2>4. PICK n : p[to[i]] = AsRow(r, n)
    BY <1>1, <1>5, <1>6, <1>9, <2>1, <2>2 DEF DrawnAt
  <2>5. Says(AsRow(r, n), m)
    BY <2>3 DEF Says, AsRow
  <2> QED
    BY <2>2, <2>4, <2>5
<1>11. ASSUME NEW i \in E, NEW j \in E, i < j, chat[i].ts = chat[j].ts PROVE to[i] < to[j]
  <2>1. at[i] < at[j] /\ at[i] \in Int /\ at[j] \in Int
    BY <1>4, <1>5, <1>11
  <2>2. to[i] \in Nat /\ to[j] \in Nat /\ to[i] \in DOMAIN p /\ to[j] \in DOMAIN p
    BY <1>6, <1>9 DEF DrawnAt
  <2>3. f[to[i]] < f[to[j]] /\ f[to[i]] \in Int /\ f[to[j]] \in Int
    BY <1>9, <2>1
  <2>4. to[i] # to[j]
    BY <2>3
  <2>5. ~(to[j] < to[i])
    <3>1. to[j] < to[i] => f[to[j]] < f[to[i]]
      BY <1>6, <2>2 DEF DrawnAt
    <3> QED
      BY <2>3, <3>1
  <2> QED
    BY <2>2, <2>4, <2>5
<1> QED
  BY <1>9, <1>10, <1>11 DEF FoundIn

-----------------------------------------------------------------------------
(* What an import does to the rows of the import before it.                *)

\* What a chat was before.
CameBefore(s, t) ==
  /\ IsSeq(s) /\ Len(s) <= Len(t)
  /\ \A i \in 1 .. Len(s) : s[i].ts = t[i].ts /\ s[i].say = t[i].say /\ s[i].reacted \subseteq t[i].reacted

\* A message that looks like one that a reaction would not change is not changed by one.
LEMMA LooksStay ==
  ASSUME NEW conv, NEW m, MessageOK(m), NEW e, e = RowOf(conv, m), ~Rehashed(conv, e),
         NEW a, MessageOK(a), NEW b, MessageOK(b), a.ts = b.ts, a.say = b.say, a.reacted \subseteq b.reacted,
         Alike(RowOf(conv, a), e)
  PROVE  Alike(RowOf(conv, b), e)
<1>1. CASE conv[1] # "signal"
  <2>1. RowOf(conv, a).ts = RowOf(conv, b).ts /\ RowOf(conv, a).sender = RowOf(conv, b).sender
        /\ RowOf(conv, a).body = RowOf(conv, b).body
    BY <1>1 DEF RowOf, IMessageRow, mapMessage
  <2> QED
    BY <2>1 DEF Alike
<1>2. CASE conv[1] = "signal"
  <2>1. /\ e = SignalRow(m) /\ RowOf(conv, a) = SignalRow(a) /\ RowOf(conv, b) = SignalRow(b)
    BY <1>2 DEF RowOf
  <2>2. PICK say, other : say = a.say /\ other = m.say
    OBVIOUS
  <2>3. SayingOK(say) /\ SayingOK(other)
    BY <2>2 DEF MessageOK
  <2>4. e.body = Body(m) /\ e.files = other.files /\ e.reactions = m.reacted /\ Body(a) = e.body
    BY <2>1, <2>2 DEF SignalRow, Alike
  <2>5. Body(b) = Body(a)
    <3>1. CASE a.reacted # {}
      BY <3>1 DEF Body
    <3>2. CASE a.reacted = {} /\ b.reacted = {}
      BY <3>2 DEF Body
    <3>3. CASE a.reacted = {} /\ b.reacted # {}
      <4>1. PICK u : u = Unreacted(say)
        OBVIOUS
      <4>2. Body(a) = u /\ Body(b) = Reacted(say)
        BY <2>2, <3>3, <4>1 DEF Body
      <4>3. CASE m.reacted # {}
        <5>1. Unreacted(say) = Reacted(other)
          BY <2>2, <2>4, <4>1, <4>2, <4>3 DEF Body
        <5> QED
          BY <2>3, <4>1, <4>2, <5>1, UnreactedLooks
      <4>4. CASE m.reacted = {}
        <5>1. u = Unreacted(other)
          BY <2>2, <2>4, <4>2, <4>4 DEF Body
        <5>2. e.files = say.files
          <6>1. extract(u) = say.files
            BY <2>3, <4>1, UnreactedBody
          <6>2. extract(u) = other.files
            BY <2>3, <5>1, UnreactedBody
          <6> QED
            BY <2>4, <6>1, <6>2
        <5>3. u # <<>> => ~(say.files > 0 /\ u # <<Files(say.files)>>) /\ ~(Last(u).k = "text" /\ Last(u).pad)
          BY <1>2, <2>4, <4>2, <4>4, <5>2 DEF Rehashed
        <5>4. u = Reacted(say)
          BY <2>3, <4>1, <5>3, KeptLooks
        <5> QED
          BY <4>2, <5>4
      <4> QED
        BY <4>3, <4>4
    <3> QED
      BY <3>1, <3>2, <3>3
  <2> QED
    BY <2>1, <2>5 DEF SignalRow, Alike
<1> QED
  BY <1>1, <1>2

LEMMA KeptStay ==
  ASSUME NEW source \in Sources, NEW s, NEW t, CameBefore(s, t), Len(t) \in Nat
  PROVE  /\ Kept(source, s) \subseteq Kept(source, t) /\ Kept(source, s) \subseteq 1 .. Len(s)
         /\ AllPlain(source, t) => AllPlain(source, s)
<1>1. Len(s) \in Nat /\ Len(s) <= Len(t) /\ 1 .. Len(s) \subseteq 1 .. Len(t)
  BY DEF CameBefore, IsSeq
<1>2. \A i \in 1 .. Len(s) : s[i].ts = t[i].ts /\ s[i].say = t[i].say /\ s[i].reacted \subseteq t[i].reacted
  BY DEF CameBefore
<1>3. AllPlain(source, t) => AllPlain(source, s)
  BY <1>1, <1>2 DEF AllPlain
<1>4. CASE source = "signal"
  BY <1>1, <1>2, <1>3, <1>4 DEF Kept, SignalKept, SignalDue
<1>5. CASE source = "imessage"
  BY <1>1, <1>2, <1>3, <1>5 DEF Kept, IMessageKept
<1>6. CASE source = "whatsapp"
  BY <1>1, <1>2, <1>3, <1>6 DEF Kept, WhatsAppKept
<1> QED
  BY <1>4, <1>5, <1>6 DEF Sources

\* Every message keeps its hash: in iMessage's transcripts by its place, among all that
\* are read.
LEMMA IMessageHashesStay ==
  ASSUME NEW conv, conv[1] = "imessage", NEW s, ChatOK(s), NEW t, ChatOK(t), CameBefore(s, t),
         AllPlain("imessage", t), NEW p, p = Parse(conv, s), NEW q, q = Parse(conv, t),
         NEW i \in DOMAIN p
  PROVE  \E j \in DOMAIN q : HashWithSource(conv, q[j]) = HashWithSource(conv, p[i])
<1>1. PICK source \in Sources : source = "imessage"
  BY DEF Sources
<1>2. Len(t) \in Nat /\ Len(s) \in Nat /\ Len(s) <= Len(t)
  BY DEF ChatOK, IsSeq, CameBefore
<1>3. AllPlain(source, s) /\ AllPlain(source, t)
  BY <1>1, <1>2, KeptStay
<1>4. PICK a : ReadFrom(p, a, source, s)
  <2>1. PICK D, row : D = Kept(source, s) /\ row = [k \in D |-> RowOf(conv, s[k])]
    OBVIOUS
  <2> QED
    BY <1>1, <2>1, ParseIs
<1>5. PICK b : ReadFrom(q, b, source, t)
  <2>1. PICK D, row : D = Kept(source, t) /\ row = [k \in D |-> RowOf(conv, t[k])]
    OBVIOUS
  <2> QED
    BY <1>1, <2>1, ParseIs
<1>6. RowForEach(a, s) /\ RowForEach(b, t) /\ ~IsEmpty(p[i])
  BY <1>1, <1>3, <1>4, <1>5 DEF ReadFrom
<1>7. PICK f : DrawnAt(p, a, f)
  BY <1>4 DEF ReadFrom, Drawn
<1>8. PICK g : DrawnAt(q, b, g)
  BY <1>5 DEF ReadFrom, Drawn
<1>9. PICK n : n = f[i] /\ n \in 1 .. Len(s) /\ p[i] = AsRow(a[n], SeqAt(a, n))
  BY <1>6, <1>7 DEF DrawnAt, RowForEach
<1>10. n \in 1 .. Len(t)
  BY <1>2, <1>9
<1>11. \A k \in 1 .. n : a[k] = IMessageRow(s[k]) /\ b[k] = IMessageRow(t[k])
  BY <1>2, <1>6, <1>9 DEF RowForEach
<1>12. \A k \in 1 .. n : /\ a[k].ts = b[k].ts /\ a[k].sender = b[k].sender /\ a[k].body = b[k].body
                         /\ a[k].files = b[k].files /\ a[k].reactions \subseteq b[k].reactions
  <2> SUFFICES ASSUME NEW k \in 1 .. n
               PROVE  /\ a[k].ts = b[k].ts /\ a[k].sender = b[k].sender /\ a[k].body = b[k].body
                      /\ a[k].files = b[k].files /\ a[k].reactions \subseteq b[k].reactions
    OBVIOUS
  <2>1. k \in 1 .. Len(s)
    BY <1>2, <1>9
  <2>2. PICK m, l : m = s[k] /\ l = t[k]
    OBVIOUS
  <2>3. m.ts = l.ts /\ m.say = l.say /\ m.reacted \subseteq l.reacted
    BY <2>1, <2>2 DEF CameBefore
  <2>4. PICK c, d : c = a[k] /\ d = b[k]
    OBVIOUS
  <2>5. c = IMessageRow(m) /\ d = IMessageRow(l)
    BY <1>11, <2>2, <2>4
  <2>6. c.ts = d.ts /\ c.sender = d.sender /\ c.body = d.body /\ c.files = d.files /\ c.reactions \subseteq d.reactions
    BY <2>3, <2>5 DEF IMessageRow
  <2> QED
    BY <2>4, <2>6
<1>13. n \in 1 .. n
  BY <1>2, <1>9
<1>14. SeqAt(a, n) = SeqAt(b, n)
  <2>1. \A k \in 1 .. n - 1 : k \in 1 .. n
    BY <1>2, <1>9
  <2>2. \A k \in 1 .. n - 1 : Alike(a[k], a[n]) <=> Alike(b[k], b[n])
    BY <1>12, <1>13, <2>1 DEF Alike
  <2>3. {k \in 1 .. n - 1 : Alike(a[k], a[n])} = {k \in 1 .. n - 1 : Alike(b[k], b[n])}
    BY <2>2
  <2> QED
    BY <2>3 DEF SeqAt
<1>15. ~IsEmpty(b[n])
  <2>1. ~IsEmpty(a[n])
    <3>1. PICK row : row = AsRow(a[n], SeqAt(a, n))
      OBVIOUS
    <3>2. ~IsEmpty(row)
      BY <1>6, <1>9, <3>1
    <3> QED
      BY <3>1, <3>2 DEF IsEmpty, AsRow
  <2> QED
    BY <1>12, <1>13, <2>1 DEF IsEmpty
<1>16. PICK j \in DOMAIN q : g[j] = n
  BY <1>6, <1>8, <1>10, <1>15 DEF DrawnAt, RowForEach
<1>17. q[j] = AsRow(b[n], SeqAt(b, n))
  BY <1>8, <1>16 DEF DrawnAt
<1>18. q[j].ts = p[i].ts /\ q[j].sender = p[i].sender /\ q[j].body = p[i].body /\ q[j].seq = p[i].seq
  BY <1>9, <1>12, <1>13, <1>14, <1>17 DEF AsRow
<1> QED
  BY <1>16, <1>18 DEF HashWithSource

\* In the others by the order of those that look alike.
LEMMA ListedHashesStay ==
  ASSUME NEW conv, NEW source \in Sources \ {"imessage"}, conv[1] = source, NEW s, ChatOK(s), NEW t, ChatOK(t), CameBefore(s, t),
         AllPlain(source, t), NEW p, p = Parse(conv, s), NEW q, q = Parse(conv, t),
         NEW i \in DOMAIN p, ~Rehashed(conv, p[i])
  PROVE  \E j \in DOMAIN q : HashWithSource(conv, q[j]) = HashWithSource(conv, p[i])
<1>1. PICK C, D, have, will :
        C = Kept(source, s) /\ D = Kept(source, t)
        /\ have = [k \in C |-> RowOf(conv, s[k])] /\ will = [k \in D |-> RowOf(conv, t[k])]
  OBVIOUS
<1>2. Len(t) \in Nat /\ Len(s) \in Nat /\ Len(s) <= Len(t)
  BY DEF ChatOK, IsSeq, CameBefore
<1>3. C \subseteq D /\ C \subseteq 1 .. Len(s) /\ AllPlain(source, s) /\ 1 .. Len(s) \subseteq 1 .. Len(t)
  BY <1>1, <1>2, KeptStay
<1>4. PICK a : p = WithSeq(a) /\ Finds(a, s, C, have, AllPlain(source, s))
  <2>1. PICK a : ReadFrom(p, a, source, s) /\ Finds(a, s, C, have, AllPlain(source, s))
    BY <1>1, ParseIs
  <2> QED
    BY <2>1 DEF ReadFrom
<1>5. PICK b : q = WithSeq(b) /\ Finds(b, t, D, will, AllPlain(source, t))
  <2>1. PICK b : ReadFrom(q, b, source, t) /\ Finds(b, t, D, will, AllPlain(source, t))
    BY <1>1, ParseIs
  <2> QED
    BY <2>1 DEF ReadFrom
<1>6. IsSeq(a) /\ IsSeq(b)
  BY <1>4, <1>5 DEF Finds
<1>7. PICK f \in [C -> 1 .. Len(a)] :
        /\ \A k \in C : a[f[k]] = have[k]
        /\ \A x \in 1 .. Len(a) : \E k \in C : f[k] = x
  BY <1>3, <1>4 DEF Finds
<1>8. PICK g \in [D -> 1 .. Len(b)] :
        /\ \A k \in D : b[g[k]] = will[k]
        /\ \A k, l \in D : k < l /\ t[k].ts = t[l].ts => g[k] < g[l]
  BY <1>5 DEF Finds
<1>9. DOMAIN p = 1 .. Len(a) /\ \A x \in 1 .. Len(a) : p[x] = AsRow(a[x], SeqAt(a, x))
  BY <1>4, <1>6, WithSeqIs
<1>10. DOMAIN q = 1 .. Len(b) /\ \A x \in 1 .. Len(b) : q[x] = AsRow(b[x], SeqAt(b, x))
  BY <1>5, <1>6, WithSeqIs
<1>11. \A k \in C : MessageOK(s[k]) /\ MessageOK(t[k]) /\ s[k].ts = t[k].ts /\ s[k].say = t[k].say
                    /\ s[k].reacted \subseteq t[k].reacted
  BY <1>3 DEF ChatOK, CameBefore
<1>12. PICK e : e = a[i]
  OBVIOUS
<1>13. PICK n \in C : f[n] = i
  BY <1>7, <1>9
<1>14. e = RowOf(conv, s[n]) /\ ~Rehashed(conv, e)
  <2>1. e = RowOf(conv, s[n])
    BY <1>1, <1>7, <1>12, <1>13
  <2>2. PICK d : d = p[i] /\ \E z : d = AsRow(e, z)
    BY <1>9, <1>12
  <2>3. d.reactions = e.reactions /\ d.body = e.body /\ d.files = e.files
    BY <2>2 DEF AsRow
  <2> QED
    BY <2>1, <2>2, <2>3 DEF Rehashed
<1>15. ASSUME NEW k \in C, Alike(have[k], e) PROVE Alike(will[k], e)
  <2>1. PICK m, x, y : m = s[n] /\ x = s[k] /\ y = t[k]
    OBVIOUS
  <2>2. MessageOK(m) /\ MessageOK(x) /\ MessageOK(y) /\ x.ts = y.ts /\ x.say = y.say /\ x.reacted \subseteq y.reacted
    BY <1>11, <2>1
  <2>3. e = RowOf(conv, m) /\ ~Rehashed(conv, e) /\ Alike(RowOf(conv, x), e)
    BY <1>1, <1>14, <1>15, <2>1
  <2>4. Alike(RowOf(conv, y), e)
    BY <2>2, <2>3, LooksStay
  <2> QED
    BY <1>1, <1>3, <2>1, <2>4
<1>16. PICK E, F : E = Copies(a, e) /\ F = Copies(b, e)
  OBVIOUS
<1>17. PICK from : from = [x \in E |-> CHOOSE k \in C : f[k] = x]
  OBVIOUS
<1>18. ASSUME NEW x \in E PROVE from[x] \in C /\ f[from[x]] = x /\ Alike(have[from[x]], e)
  <2>1. x \in 1 .. Len(a) /\ Alike(a[x], e)
    BY <1>16 DEF Copies
  <2>2. \E k \in C : f[k] = x
    BY <1>7, <2>1
  <2>3. from[x] \in C /\ f[from[x]] = x
    BY <1>17, <2>2
  <2> QED
    BY <1>7, <2>1, <2>3
<1>19. PICK h : h = [x \in E |-> g[from[x]]]
  OBVIOUS
<1>20. h \in [E -> F]
  <2>1. ASSUME NEW x \in E PROVE g[from[x]] \in F
    <3>1. from[x] \in C /\ from[x] \in D /\ Alike(will[from[x]], e)
      BY <1>3, <1>15, <1>18
    <3>2. g[from[x]] \in 1 .. Len(b) /\ b[g[from[x]]] = will[from[x]]
      BY <1>8, <3>1
    <3> QED
      BY <1>16, <3>1, <3>2 DEF Copies
  <2> QED
    BY <1>19, <2>1
<1>21. ASSUME NEW x \in E, NEW y \in E, h[x] = h[y] PROVE x = y
  <2>1. PICK k \in C, l \in C : k = from[x] /\ l = from[y]
    BY <1>18
  <2>2. f[k] = x /\ f[l] = y /\ Alike(have[k], e) /\ Alike(have[l], e)
    BY <1>18, <2>1
  <2>3. g[k] = g[l] /\ g[k] \in Int
    BY <1>3, <1>8, <1>19, <1>21, <2>1
  <2>4. t[k].ts = t[l].ts
    <3>1. have[k].ts = s[k].ts /\ have[l].ts = s[l].ts
      BY <1>1 DEF RowOf, SignalRow, IMessageRow, mapMessage
    <3> QED
      BY <1>11, <2>2, <3>1 DEF Alike
  <2>5. k \in Int /\ l \in Int /\ k \in D /\ l \in D
    BY <1>3
  <2>6. ~(k < l) /\ ~(l < k)
    BY <1>8, <2>3, <2>4, <2>5
  <2> QED
    BY <2>2, <2>5, <2>6
<1>22. PICK j \in 1 .. Len(b) : Alike(b[j], a[i]) /\ SeqAt(b, j) = SeqAt(a, i)
  <2>1. h \in [Copies(a, a[i]) -> Copies(b, a[i])] /\ \A x, y \in Copies(a, a[i]) : h[x] = h[y] => x = y
    BY <1>12, <1>16, <1>20, <1>21
  <2>2. i \in 1 .. Len(a)
    BY <1>9
  <2> QED
    BY <1>6, <2>1, <2>2, Lasting
<1>23. HashWithSource(conv, q[j]) = HashWithSource(conv, p[i])
  <2>1. q[j] = AsRow(b[j], SeqAt(b, j)) /\ p[i] = AsRow(a[i], SeqAt(a, i))
    BY <1>9, <1>10
  <2>2. /\ q[j].ts = p[i].ts /\ q[j].sender = p[i].sender /\ q[j].body = p[i].body /\ q[j].seq = p[i].seq
    BY <1>22, <2>1 DEF Alike, AsRow
  <2> QED
    BY <2>2 DEF HashWithSource
<1> QED
  BY <1>10, <1>23

LEMMA HashesStay ==
  ASSUME NEW conv, NEW source \in Sources, conv[1] = source, NEW s, ChatOK(s), NEW t, ChatOK(t), CameBefore(s, t),
         AllPlain(source, t), NEW p, p = Parse(conv, s), NEW q, q = Parse(conv, t),
         NEW i \in DOMAIN p, ~Rehashed(conv, p[i])
  PROVE  \E j \in DOMAIN q : HashWithSource(conv, q[j]) = HashWithSource(conv, p[i])
<1>1. CASE source = "imessage"
  BY <1>1, IMessageHashesStay
<1>2. CASE source # "imessage"
  BY <1>2, ListedHashesStay
<1> QED
  BY <1>1, <1>2

-----------------------------------------------------------------------------
(* The names of conversations.                                             *)

PlainName(called, c) == IF called[c] = None THEN <<c.local>> ELSE called[c]
BaseName(called, c)  == Append(PlainName(called, c), c.local)
Tries(called, c, taken) ==
  <<PlainName(called, c), BaseName(called, c)>> \o [n \in DOMAIN taken |-> Append(BaseName(called, c), n + 1)]

\* The counter finds a name that is not taken.
LEMMA FreeNameIs ==
  ASSUME NEW called, NEW c, called[c] # None => IsSeq(called[c]), NEW taken, IsSeq(taken)
  PROVE  \A j \in 1 .. Len(taken) : taken[j] # FreeName(called, c, taken)
<1>1. PICK n \in Nat : n = Len(taken)
  BY DEF IsSeq
<1>2. DOMAIN taken = 1 .. n
  BY <1>1 DEF IsSeq
<1>3. PICK plain, l : plain = PlainName(called, c) /\ l = c.local
  OBVIOUS
<1>4. IsSeq(plain)
  <2>1. CASE called[c] = None
    <3>1. plain = <<l>>
      BY <1>3, <2>1 DEF PlainName
    <3> QED
      BY <3>1, Short
  <2>2. CASE called[c] # None
    BY <1>3, <2>2 DEF PlainName
  <2> QED
    BY <2>1, <2>2
<1>5. PICK base : base = Append(plain, l)
  OBVIOUS
<1>6. IsSeq(base) /\ Len(base) = Len(plain) + 1 /\ Len(plain) \in Nat
  BY <1>4, <1>5, Appended
<1>7. PICK b, rest, tries : b = <<plain, base>> /\ rest = [k \in 1 .. n |-> Append(base, k + 1)] /\ tries = b \o rest
  OBVIOUS
<1>8. IsSeq(b) /\ Len(b) = 2 /\ b[1] = plain /\ b[2] = base
  <2>1. b \in Seq({plain, base}) /\ Len(b) = 2 /\ b[1] = plain /\ b[2] = base
    BY <1>7
  <2> QED
    BY <2>1, IsSeqOf
<1>9. IsSeq(rest) /\ Len(rest) = n
  <2>1. OfLength(rest, n)
    BY <1>7 DEF OfLength
  <2> QED
    BY <2>1, SeqListed
<1>10. Concats(tries, b, rest)
  BY <1>7, <1>8, <1>9, ConcatIs
<1>11. IsSeq(tries) /\ Len(tries) = n + 2 /\ tries[1] = plain /\ tries[2] = base
  BY <1>8, <1>9, <1>10 DEF Concats
<1>12. ASSUME NEW i \in 3 .. n + 2
       PROVE  Len(tries[i]) = Len(plain) + 2 /\ tries[i][Len(plain) + 2] = i - 1
  <2>1. i - 2 \in 1 .. n /\ 2 + (i - 2) = i
    BY <1>1
  <2>2. tries[i] = rest[i - 2]
    BY <1>8, <1>9, <1>10, <2>1 DEF Concats
  <2>3. PICK e, t : e = i - 1 /\ t = tries[i]
    OBVIOUS
  <2>4. t = Append(base, e)
    BY <1>7, <2>1, <2>2, <2>3
  <2>5. Len(t) = Len(base) + 1 /\ t[Len(base) + 1] = e
    BY <1>6, <2>4, Appended
  <2>6. Len(base) + 1 = Len(plain) + 2
    BY <1>6
  <2> QED
    BY <2>3, <2>5, <2>6
<1>13. ASSUME NEW i \in 1 .. n + 2, NEW j \in 1 .. n + 2, i # j PROVE tries[i] # tries[j]
  <2>1. \A k \in 1 .. n + 2 : Len(tries[k]) = IF k = 1 THEN Len(plain) ELSE IF k = 2 THEN Len(plain) + 1 ELSE Len(plain) + 2
    <3> SUFFICES ASSUME NEW k \in 1 .. n + 2
                 PROVE  Len(tries[k]) = IF k = 1 THEN Len(plain) ELSE IF k = 2 THEN Len(plain) + 1 ELSE Len(plain) + 2
      OBVIOUS
    <3>1. k = 1 \/ k = 2 \/ k \in 3 .. n + 2
      BY <1>1
    <3> QED
      BY <1>6, <1>11, <1>12, <3>1
  <2>2. CASE i \in 3 .. n + 2 /\ j \in 3 .. n + 2
    <3>1. tries[i][Len(plain) + 2] = i - 1 /\ tries[j][Len(plain) + 2] = j - 1
      BY <1>12, <2>2
    <3>2. i - 1 # j - 1
      BY <1>13
    <3> QED
      BY <3>1, <3>2
  <2>3. CASE ~(i \in 3 .. n + 2 /\ j \in 3 .. n + 2)
    <3>1. Len(tries[i]) # Len(tries[j])
      BY <1>1, <1>6, <1>13, <2>1, <2>3
    <3> QED
      BY <3>1
  <2> QED
    BY <2>2, <2>3
<1>14. PICK open : open = {i \in DOMAIN tries : \A j \in DOMAIN taken : taken[j] # tries[i]}
  OBVIOUS
<1>15. DOMAIN tries = 1 .. n + 2
  BY <1>11 DEF IsSeq
<1>16. open # {}
  <2> SUFFICES ASSUME open = {} PROVE FALSE
    OBVIOUS
  <2>1. \A i \in 1 .. n + 2 : \E j \in 1 .. n : taken[j] = tries[i]
    BY <1>2, <1>14, <1>15
  <2>2. PICK f : f = [i \in 1 .. n + 2 |-> CHOOSE j \in 1 .. n : taken[j] = tries[i]]
    OBVIOUS
  <2>3. \A i \in 1 .. n + 2 : f[i] \in 1 .. n /\ taken[f[i]] = tries[i]
    BY <2>1, <2>2
  <2>4. f \in [1 .. n + 2 -> 1 .. n]
    BY <2>2, <2>3
  <2>5. \A i, j \in 1 .. n + 2 : f[i] = f[j] => i = j
    BY <1>13, <2>3
  <2>6. PICK A, B : A = 1 .. n + 2 /\ B = 1 .. n
    OBVIOUS
  <2>7. f \in Injection(A, B)
    BY <2>4, <2>5, <2>6, Fun_IsInj
  <2>8. IsFiniteSet(A) /\ Cardinality(A) = n + 2 /\ IsFiniteSet(B) /\ Cardinality(B) = n
    <3>1. n + 2 \in Int /\ n \in Int /\ 1 \in Int /\ ~(1 > n + 2) /\ (n + 2) - 1 + 1 = n + 2 /\ (1 > n => n = 0) /\ n - 1 + 1 = n
      OBVIOUS
    <3>2. IsFiniteSet(A) /\ Cardinality(A) = n + 2
      BY <2>6, <3>1, FS_Interval
    <3>3. IsFiniteSet(B) /\ Cardinality(B) = n
      BY <2>6, <3>1, FS_Interval
    <3> QED
      BY <3>2, <3>3
  <2>9. Cardinality(A) <= Cardinality(B)
    BY <2>7, <2>8, FS_Injection
  <2> QED
    BY <1>1, <2>8, <2>9
<1>17. IsFiniteSet(open) /\ open \subseteq Int
  <2>1. open \in SUBSET (1 .. n + 2) /\ IsFiniteSet(1 .. n + 2)
    BY <1>1, <1>14, <1>15, FS_Interval
  <2>2. IsFiniteSet(open)
    BY <2>1, FS_Subset
  <2> QED
    BY <2>1, <2>2
<1>18. PICK i : i = Min(open)
  OBVIOUS
<1>19. i \in open
  BY <1>16, <1>17, <1>18, LeastInt
<1>20. FreeName(called, c, taken) = tries[i]
  <2>1. base = BaseName(called, c)
    BY <1>3, <1>5 DEF BaseName
  <2>2. tries = Tries(called, c, taken)
    BY <1>2, <1>3, <1>7, <2>1 DEF Tries
  <2>3. FreeName(called, c, taken) =
          Tries(called, c, taken)[Min({k \in DOMAIN Tries(called, c, taken) :
                                         \A j \in DOMAIN taken : taken[j] # Tries(called, c, taken)[k]})]
    BY DEF FreeName, Tries, BaseName, PlainName
  <2> QED
    BY <1>14, <1>18, <2>2, <2>3
<1> QED
  BY <1>1, <1>2, <1>14, <1>19, <1>20

NamesRun(run, called, chats, n) ==
  /\ run[0] = <<>> /\ \A k \in 1 .. n : run[k] = Append(run[k - 1], FreeName(called, chats[k], run[k - 1]))
  /\ ChatNames(called, chats) = run[n]

LEMMA ChatNamesRuns ==
  ASSUME NEW called, NEW chats, NEW n \in Nat, n = Len(chats)
  PROVE  \E run : NamesRun(run, called, chats, n)
<1> DEFINE names == CHOOSE names : names = [k \in 0 .. n |->
                      IF k = 0 THEN <<>> ELSE Append(names[k - 1], FreeName(called, chats[k], names[k - 1]))]
<1>1. names = [k \in 0 .. n |-> IF k = 0 THEN <<>> ELSE Append(names[k - 1], FreeName(called, chats[k], names[k - 1]))]
  <2>1. PICK s, x : s = <<called, chats>> /\ x = <<>>
    OBVIOUS
  <2>2. s[1] = called /\ s[2] = chats
    BY <2>1
  <2>3. PICK run : Runs(run, "names", x, s, n)
    BY RunsExist
  <2>4. run = [k \in 0 .. n |-> IF k = 0 THEN <<>> ELSE Append(run[k - 1], FreeName(called, chats[k], run[k - 1]))]
    BY <2>1, <2>2, <2>3 DEF Runs, Step
  <2> QED
    BY <2>4
<1>2. ChatNames(called, chats) = names[n]
  BY DEF ChatNames
<1> HIDE DEF names
<1>3. names[0] = <<>>
  BY <1>1
<1>4. ASSUME NEW k \in 1 .. n PROVE names[k] = Append(names[k - 1], FreeName(called, chats[k], names[k - 1]))
  <2>1. k \in 0 .. n /\ k # 0
    OBVIOUS
  <2> QED
    BY <1>1, <2>1
<1> QED
  BY <1>2, <1>3, <1>4 DEF NamesRun

\* No two names are equal.
LEMMA ChatNamesDiffer ==
  ASSUME NEW called, NEW chats, NEW n \in Nat, n = Len(chats),
         \A k \in 1 .. n : called[chats[k]] # None => IsSeq(called[chats[k]]), NEW names, names = ChatNames(called, chats)
  PROVE  \A i, j \in 1 .. n : i # j => names[i] # names[j]
<1>1. PICK run : /\ run[0] = <<>> /\ \A k \in 1 .. n : run[k] = Append(run[k - 1], FreeName(called, chats[k], run[k - 1]))
                 /\ names = run[n]
  <2>1. PICK run : NamesRun(run, called, chats, n)
    BY ChatNamesRuns
  <2> QED
    BY <2>1 DEF NamesRun
<1> DEFINE Good(k) == /\ IsSeq(run[k]) /\ Len(run[k]) = k
                      /\ \A i, j \in 1 .. k : i < j => run[k][i] # run[k][j]
<1>2. Good(0)
  <2>1. IsSeq(run[0]) /\ Len(run[0]) = 0
    BY <1>1, Short
  <2> QED
    BY <2>1
<1>3. ASSUME NEW k \in 1 .. n, Good(k - 1) PROVE Good(k)
  <2>1. PICK s, t, e, c : s = run[k - 1] /\ t = run[k] /\ c = chats[k] /\ e = FreeName(called, c, s)
    OBVIOUS
  <2>2. IsSeq(s) /\ Len(s) = k - 1
    BY <1>3, <2>1
  <2>3. \A i, j \in 1 .. k - 1 : i < j => s[i] # s[j]
    BY <1>3, <2>1
  <2>4. t = Append(s, e)
    BY <1>1, <2>1
  <2>5. IsSeq(t) /\ Len(t) = k
    <3>1. IsSeq(t) /\ Len(t) = Len(s) + 1
      BY <2>2, <2>4, Appended
    <3> QED
      BY <2>2, <3>1
  <2>6. \A i \in 1 .. k - 1 : t[i] = s[i]
    BY <2>2, <2>4, Appended
  <2>7. t[k] = e
    <3>1. t[Len(s) + 1] = e
      BY <2>2, <2>4, Appended
    <3> QED
      BY <2>2, <3>1
  <2>8. called[c] # None => IsSeq(called[c])
    BY <2>1
  <2>9. \A j \in 1 .. Len(s) : s[j] # e
    BY <2>1, <2>2, <2>8, FreeNameIs
  <2>10. ASSUME NEW i \in 1 .. k, NEW j \in 1 .. k, i < j PROVE t[i] # t[j]
    <3>1. i \in 1 .. k - 1 /\ (j = k \/ j \in 1 .. k - 1)
      BY <2>10
    <3> QED
      BY <2>2, <2>3, <2>6, <2>7, <2>9, <2>10, <3>1
  <2> QED
    BY <2>1, <2>5, <2>10
<1> HIDE DEF Good
<1> DEFINE Bad == {k \in 0 .. n : ~Good(k)}
<1>4. Bad = {}
  <2> SUFFICES ASSUME Bad # {} PROVE FALSE
    OBVIOUS
  <2>1. Bad \subseteq Nat
    OBVIOUS
  <2>2. PICK k \in Bad : \A j \in Bad : k <= j
    BY <2>1, LeastOf
  <2>3. k \in 0 .. n /\ ~Good(k)
    OBVIOUS
  <2>4. k # 0
    BY <1>2, <2>3
  <2>5. k \in 1 .. n /\ k - 1 \in 0 .. n
    BY <2>3, <2>4
  <2>6. Good(k - 1)
    BY <2>2, <2>5
  <2> QED
    BY <1>3, <2>3, <2>5, <2>6
<1>5. n \in 0 .. n
  OBVIOUS
<1>6. Good(n)
  BY <1>4, <1>5
<1> SUFFICES ASSUME NEW i \in 1 .. n, NEW j \in 1 .. n, i # j PROVE names[i] # names[j]
  OBVIOUS
<1>7. i < j \/ j < i
  OBVIOUS
<1> QED
  BY <1>1, <1>6, <1>7 DEF Good

Called(called) == \A c \in Dialogue : /\ called[c] # None => IsSeq(called[c])
                                      /\ c.source # "whatsapp" => called[c] = FirstName[c]

LEMMA PlainConversations ==
  ASSUME NEW called, NEW source, source # "whatsapp"
  PROVE  Conversations(called, source) = [c \in Chats(source) |-> <<source, called[c]>>]
<1> DEFINE before(c) == {d \in Chats(source) : d.jid < c.jid}
           byId == [n \in 1 .. Cardinality(Chats(source)) |->
                      CHOOSE c \in Chats(source) : Cardinality(before(c)) = n - 1]
           id(c) == <<source, IF source = "whatsapp" THEN ChatNames(called, byId)[Cardinality(before(c)) + 1] ELSE called[c]>>
<1>1. Conversations(called, source) = [c \in Chats(source) |-> id(c)]
  BY DEF Conversations
<1>2. ASSUME NEW c PROVE id(c) = <<source, called[c]>>
  OBVIOUS
<1> HIDE DEF id
<1> QED
  BY <1>1, <1>2

\* The ids of WhatsApp's chats number them.
LEMMA JidsAre ==
  ASSUME NEW C, C = Chats("whatsapp"), NEW m, m = [c \in C |-> Cardinality({d \in C : d.jid < c.jid}) + 1]
  PROVE  /\ Cardinality(C) \in Nat
         /\ \A c \in C : m[c] \in 1 .. Cardinality(C)
         /\ \A c, d \in C : m[c] = m[d] => c = d
<1> DEFINE before(c) == {d \in C : d.jid < c.jid}
<1>1. C \subseteq Dialogue /\ \A c \in C : c.source = "whatsapp"
  BY DEF Chats
<1>2. IsFiniteSet(C)
  <2>1. C \in SUBSET Dialogue /\ IsFiniteSet(Dialogue)
    BY <1>1, DialogueAssumption
  <2> QED
    BY <2>1, FS_Subset
<1>3. \A c \in C : c.jid \in Int
  BY <1>1, DialogueAssumption
<1>4. \A c, d \in C : c # d => c.jid # d.jid
  BY <1>1, DialogueAssumption
<1>5. Cardinality(C) \in Nat
  BY <1>2, FS_CardinalityType
<1>6. ASSUME NEW c \in C
      PROVE  IsFiniteSet(before(c)) /\ Cardinality(before(c)) \in Nat /\ Cardinality(before(c)) < Cardinality(C)
  <2>1. PICK B : B = before(c)
    OBVIOUS
  <2>2. B \subseteq C /\ B # C
    <3>1. ~(c.jid < c.jid)
      BY <1>3
    <3> QED
      BY <2>1, <3>1
  <2>3. IsFiniteSet(B) /\ Cardinality(B) \in Nat /\ Cardinality(B) < Cardinality(C)
    BY <1>2, <2>2, Smaller
  <2> QED
    BY <2>1, <2>3
<1>7. ASSUME NEW c \in C, NEW d \in C, c.jid < d.jid PROVE Cardinality(before(c)) < Cardinality(before(d))
  <2>1. PICK A, B : A = before(c) /\ B = before(d)
    OBVIOUS
  <2>2. A \subseteq B
    <3> SUFFICES ASSUME NEW x \in A PROVE x \in B
      OBVIOUS
    <3>1. x \in C /\ x.jid < c.jid
      BY <2>1
    <3>2. x.jid < d.jid
      BY <1>3, <1>7, <3>1
    <3> QED
      BY <2>1, <3>1, <3>2
  <2>3. A # B
    <3>1. ~(c.jid < c.jid)
      BY <1>3
    <3>2. c \in B /\ c \notin A
      BY <1>7, <2>1, <3>1
    <3> QED
      BY <3>2
  <2>4. IsFiniteSet(B)
    BY <1>6, <2>1
  <2>5. Cardinality(A) < Cardinality(B)
    BY <2>2, <2>3, <2>4, Smaller
  <2> QED
    BY <2>1, <2>5
<1>8. \A c \in C : m[c] = Cardinality(before(c)) + 1
  OBVIOUS
<1> HIDE DEF before
<1>9. \A c \in C : m[c] \in 1 .. Cardinality(C)
  BY <1>5, <1>6, <1>8
<1>10. ASSUME NEW c \in C, NEW d \in C, m[c] = m[d] PROVE c = d
  <2>1. Cardinality(before(c)) = Cardinality(before(d)) /\ Cardinality(before(c)) \in Nat
    <3>1. m[c] = Cardinality(before(c)) + 1 /\ m[d] = Cardinality(before(d)) + 1
      BY <1>8
    <3>2. Cardinality(before(c)) \in Nat /\ Cardinality(before(d)) \in Nat
      BY <1>6
    <3> QED
      BY <1>10, <3>1, <3>2
  <2>2. ~(c.jid < d.jid) /\ ~(d.jid < c.jid)
    BY <1>7, <2>1
  <2>3. c.jid = d.jid
    BY <1>3, <2>2
  <2> QED
    BY <1>4, <2>3
<1> QED
  BY <1>5, <1>9, <1>10

\* Every chat has a conversation of its own.
LEMMA ConversationsAre ==
  ASSUME NEW called, Called(called), NEW source \in Sources, NEW conv, conv = Conversations(called, source)
  PROVE  /\ DOMAIN conv = Chats(source)
         /\ \A c \in Chats(source) : conv[c][1] = source
         /\ \A c, d \in Chats(source) : conv[c] = conv[d] => c = d
<1>1. PICK C : C = Chats(source)
  OBVIOUS
<1>2. C \subseteq Dialogue /\ \A c \in C : c.source = source
  BY <1>1 DEF Chats
<1>3. CASE source # "whatsapp"
  <2>1. conv = [c \in C |-> <<source, called[c]>>]
    BY <1>1, <1>3, PlainConversations
  <2>2. ASSUME NEW c \in C, NEW d \in C, conv[c] = conv[d] PROVE c = d
    <3>1. called[c] = called[d]
      BY <2>1, <2>2
    <3>2. FirstName[c] = FirstName[d]
      BY <1>2, <1>3, <3>1 DEF Called
    <3> QED
      BY <1>2, <1>3, <3>2, DialogueAssumption
  <2>3. DOMAIN conv = C /\ \A c \in C : conv[c][1] = source
    BY <2>1
  <2> QED
    BY <1>1, <2>2, <2>3
<1>4. CASE source = "whatsapp"
  <2> DEFINE before(c) == {d \in Chats(source) : d.jid < c.jid}
             nth(n) == CHOOSE c \in Chats(source) : Cardinality(before(c)) = n - 1
             id(c) == <<source, IF source = "whatsapp"
                                THEN ChatNames(called, [n \in 1 .. Cardinality(Chats(source)) |-> nth(n)])[Cardinality(before(c)) + 1]
                                ELSE called[c]>>
  <2>1. conv = [c \in Chats(source) |-> id(c)]
    BY DEF Conversations
  <2>2. PICK m : m = [c \in C |-> Cardinality(before(c)) + 1]
    OBVIOUS
  <2>3. /\ Cardinality(C) \in Nat
        /\ \A c \in C : m[c] \in 1 .. Cardinality(C)
        /\ \A c, d \in C : m[c] = m[d] => c = d
    BY <1>1, <1>4, <2>2, JidsAre
  <2>4. PICK chats : chats = [n \in 1 .. Cardinality(C) |-> nth(n)]
    OBVIOUS
  <2>5. PICK k \in Nat : k = Cardinality(C)
    BY <2>3
  <2>6. ASSUME NEW n \in 1 .. k PROVE chats[n] \in C
    <3>1. PICK c \in C : m[c] = n
      <4>1. m \in Injection(C, 1 .. k)
        <5>1. m \in [C -> 1 .. k]
          BY <2>2, <2>3, <2>5
        <5> QED
          BY <2>3, <5>1, Fun_IsInj
      <4>2. IsFiniteSet(1 .. k) /\ Cardinality(1 .. k) = k
        BY <2>5, FS_Interval
      <4>3. IsFiniteSet(C)
        <5>1. C \in SUBSET Dialogue /\ IsFiniteSet(Dialogue)
          BY <1>2, DialogueAssumption
        <5> QED
          BY <5>1, FS_Subset
      <4>4. m \in Surjection(C, 1 .. k)
        BY <2>5, <4>1, <4>2, <4>3, FS_Injection
      <4> QED
        BY <4>4 DEF Surjection
    <3>2. Cardinality(before(c)) = n - 1
      <4>1. m[c] = Cardinality(before(c)) + 1
        BY <2>2
      <4>2. c \in {x \in Chats(source) : TRUE}
        BY <1>1
      <4>3. IsFiniteSet(before(c))
        <5>1. before(c) \in SUBSET Dialogue /\ IsFiniteSet(Dialogue)
          BY DialogueAssumption DEF Chats
        <5> QED
          BY <5>1, FS_Subset
      <4>4. Cardinality(before(c)) \in Nat
        BY <4>3, FS_CardinalityType
      <4> HIDE DEF before
      <4> QED
        BY <3>1, <4>1, <4>4
    <3>3. nth(n) \in C
      BY <1>1, <3>2
    <3> HIDE DEF nth
    <3> QED
      BY <2>4, <2>5, <3>3
  <2>7. Len(chats) = k
    <3> HIDE DEF nth
    <3>1. OfLength(chats, k)
      BY <2>4, <2>5 DEF OfLength
    <3> QED
      BY <3>1, SeqListed
  <2>8. PICK names : names = ChatNames(called, chats)
    OBVIOUS
  <2>9. \A n \in 1 .. k : called[chats[n]] # None => IsSeq(called[chats[n]])
    BY <1>2, <2>6 DEF Called
  <2>10. \A i, j \in 1 .. k : i # j => names[i] # names[j]
    BY <2>7, <2>8, <2>9, ChatNamesDiffer
  <2>11. ASSUME NEW c \in C PROVE id(c) = <<source, names[m[c]]>>
    <3>1. m[c] = Cardinality(before(c)) + 1
      BY <2>2
    <3>2. names = ChatNames(called, [n \in 1 .. Cardinality(Chats(source)) |-> nth(n)])
      BY <1>1, <2>4, <2>8
    <3> HIDE DEF before, nth
    <3> QED
      BY <1>4, <3>1, <3>2
  <2> HIDE DEF id
  <2>12. conv = [c \in C |-> <<source, names[m[c]]>>]
    BY <1>1, <2>1, <2>11
  <2>13. ASSUME NEW c \in C, NEW d \in C, conv[c] = conv[d] PROVE c = d
    <3>1. names[m[c]] = names[m[d]]
      BY <2>12, <2>13
    <3>2. m[c] = m[d]
      BY <2>3, <2>5, <2>10, <3>1
    <3> QED
      BY <2>3, <3>2
  <2>14. DOMAIN conv = C /\ \A c \in C : conv[c][1] = source
    BY <2>12
  <2> QED
    BY <1>1, <2>13, <2>14
<1> QED
  BY <1>3, <1>4

-----------------------------------------------------------------------------
(* What holds of the transcripts in every state.                           *)

NamesOK(called) == called = [c \in Dialogue |-> called[c]] /\ Called(called)

ChatsOK(chats) ==
  /\ chats = [c \in Dialogue |-> chats[c]]
  /\ \A c \in Dialogue : ChatOK(chats[c]) /\ \A i \in 1 .. Len(chats[c]) :
       chats[c][i] = [ts |-> chats[c][i].ts, say |-> chats[c][i].say, reacted |-> chats[c][i].reacted]

\* The rows of a conversation are numbered.
RowsNumbered == \A v \in DOMAIN rows : \E list : IsSeq(list) /\ Drawn(rows[v], list)

\* The rows of a chat that nothing changed are what its transcript says now.
FreshRead ==
  \A source \in fresh : \A c \in Chats(source) :
    LET v == Conversations(named, source)[c]
    IN Parse(v, sent[c]) # <<>> => v \in DOMAIN rows /\ rows[v] = Parse(v, sent[c])

\* The rows of a conversation are what the transcript of a chat said once.
ReadOnce(v, c, s) == ChatOK(s) /\ CameBefore(s, sent[c]) /\ rows[v] = Parse(v, s)
OldRead ==
  named = FirstName =>
    \A v \in DOMAIN rows : \E c \in Dialogue : \E s : v = Conversations(named, c.source)[c] /\ ReadOnce(v, c, s)

TranscriptsInv ==
  /\ NamesOK(named) /\ ChatsOK(sent) /\ fresh \subseteq Sources
  /\ RowsNumbered /\ FreshRead /\ OldRead

LEMMA BeforeOn ==
  ASSUME NEW s, NEW t, NEW u, CameBefore(s, t), CameBefore(t, u), Len(u) \in Nat
  PROVE  CameBefore(s, u)
<1>1. /\ IsSeq(s) /\ Len(s) \in Nat /\ Len(t) \in Nat /\ Len(s) <= Len(t) /\ Len(t) <= Len(u)
      /\ \A i \in 1 .. Len(s) : s[i].ts = t[i].ts /\ s[i].say = t[i].say /\ s[i].reacted \subseteq t[i].reacted
      /\ \A i \in 1 .. Len(t) : t[i].ts = u[i].ts /\ t[i].say = u[i].say /\ t[i].reacted \subseteq u[i].reacted
  BY DEF CameBefore, IsSeq
<1>2. ASSUME NEW i \in 1 .. Len(s)
      PROVE  s[i].ts = u[i].ts /\ s[i].say = u[i].say /\ s[i].reacted \subseteq u[i].reacted
  <2>1. i \in 1 .. Len(t)
    BY <1>1
  <2> QED
    BY <1>1, <2>1
<1> QED
  BY <1>1, <1>2 DEF CameBefore

LEMMA ItselfBefore == ASSUME NEW s, IsSeq(s) PROVE CameBefore(s, s)
BY DEF CameBefore, IsSeq

LEMMA TranscriptsStart ==
  ASSUME TranscriptsInit
  PROVE  TranscriptsInv
<1>1. sent = [c \in Dialogue |-> <<>>] /\ named = FirstName /\ rows = <<>> /\ fresh = {}
  BY DEF TranscriptsInit
<1>2. NamesOK(named)
  <2>1. ASSUME NEW c \in Dialogue, FirstName[c] # None PROVE IsSeq(FirstName[c])
    <3>1. PICK called : called = FirstName[c]
      OBVIOUS
    <3>2. called \in NewName \union {FirstName[d] : d \in Dialogue}
      BY <3>1
    <3>3. called \in Seq(ToSet(called))
      BY <2>1, <3>1, <3>2, DialogueAssumption
    <3> QED
      BY <3>1, <3>3, IsSeqOf
  <2>2. FirstName = [c \in Dialogue |-> FirstName[c]]
    BY DialogueAssumption
  <2> QED
    BY <1>1, <2>1, <2>2 DEF NamesOK, Called
<1>3. ChatsOK(sent)
  <2>1. IsSeq(<<>>) /\ Len(<<>>) = 0
    BY Short
  <2>2. ChatOK(<<>>)
    BY <2>1 DEF ChatOK
  <2> QED
    BY <1>1, <2>1, <2>2 DEF ChatsOK
<1>4. DOMAIN rows = {}
  BY <1>1
<1> QED
  BY <1>1, <1>2, <1>3, <1>4 DEF TranscriptsInv, RowsNumbered, FreshRead, OldRead

\* What a message or a reaction does to the chats.
GoesOn(c) ==
  /\ ChatsOK(sent')
  /\ \A d \in Dialogue : CameBefore(sent[d], sent'[d])
  /\ \A d \in Dialogue : d # c => sent'[d] = sent[d]
  /\ fresh' = fresh \ {c.source} /\ UNCHANGED <<named, rows>>

LEMMA SendContinues ==
  ASSUME ChatsOK(sent), NEW c \in Dialogue, Send(c)
  PROVE  GoesOn(c)
<1>1. PICK say \in Saying[c.source], ts \in {1, 2} :
        sent' = [sent EXCEPT ![c] = Append(@, [ts |-> IF say.timed THEN ts ELSE None, say |-> say, reacted |-> {}])]
  BY DEF Send
<1>2. PICK m : m = [ts |-> IF say.timed THEN ts ELSE None, say |-> say, reacted |-> {}]
  OBVIOUS
<1>3. PICK s, t : s = sent[c] /\ t = Append(s, m)
  OBVIOUS
<1>4. sent = [d \in Dialogue |-> sent[d]]
  BY DEF ChatsOK
<1>5. sent' = [d \in Dialogue |-> IF d = c THEN t ELSE sent[d]]
  BY <1>1, <1>2, <1>3, <1>4
<1>6. ChatOK(s) /\ IsSeq(s) /\ \A i \in 1 .. Len(s) : s[i] = [ts |-> s[i].ts, say |-> s[i].say, reacted |-> s[i].reacted]
  BY <1>3 DEF ChatsOK, ChatOK
<1>7. MessageOK(m) /\ m = [ts |-> m.ts, say |-> m.say, reacted |-> m.reacted]
  <2>1. SayingOK(say)
    BY SayingAssumption
  <2>2. IsFiniteSet({})
    BY FS_EmptySet
  <2>3. m.ts \in Int \union {None} /\ m.say = say /\ m.reacted = {}
    BY <1>2
  <2> QED
    BY <1>2, <2>1, <2>2, <2>3 DEF MessageOK
<1>8. /\ IsSeq(t) /\ Len(t) = Len(s) + 1 /\ Len(s) \in Nat
      /\ \A i \in 1 .. Len(s) : t[i] = s[i]
      /\ t[Len(s) + 1] = m
  <2>1. IsSeq(s) /\ t = Append(s, m)
    BY <1>3, <1>6
  <2>2. IsSeq(t) /\ Len(t) = Len(s) + 1 /\ Len(s) \in Nat
    BY <2>1, Appended
  <2>3. \A i \in 1 .. Len(s) : t[i] = s[i]
    BY <2>1, Appended
  <2>4. t[Len(s) + 1] = m
    BY <2>1, Appended
  <2> QED
    BY <2>2, <2>3, <2>4
<1>9. \A i \in 1 .. Len(t) : MessageOK(t[i]) /\ t[i] = [ts |-> t[i].ts, say |-> t[i].say, reacted |-> t[i].reacted]
  <2> SUFFICES ASSUME NEW i \in 1 .. Len(t)
               PROVE  MessageOK(t[i]) /\ t[i] = [ts |-> t[i].ts, say |-> t[i].say, reacted |-> t[i].reacted]
    OBVIOUS
  <2>1. CASE i \in 1 .. Len(s)
    BY <1>6, <1>8, <2>1 DEF ChatOK
  <2>2. CASE i = Len(s) + 1
    BY <1>7, <1>8, <2>2
  <2> QED
    BY <1>8, <2>1, <2>2
<1>10. ChatOK(t) /\ CameBefore(s, t)
  BY <1>6, <1>8, <1>9 DEF ChatOK, CameBefore
<1>11. ChatsOK(sent')
  <2>1. sent' = [d \in Dialogue |-> sent'[d]]
    BY <1>5
  <2>2. ASSUME NEW d \in Dialogue
        PROVE  ChatOK(sent'[d]) /\ \A i \in 1 .. Len(sent'[d]) :
                 sent'[d][i] = [ts |-> sent'[d][i].ts, say |-> sent'[d][i].say, reacted |-> sent'[d][i].reacted]
    <3>1. CASE d = c
      BY <1>5, <1>9, <1>10, <3>1
    <3>2. CASE d # c
      BY <1>5, <3>2 DEF ChatsOK
    <3> QED
      BY <3>1, <3>2
  <2> QED
    BY <2>1, <2>2 DEF ChatsOK
<1>12. ASSUME NEW d \in Dialogue PROVE CameBefore(sent[d], sent'[d])
  <2>1. CASE d = c
    BY <1>3, <1>5, <1>10, <2>1
  <2>2. CASE d # c
    <3>1. IsSeq(sent[d]) /\ sent'[d] = sent[d]
      BY <1>5, <2>2 DEF ChatsOK, ChatOK
    <3> QED
      BY <3>1, ItselfBefore
  <2> QED
    BY <2>1, <2>2
<1>13. \A d \in Dialogue : d # c => sent'[d] = sent[d]
  BY <1>5
<1>14. fresh' = fresh \ {c.source} /\ UNCHANGED <<named, rows>>
  BY DEF Send
<1> QED
  BY <1>11, <1>12, <1>13, <1>14 DEF GoesOn

LEMMA ReactContinues ==
  ASSUME ChatsOK(sent), NEW c \in Dialogue, React(c)
  PROVE  GoesOn(c)
<1>1. PICK i \in DOMAIN sent[c], r \in Reactor :
        sent' = [sent EXCEPT ![c][i].reacted = @ \union {r}]
  BY DEF React
<1>2. PICK s, m, R : s = sent[c] /\ m = s[i] /\ R = m.reacted \union {r}
  OBVIOUS
<1>3. PICK new, t : new = [ts |-> m.ts, say |-> m.say, reacted |-> R] /\ t = [s EXCEPT ![i] = new]
  OBVIOUS
<1>4. sent = [d \in Dialogue |-> sent[d]]
  BY DEF ChatsOK
<1>5. ChatOK(s) /\ IsSeq(s) /\ \A j \in 1 .. Len(s) : s[j] = [ts |-> s[j].ts, say |-> s[j].say, reacted |-> s[j].reacted]
  BY <1>2 DEF ChatsOK, ChatOK
<1>6. Len(s) \in Nat /\ s = [j \in 1 .. Len(s) |-> s[j]] /\ DOMAIN s = 1 .. Len(s) /\ i \in 1 .. Len(s)
  BY <1>2, <1>5 DEF IsSeq
<1>7. m = [ts |-> m.ts, say |-> m.say, reacted |-> m.reacted] /\ MessageOK(m)
  BY <1>2, <1>5, <1>6 DEF ChatOK
<1>8. [m EXCEPT !.reacted = @ \union {r}] = new
  BY <1>2, <1>3, <1>7
<1>9. [s EXCEPT ![i].reacted = @ \union {r}] = t
  BY <1>2, <1>3, <1>8
<1>10. sent' = [d \in Dialogue |-> IF d = c THEN t ELSE sent[d]]
  BY <1>1, <1>2, <1>4, <1>9
<1>11. MessageOK(new) /\ new = [ts |-> new.ts, say |-> new.say, reacted |-> new.reacted]
       /\ new.ts = m.ts /\ new.say = m.say /\ m.reacted \subseteq new.reacted
  <2>1. new.ts = m.ts /\ new.say = m.say /\ new.reacted = R
    BY <1>3
  <2>2. IsFiniteSet(R)
    <3>1. IsFiniteSet(m.reacted)
      BY <1>7 DEF MessageOK
    <3> QED
      BY <1>2, <3>1, FS_AddElement
  <2>3. MessageOK(new)
    BY <1>7, <2>1, <2>2 DEF MessageOK
  <2>4. m.reacted \subseteq R
    BY <1>2
  <2>5. new = [ts |-> new.ts, say |-> new.say, reacted |-> new.reacted]
    BY <1>3, <2>1
  <2> QED
    BY <2>1, <2>3, <2>4, <2>5
<1>12. OfLength(t, Len(s))
  BY <1>3, <1>6 DEF OfLength
<1>13. IsSeq(t) /\ Len(t) = Len(s) /\ \A j \in 1 .. Len(s) : t[j] = IF j = i THEN new ELSE s[j]
  BY <1>3, <1>6, <1>12, SeqListed
<1>14. \A j \in 1 .. Len(t) : MessageOK(t[j]) /\ t[j] = [ts |-> t[j].ts, say |-> t[j].say, reacted |-> t[j].reacted]
  <2> SUFFICES ASSUME NEW j \in 1 .. Len(t)
               PROVE  MessageOK(t[j]) /\ t[j] = [ts |-> t[j].ts, say |-> t[j].say, reacted |-> t[j].reacted]
    OBVIOUS
  <2>1. CASE j = i
    <3>1. t[j] = new
      BY <1>13, <2>1
    <3> QED
      BY <1>11, <3>1
  <2>2. CASE j # i
    <3>1. t[j] = s[j] /\ j \in 1 .. Len(s)
      BY <1>13, <2>2
    <3> QED
      BY <1>5, <3>1 DEF ChatOK
  <2> QED
    BY <2>1, <2>2
<1>15. ChatOK(t) /\ CameBefore(s, t)
  <2>1. ASSUME NEW j \in 1 .. Len(s)
        PROVE  s[j].ts = t[j].ts /\ s[j].say = t[j].say /\ s[j].reacted \subseteq t[j].reacted
    <3>1. CASE j = i
      <4>1. t[j] = new /\ s[j] = m
        BY <1>2, <1>13, <3>1
      <4> QED
        BY <1>11, <4>1
    <3>2. CASE j # i
      BY <1>13, <3>2
    <3> QED
      BY <3>1, <3>2
  <2>2. ChatOK(t)
    BY <1>13, <1>14 DEF ChatOK
  <2> QED
    BY <1>5, <1>6, <1>13, <2>1, <2>2 DEF CameBefore
<1>16. ChatsOK(sent')
  <2>1. sent' = [d \in Dialogue |-> sent'[d]]
    BY <1>10
  <2>2. ASSUME NEW d \in Dialogue
        PROVE  ChatOK(sent'[d]) /\ \A j \in 1 .. Len(sent'[d]) :
                 sent'[d][j] = [ts |-> sent'[d][j].ts, say |-> sent'[d][j].say, reacted |-> sent'[d][j].reacted]
    <3>1. CASE d = c
      BY <1>10, <1>14, <1>15, <3>1
    <3>2. CASE d # c
      BY <1>10, <3>2 DEF ChatsOK
    <3> QED
      BY <3>1, <3>2
  <2> QED
    BY <2>1, <2>2 DEF ChatsOK
<1>17. ASSUME NEW d \in Dialogue PROVE CameBefore(sent[d], sent'[d])
  <2>1. CASE d = c
    BY <1>2, <1>10, <1>15, <2>1
  <2>2. CASE d # c
    <3>1. IsSeq(sent[d]) /\ sent'[d] = sent[d]
      BY <1>10, <2>2 DEF ChatsOK, ChatOK
    <3> QED
      BY <3>1, ItselfBefore
  <2> QED
    BY <2>1, <2>2
<1>18. \A d \in Dialogue : d # c => sent'[d] = sent[d]
  BY <1>10
<1>19. fresh' = fresh \ {c.source} /\ UNCHANGED <<named, rows>>
  BY DEF React
<1> QED
  BY <1>16, <1>17, <1>18, <1>19 DEF GoesOn

LEMMA GoingOnKeeps ==
  ASSUME TranscriptsInv, NEW c \in Dialogue, GoesOn(c)
  PROVE  TranscriptsInv'
<1>1. /\ ChatsOK(sent') /\ fresh' = fresh \ {c.source} /\ UNCHANGED <<named, rows>>
      /\ \A d \in Dialogue : CameBefore(sent[d], sent'[d])
      /\ \A d \in Dialogue : d # c => sent'[d] = sent[d]
  BY DEF GoesOn
<1>2. NamesOK(named') /\ fresh' \subseteq Sources
  BY <1>1 DEF TranscriptsInv
<1>3. RowsNumbered'
  BY <1>1 DEF TranscriptsInv, RowsNumbered
<1>4. FreshRead'
  <2> SUFFICES ASSUME NEW source \in fresh', NEW d \in Chats(source), NEW v, v = Conversations(named, source)[d],
                      Parse(v, sent'[d]) # <<>>
               PROVE  v \in DOMAIN rows /\ rows[v] = Parse(v, sent'[d])
    BY <1>1 DEF FreshRead
  <2>1. source \in fresh /\ source # c.source /\ d \in Dialogue /\ d.source = source
    BY <1>1 DEF Chats
  <2>2. sent'[d] = sent[d]
    BY <1>1, <2>1
  <2>3. FreshRead
    BY DEF TranscriptsInv
  <2> QED
    BY <2>1, <2>2, <2>3 DEF FreshRead
<1>5. OldRead'
  <2> SUFFICES ASSUME named = FirstName, NEW v \in DOMAIN rows
               PROVE  \E d \in Dialogue : \E s : v = Conversations(named, d.source)[d] /\ ReadOnce(v, d, s)'
    BY <1>1 DEF OldRead, ReadOnce
  <2>1. PICK d \in Dialogue : \E s : v = Conversations(named, d.source)[d] /\ ReadOnce(v, d, s)
    BY DEF TranscriptsInv, OldRead
  <2>2. PICK s : v = Conversations(named, d.source)[d] /\ ReadOnce(v, d, s)
    BY <2>1
  <2>3. ChatOK(s) /\ CameBefore(s, sent[d]) /\ rows[v] = Parse(v, s)
    BY <2>2 DEF ReadOnce
  <2>4. CameBefore(sent[d], sent'[d]) /\ Len(sent'[d]) \in Nat
    BY <1>1 DEF ChatsOK, ChatOK, IsSeq
  <2>5. CameBefore(s, sent'[d])
    BY <2>3, <2>4, BeforeOn
  <2>6. ReadOnce(v, d, s)'
    BY <1>1, <2>3, <2>5 DEF ReadOnce
  <2> QED
    BY <2>2, <2>6
<1> QED
  BY <1>1, <1>2, <1>3, <1>4, <1>5 DEF TranscriptsInv

LEMMA RenameKeeps ==
  ASSUME TranscriptsInv, NEW c \in Dialogue, Rename(c)
  PROVE  TranscriptsInv'
<1>1. PICK called \in NewName : named' = [named EXCEPT ![c] = called]
  BY DEF Rename
<1>2. c.source = "whatsapp" /\ fresh' = fresh \ {c.source} /\ UNCHANGED <<sent, rows>>
  BY DEF Rename
<1>3. named = [d \in Dialogue |-> named[d]] /\ Called(named)
  BY DEF TranscriptsInv, NamesOK
<1>4. named' = [d \in Dialogue |-> IF d = c THEN called ELSE named[d]]
  BY <1>1, <1>3
<1>5. NamesOK(named')
  <2>1. called # None => IsSeq(called)
    <3> SUFFICES ASSUME called # None PROVE IsSeq(called)
      OBVIOUS
    <3>1. called \in Seq(ToSet(called))
      BY DialogueAssumption
    <3> QED
      BY <3>1, IsSeqOf
  <2>2. ASSUME NEW d \in Dialogue
        PROVE  (named'[d] # None => IsSeq(named'[d])) /\ (d.source # "whatsapp" => named'[d] = FirstName[d])
    <3>1. CASE d = c
      BY <1>2, <1>4, <2>1, <3>1
    <3>2. CASE d # c
      BY <1>3, <1>4, <3>2 DEF Called
    <3> QED
      BY <3>1, <3>2
  <2>3. named' = [d \in Dialogue |-> named'[d]]
    BY <1>4
  <2> QED
    BY <2>2, <2>3 DEF NamesOK, Called
<1>6. ChatsOK(sent') /\ fresh' \subseteq Sources
  BY <1>2 DEF TranscriptsInv
<1>7. RowsNumbered'
  BY <1>2 DEF TranscriptsInv, RowsNumbered
<1>8. FreshRead'
  <2> SUFFICES ASSUME NEW source \in fresh', NEW d \in Chats(source), NEW v, v = Conversations(named', source)[d],
                      Parse(v, sent[d]) # <<>>
               PROVE  v \in DOMAIN rows /\ rows[v] = Parse(v, sent[d])
    BY <1>2 DEF FreshRead
  <2>1. source \in fresh /\ source # "whatsapp" /\ d \in Dialogue /\ d.source = source
    BY <1>2 DEF Chats
  <2>2. Conversations(named', source)[d] = <<source, named'[d]>> /\ Conversations(named, source)[d] = <<source, named[d]>>
    <3>1. Conversations(named', source) = [x \in Chats(source) |-> <<source, named'[x]>>]
      BY <2>1, PlainConversations
    <3>2. Conversations(named, source) = [x \in Chats(source) |-> <<source, named[x]>>]
      BY <2>1, PlainConversations
    <3> QED
      BY <3>1, <3>2
  <2>3. named'[d] = named[d]
    BY <1>2, <1>4, <2>1
  <2>4. FreshRead
    BY DEF TranscriptsInv
  <2> QED
    BY <2>1, <2>2, <2>3, <2>4 DEF FreshRead
<1>9. named' # FirstName
  <2>1. named'[c] = called
    BY <1>4
  <2>2. FirstName[c] \notin NewName
    BY DialogueAssumption
  <2> QED
    BY <2>1, <2>2
<1>10. OldRead'
  BY <1>9 DEF OldRead
<1> QED
  BY <1>5, <1>6, <1>7, <1>8, <1>10 DEF TranscriptsInv

\* What an import does to the rows.
Renewed(source, conv) ==
  /\ DOMAIN rows \subseteq DOMAIN rows'
  /\ \A v \in DOMAIN rows' :
       \/ v \in DOMAIN rows
       \/ \E c \in Chats(source) : v = conv[c] /\ Parse(conv[c], sent[c]) # <<>>
  /\ \A c \in Chats(source) : Parse(conv[c], sent[c]) # <<>> =>
       conv[c] \in DOMAIN rows' /\ rows'[conv[c]] = Parse(conv[c], sent[c])
  /\ \A v \in DOMAIN rows :
       (\A c \in Chats(source) : v = conv[c] => Parse(conv[c], sent[c]) = <<>>) => rows'[v] = rows[v]

LEMMA ImportRenews ==
  ASSUME NamesOK(named), NEW source \in Sources, Import(source), NEW conv, conv = Conversations(named, source)
  PROVE  Renewed(source, conv)
<1>1. PICK C : C = Chats(source)
  OBVIOUS
<1>2. DOMAIN conv = C /\ \A c, d \in C : conv[c] = conv[d] => c = d
  BY <1>1, ConversationsAre DEF NamesOK
<1>3. PICK parsed, full : /\ parsed = [c \in DOMAIN conv |-> Parse(conv[c], sent[c])]
                          /\ full = {c \in DOMAIN conv : parsed[c] # <<>>}
  OBVIOUS
<1>4. rows' = [v \in DOMAIN rows \union {conv[c] : c \in full} |->
                 IF \E c \in full : conv[c] = v THEN parsed[CHOOSE c \in full : conv[c] = v] ELSE rows[v]]
  BY <1>3 DEF Import
<1>5. full \subseteq C /\ \A c \in C : parsed[c] = Parse(conv[c], sent[c])
                                      /\ (c \in full <=> Parse(conv[c], sent[c]) # <<>>)
  BY <1>2, <1>3
<1>6. DOMAIN rows' = DOMAIN rows \union {conv[c] : c \in full}
  BY <1>4
<1>7. ASSUME NEW c \in full PROVE conv[c] \in DOMAIN rows' /\ rows'[conv[c]] = parsed[c]
  <2>1. conv[c] \in DOMAIN rows'
    BY <1>6
  <2>2. (CHOOSE d \in full : conv[d] = conv[c]) = c
    BY <1>2, <1>5
  <2>3. rows'[conv[c]] = parsed[CHOOSE d \in full : conv[d] = conv[c]]
    BY <1>4, <1>6, <2>1
  <2> QED
    BY <2>1, <2>2, <2>3
<1>8. ASSUME NEW v \in DOMAIN rows, \A c \in full : conv[c] # v PROVE rows'[v] = rows[v]
  BY <1>4, <1>6, <1>8
<1>9. DOMAIN rows \subseteq DOMAIN rows'
  BY <1>6
<1>10. \A v \in DOMAIN rows' :
         \/ v \in DOMAIN rows
         \/ \E c \in Chats(source) : v = conv[c] /\ Parse(conv[c], sent[c]) # <<>>
  BY <1>1, <1>5, <1>6
<1>11. \A c \in Chats(source) : Parse(conv[c], sent[c]) # <<>> =>
         conv[c] \in DOMAIN rows' /\ rows'[conv[c]] = Parse(conv[c], sent[c])
  BY <1>1, <1>5, <1>7
<1>12. \A v \in DOMAIN rows :
         (\A c \in Chats(source) : v = conv[c] => Parse(conv[c], sent[c]) = <<>>) => rows'[v] = rows[v]
  BY <1>1, <1>5, <1>8
<1> QED
  BY <1>9, <1>10, <1>11, <1>12 DEF Renewed

\* Another source's conversations are others.
LEMMA SourcesApart ==
  ASSUME NamesOK(named), NEW source \in Sources, NEW other \in Sources, NEW conv, conv = Conversations(named, source),
         NEW c \in Chats(source), NEW d \in Chats(other), conv[c] = Conversations(named, other)[d]
  PROVE  source = other /\ c = d
<1>1. conv[c][1] = source
  BY ConversationsAre DEF NamesOK
<1>2. PICK also : also = Conversations(named, other)
  OBVIOUS
<1>3. also[d][1] = other
  BY <1>2, ConversationsAre DEF NamesOK
<1>4. source = other
  BY <1>1, <1>2, <1>3
<1>5. \A x, y \in Chats(source) : conv[x] = conv[y] => x = y
  BY ConversationsAre DEF NamesOK
<1> QED
  BY <1>4, <1>5

\* The rows of a chat that is read again.
LEMMA ParsedNumbered ==
  ASSUME NEW conv, NEW source \in Sources, conv[1] = source, NEW chat, ChatOK(chat)
  PROVE  \E list : IsSeq(list) /\ Drawn(Parse(conv, chat), list)
<1>1. PICK D, row : D = Kept(source, chat) /\ row = [i \in D |-> RowOf(conv, chat[i])]
  OBVIOUS
<1>2. PICK p : p = Parse(conv, chat)
  OBVIOUS
<1>3. PICK list : ReadFrom(p, list, source, chat) /\ Finds(list, chat, D, row, AllPlain(source, chat))
  BY <1>1, <1>2, ParseIs
<1> QED
  BY <1>2, <1>3 DEF Finds, ReadFrom

LEMMA ImportKeeps ==
  ASSUME TranscriptsInv, NEW source \in Sources, Import(source)
  PROVE  TranscriptsInv'
<1>1. PICK conv : conv = Conversations(named, source)
  OBVIOUS
<1>2. NamesOK(named) /\ ChatsOK(sent)
  BY DEF TranscriptsInv
<1>3. Renewed(source, conv)
  BY <1>1, <1>2, ImportRenews
<1>4. /\ DOMAIN rows \subseteq DOMAIN rows'
      /\ \A c \in Chats(source) : Parse(conv[c], sent[c]) # <<>> =>
           conv[c] \in DOMAIN rows' /\ rows'[conv[c]] = Parse(conv[c], sent[c])
  BY <1>3 DEF Renewed
<1>5. UNCHANGED <<sent, named>> /\ fresh' = fresh \union {source}
  BY DEF Import
<1>6. NamesOK(named') /\ ChatsOK(sent') /\ fresh' \subseteq Sources
  BY <1>2, <1>5 DEF TranscriptsInv
<1>7. \A c \in Chats(source) : c \in Dialogue /\ c.source = source /\ conv[c][1] = source
  <2>1. \A c \in Chats(source) : c \in Dialogue /\ c.source = source
    BY DEF Chats
  <2>2. \A c \in Chats(source) : conv[c][1] = source
    BY <1>1, <1>2, ConversationsAre DEF NamesOK
  <2> QED
    BY <2>1, <2>2
\* A row of the archive is of the import or was there.
<1>8. ASSUME NEW v \in DOMAIN rows'
      PROVE  \/ v \in DOMAIN rows /\ rows'[v] = rows[v]
             \/ \E c \in Chats(source) : v = conv[c] /\ rows'[v] = Parse(v, sent[c])
  <2>1. CASE \E c \in Chats(source) : v = conv[c] /\ Parse(conv[c], sent[c]) # <<>>
    BY <1>4, <2>1
  <2>2. CASE \A c \in Chats(source) : v = conv[c] => Parse(conv[c], sent[c]) = <<>>
    <3>1. v \in DOMAIN rows
      BY <1>3, <2>2 DEF Renewed
    <3> QED
      BY <1>3, <2>2, <3>1 DEF Renewed
  <2> QED
    BY <2>1, <2>2
<1>9. RowsNumbered'
  <2> SUFFICES ASSUME NEW v \in DOMAIN rows' PROVE \E list : IsSeq(list) /\ Drawn(rows'[v], list)
    BY DEF RowsNumbered
  <2>1. CASE v \in DOMAIN rows /\ rows'[v] = rows[v]
    BY <2>1 DEF TranscriptsInv, RowsNumbered
  <2>2. CASE \E c \in Chats(source) : v = conv[c] /\ rows'[v] = Parse(v, sent[c])
    <3>1. PICK c \in Chats(source) : v = conv[c] /\ rows'[v] = Parse(v, sent[c])
      BY <2>2
    <3>2. ChatOK(sent[c]) /\ v[1] = source
      BY <1>2, <1>7, <3>1 DEF ChatsOK
    <3>3. \E list : IsSeq(list) /\ Drawn(Parse(v, sent[c]), list)
      BY <3>2, ParsedNumbered
    <3> QED
      BY <3>1, <3>3
  <2> QED
    BY <1>8, <2>1, <2>2
<1>10. FreshRead'
  <2> SUFFICES ASSUME NEW other \in fresh', NEW d \in Chats(other), NEW v, v = Conversations(named, other)[d],
                      Parse(v, sent[d]) # <<>>
               PROVE  v \in DOMAIN rows' /\ rows'[v] = Parse(v, sent[d])
    BY <1>5 DEF FreshRead
  <2>1. CASE other = source
    BY <1>1, <1>4, <2>1
  <2>2. CASE other # source
    <3>1. other \in fresh /\ other \in Sources
      BY <1>5, <1>6, <2>2
    <3>2. v \in DOMAIN rows /\ rows[v] = Parse(v, sent[d])
      BY <3>1 DEF TranscriptsInv, FreshRead
    <3>3. \A c \in Chats(source) : v # conv[c]
      BY <1>1, <1>2, <2>2, <3>1, SourcesApart
    <3> QED
      BY <1>3, <3>2, <3>3 DEF Renewed
  <2> QED
    BY <2>1, <2>2
<1>11. OldRead'
  <2> SUFFICES ASSUME named = FirstName, NEW v \in DOMAIN rows'
               PROVE  \E d \in Dialogue : \E s : v = Conversations(named, d.source)[d] /\ ReadOnce(v, d, s)'
    BY <1>5 DEF OldRead, ReadOnce
  <2>1. CASE v \in DOMAIN rows /\ rows'[v] = rows[v]
    <3>1. PICK d \in Dialogue : \E s : v = Conversations(named, d.source)[d] /\ ReadOnce(v, d, s)
      BY <2>1 DEF TranscriptsInv, OldRead
    <3>2. PICK s : v = Conversations(named, d.source)[d] /\ ReadOnce(v, d, s)
      BY <3>1
    <3>3. ReadOnce(v, d, s)'
      BY <1>5, <2>1, <3>2 DEF ReadOnce
    <3> QED
      BY <3>2, <3>3
  <2>2. CASE \E c \in Chats(source) : v = conv[c] /\ rows'[v] = Parse(v, sent[c])
    <3>1. PICK c \in Chats(source) : v = conv[c] /\ rows'[v] = Parse(v, sent[c])
      BY <2>2
    <3>2. c \in Dialogue /\ v = Conversations(named, c.source)[c]
      BY <1>1, <1>7, <3>1
    <3>3. ChatOK(sent[c]) /\ IsSeq(sent[c])
      BY <1>2, <3>2 DEF ChatsOK, ChatOK
    <3>4. CameBefore(sent[c], sent[c])
      BY <3>3, ItselfBefore
    <3>5. ReadOnce(v, c, sent[c])'
      BY <1>5, <3>1, <3>3, <3>4 DEF ReadOnce
    <3> QED
      BY <1>5, <3>2, <3>5
  <2> QED
    BY <1>8, <2>1, <2>2
<1> QED
  BY <1>6, <1>9, <1>10, <1>11 DEF TranscriptsInv

LEMMA TranscriptsStep ==
  ASSUME TranscriptsInv, [TranscriptsNext]_transcriptVars
  PROVE  TranscriptsInv'
<1>1. ASSUME NEW c \in Dialogue, Send(c) PROVE TranscriptsInv'
  BY <1>1, SendContinues, GoingOnKeeps DEF TranscriptsInv
<1>2. ASSUME NEW c \in Dialogue, React(c) PROVE TranscriptsInv'
  BY <1>2, ReactContinues, GoingOnKeeps DEF TranscriptsInv
<1>3. ASSUME NEW c \in Dialogue, Rename(c) PROVE TranscriptsInv'
  BY <1>3, RenameKeeps
<1>4. ASSUME NEW source \in {"signal", "imessage", "whatsapp"}, Import(source) PROVE TranscriptsInv'
  BY <1>4, ImportKeeps DEF Sources
<1>5. CASE UNCHANGED transcriptVars
  <2>1. sent' = sent /\ named' = named /\ rows' = rows /\ fresh' = fresh
    BY <1>5 DEF transcriptVars
  <2>2. NamesOK(named') /\ ChatsOK(sent') /\ fresh' \subseteq Sources
    BY <2>1 DEF TranscriptsInv
  <2>3. RowsNumbered'
    BY <2>1 DEF TranscriptsInv, RowsNumbered
  <2>4. FreshRead'
    BY <2>1 DEF TranscriptsInv, FreshRead
  <2>5. OldRead'
    <3> SUFFICES ASSUME named = FirstName, NEW v \in DOMAIN rows
                 PROVE  \E d \in Dialogue : \E s : v = Conversations(named, d.source)[d] /\ ReadOnce(v, d, s)'
      BY <2>1 DEF OldRead, ReadOnce
    <3>1. PICK d \in Dialogue : \E s : v = Conversations(named, d.source)[d] /\ ReadOnce(v, d, s)
      BY DEF TranscriptsInv, OldRead
    <3>2. PICK s : v = Conversations(named, d.source)[d] /\ ReadOnce(v, d, s)
      BY <3>1
    <3>3. ReadOnce(v, d, s)'
      BY <2>1, <3>2 DEF ReadOnce
    <3> QED
      BY <3>2, <3>3
  <2> QED
    BY <2>2, <2>3, <2>4, <2>5 DEF TranscriptsInv
<1> QED
  BY <1>1, <1>2, <1>3, <1>4, <1>5 DEF TranscriptsNext

LEMMA TranscriptsAlways == TranscriptsSpec => []TranscriptsInv
<1>1. TranscriptsInit => TranscriptsInv
  BY TranscriptsStart
<1>2. TranscriptsInv /\ [TranscriptsNext]_transcriptVars => TranscriptsInv'
  BY TranscriptsStep
<1> QED
  BY <1>1, <1>2, PTL DEF TranscriptsSpec

-----------------------------------------------------------------------------
LEMMA HashesDiffer ==
  ASSUME TranscriptsInv
  PROVE  HashesUnique
<1> SUFFICES ASSUME NEW c \in DOMAIN rows, NEW d \in DOMAIN rows, NEW i \in DOMAIN rows[c], NEW j \in DOMAIN rows[d],
                    HashWithSource(c, rows[c][i]) = HashWithSource(d, rows[d][j])
             PROVE  <<c, i>> = <<d, j>>
  BY DEF HashesUnique
<1>1. c = d /\ rows[c][i].ts = rows[c][j].ts /\ rows[c][i].sender = rows[c][j].sender
      /\ rows[c][i].body = rows[c][j].body /\ rows[c][i].seq = rows[c][j].seq
  BY DEF HashWithSource
<1>2. PICK list : IsSeq(list) /\ Drawn(rows[c], list)
  BY DEF TranscriptsInv, RowsNumbered
<1>3. PICK all : all = rows[c]
  OBVIOUS
<1>4. PICK f : DrawnAt(all, list, f)
  BY <1>2, <1>3 DEF Drawn
<1>5. i \in DOMAIN all /\ j \in DOMAIN all
  BY <1>1, <1>3
<1>6. PICK m, n, a, b : m = f[i] /\ n = f[j] /\ a = list[m] /\ b = list[n]
  OBVIOUS
<1>7. /\ m \in 1 .. Len(list) /\ n \in 1 .. Len(list)
      /\ all[i] = AsRow(a, SeqAt(list, m)) /\ all[j] = AsRow(b, SeqAt(list, n))
  BY <1>4, <1>5, <1>6 DEF DrawnAt
<1>8. Alike(a, b) /\ SeqAt(list, m) = SeqAt(list, n)
  BY <1>1, <1>3, <1>7 DEF AsRow, Alike
<1>9. m = n
  BY <1>2, <1>6, <1>7, <1>8, PlacesDiffer
<1>10. i \in Nat /\ j \in Nat /\ m \in Int
  BY <1>2, <1>4, <1>5, <1>7 DEF DrawnAt, IsSeq
<1>11. ~(i < j) /\ ~(j < i)
  <2>1. \A k, l \in DOMAIN all : k < l => f[k] < f[l]
    BY <1>4 DEF DrawnAt
  <2>2. (i < j => m < m) /\ (j < i => m < m)
    BY <1>5, <1>6, <1>9, <2>1
  <2> QED
    BY <1>10, <2>2
<1> QED
  BY <1>1, <1>10, <1>11

LEMMA ImportFinds ==
  ASSUME TranscriptsInv
  PROVE  ImportIsFaithful
<1>1. fresh \subseteq Sources /\ NamesOK(named) /\ ChatsOK(sent) /\ FreshRead
  BY DEF TranscriptsInv
<1> SUFFICES ASSUME NEW source \in fresh, NEW c \in DOMAIN Conversations(named, source),
                    Expected(source, sent[c]) # {}
             PROVE  \E at \in [Expected(source, sent[c]) -> DOMAIN rows[Conversations(named, source)[c]]] :
                      /\ \A i \in Expected(source, sent[c]) :
                           Says(rows[Conversations(named, source)[c]][at[i]], sent[c][i])
                      /\ \A i, j \in Expected(source, sent[c]) :
                           i < j /\ sent[c][i].ts = sent[c][j].ts => at[i] < at[j]
  BY DEF ImportIsFaithful, Expected
<1>2. PICK conv : conv = Conversations(named, source)
  OBVIOUS
<1>3. c \in Chats(source) /\ c \in Dialogue /\ conv[c][1] = source
  <2>1. source \in Sources
    BY <1>1
  <2>2. DOMAIN conv = Chats(source) /\ \A d \in Chats(source) : conv[d][1] = source
    BY <1>1, <1>2, <2>1, ConversationsAre DEF NamesOK
  <2>3. Chats(source) \subseteq Dialogue
    BY DEF Chats
  <2> QED
    BY <1>2, <2>2, <2>3
<1>4. ChatOK(sent[c])
  BY <1>1, <1>3 DEF ChatsOK
<1>5. PICK v, chat, p, q, E : v = conv[c] /\ chat = sent[c] /\ p = rows[v] /\ q = Parse(v, chat)
                              /\ E = Expected(source, chat)
  OBVIOUS
<1>6. FoundIn(q, chat, E)
  <2>1. source \in Sources /\ v[1] = source /\ ChatOK(chat)
    BY <1>1, <1>3, <1>4, <1>5
  <2> QED
    BY <1>5, <2>1, ParseFinds
<1>7. q # <<>>
  <2>1. PICK at \in [E -> DOMAIN q] : TRUE
    BY <1>6 DEF FoundIn
  <2>2. PICK i : i \in E
    BY <1>5
  <2>3. at[i] \in DOMAIN q
    BY <2>1, <2>2
  <2> QED
    BY <2>3
<1>8. p = q
  BY <1>1, <1>2, <1>3, <1>5, <1>7 DEF FreshRead
<1> QED
  BY <1>2, <1>5, <1>6, <1>8 DEF FoundIn

\* The archive's hashes are unique, and an import finds every message of its source
\* with its sender, text, files and reactions, in the order in which they were sent.
THEOREM ImportTrue == TranscriptsSpec => []ImportHolds
<1>1. TranscriptsInv => ImportHolds
  BY HashesDiffer, ImportFinds DEF ImportHolds
<1> QED
  BY <1>1, TranscriptsAlways, PTL

-----------------------------------------------------------------------------
LEMMA ImportKeepsHashes ==
  ASSUME TranscriptsInv, named = FirstName, NEW source \in Sources, Import(source), NEW v \in DOMAIN rows,
         NEW i \in DOMAIN rows[v], ~Rehashed(v, rows[v][i]),
         ~\E c \in Dialogue : v = <<c.source, named[c]>> /\ Imitated(c)
  PROVE  \E j \in DOMAIN rows'[v] : HashWithSource(v, rows'[v][j]) = HashWithSource(v, rows[v][i])
<1>1. PICK conv : conv = Conversations(named, source)
  OBVIOUS
<1>2. NamesOK(named) /\ ChatsOK(sent)
  BY DEF TranscriptsInv
<1>3. Renewed(source, conv)
  BY <1>1, <1>2, ImportRenews
<1>4. CASE rows'[v] = rows[v]
  BY <1>4
<1>5. CASE rows'[v] # rows[v]
  <2>1. PICK c \in Chats(source) : v = conv[c] /\ Parse(conv[c], sent[c]) # <<>>
    BY <1>3, <1>5 DEF Renewed
  <2>2. c \in Dialogue /\ c.source = source /\ v[1] = source
    <3>1. conv[c][1] = source
      BY <1>1, <1>2, <2>1, ConversationsAre DEF NamesOK
    <3>2. c \in Dialogue /\ c.source = source
      BY <2>1 DEF Chats
    <3> QED
      BY <2>1, <3>1, <3>2
  <2>3. rows'[v] = Parse(v, sent[c])
    BY <1>3, <2>1 DEF Renewed
  <2>4. PICK d \in Dialogue : \E s : v = Conversations(named, d.source)[d] /\ ReadOnce(v, d, s)
    BY DEF TranscriptsInv, OldRead
  <2>5. PICK s : v = Conversations(named, d.source)[d] /\ ReadOnce(v, d, s)
    BY <2>4
  <2>6. d \in Chats(d.source) /\ d.source \in Sources
    BY DialogueAssumption DEF Chats, Sources
  <2>7. c = d
    <3>1. PICK other : other = d.source
      OBVIOUS
    <3>2. other \in Sources /\ d \in Chats(other) /\ conv[c] = Conversations(named, other)[d]
      BY <2>1, <2>5, <2>6, <3>1
    <3> QED
      BY <1>1, <1>2, <2>1, <3>2, SourcesApart
  <2>8. PICK t, p, q : t = sent[c] /\ p = rows[v] /\ q = rows'[v]
    OBVIOUS
  <2>9. ChatOK(s) /\ ChatOK(t) /\ CameBefore(s, t) /\ p = Parse(v, s) /\ q = Parse(v, t)
    BY <1>2, <2>2, <2>3, <2>5, <2>7, <2>8 DEF ReadOnce, ChatsOK
  <2>10. AllPlain(source, t)
    <3>1. CASE source = "whatsapp"
      BY <3>1 DEF AllPlain, Plain
    <3>2. CASE source # "whatsapp"
      <4>1. v = <<c.source, named[c]>>
        BY <1>1, <2>1, <2>2, <3>2, PlainConversations
      <4>2. ~Imitated(c)
        BY <2>2, <4>1
      <4>3. DOMAIN t = 1 .. Len(t)
        BY <2>9 DEF ChatOK, IsSeq
      <4> QED
        BY <2>2, <2>8, <4>2, <4>3 DEF Imitated, AllPlain
    <3> QED
      BY <3>1, <3>2
  <2>11. \E j \in DOMAIN q : HashWithSource(v, q[j]) = HashWithSource(v, p[i])
    BY <2>2, <2>8, <2>9, <2>10, HashesStay
  <2> QED
    BY <2>8, <2>11
<1> QED
  BY <1>4, <1>5

\* What one step owes the hashes.
HashesLast ==
  named' = FirstName =>
    \A conv \in DOMAIN rows : \A i \in DOMAIN rows[conv] :
      \/ Rehashed(conv, rows[conv][i])
      \/ \E c \in Dialogue : conv = <<c.source, named[c]>> /\ Imitated(c)
      \/ \E j \in DOMAIN rows'[conv] :
           HashWithSource(conv, rows'[conv][j]) = HashWithSource(conv, rows[conv][i])

LEMMA StepKeepsHashes ==
  ASSUME TranscriptsInv, TranscriptsNext
  PROVE  HashesLast
<1>1. CASE rows' = rows
  BY <1>1 DEF HashesLast
<1>2. ASSUME NEW source \in Sources, Import(source) PROVE HashesLast
  <2>1. named' = named
    BY <1>2 DEF Import
  <2>2. ASSUME named = FirstName, NEW v \in DOMAIN rows, NEW i \in DOMAIN rows[v], ~Rehashed(v, rows[v][i]),
               ~\E c \in Dialogue : v = <<c.source, named[c]>> /\ Imitated(c)
        PROVE  \E j \in DOMAIN rows'[v] : HashWithSource(v, rows'[v][j]) = HashWithSource(v, rows[v][i])
    BY <1>2, <2>2, ImportKeepsHashes
  <2> QED
    BY <2>1, <2>2 DEF HashesLast
<1>3. ASSUME NEW c \in Dialogue, Send(c) \/ React(c) \/ Rename(c) PROVE rows' = rows
  BY <1>3 DEF Send, React, Rename
<1> QED
  BY <1>1, <1>2, <1>3 DEF TranscriptsNext, Sources

\* As long as chats keep their names, a message that was read once has its hash after
\* every import, unless its own conversation imitates the format or the message is one
\* whose hash a first reaction changes.
THEOREM IdentityStays == TranscriptsSpec => IdentityKept
<1>1. TranscriptsInv /\ [TranscriptsNext]_transcriptVars => [HashesLast]_transcriptVars
  BY StepKeepsHashes
<1> QED
  BY <1>1, TranscriptsAlways, PTL DEF TranscriptsSpec, IdentityKept, HashesLast
=============================================================================
