----------------------------- MODULE Migrations ------------------------------
(***************************************************************************)
(* Opening the database (internal/store/migrations.go, Open in store.go,   *)
(* the chain in schema.go): every process that opens it brings its schema  *)
(* forward, one transaction per version, and keeps a ledger of the texts   *)
(* that ran.  Two processes may open it at once, one may die between any   *)
(* two transactions, and the database may have been made by another        *)
(* lineage of the program or be newer than it (issue #217).                *)
(*                                                                         *)
(* A text is [makes, adds]: the tables, <<name>>, that it creates IF NOT   *)
(* EXISTS, and the columns, <<table, name>>, that it adds, which fails if   *)
(* they exist.                                                             *)
(***************************************************************************)
EXTENDS Absent, Integers, Sequences, FiniteSets

CONSTANTS
  Opener,    \* processes
  Build,     \* builds of the program: each the sequence of its migrations
  Shipped,   \* the newest of them
  Inherited, \* the databases there may be: [version, schema, ledger]
  MaxOpens,  \* bound: calls of Open
  MaxDeaths  \* bound: processes that die in one, or whose transaction fails

ASSUME MigrationsAssumption ==
  /\ Shipped \in Build
  /\ MaxOpens \in Nat /\ MaxDeaths \in Nat

VARIABLES
  store,   \* the database: user_version, the objects in its schema, the ledger
           \* (a text, or None for a version that ran before there was one)
  opener,  \* each process: where it is in Open, its build, and how far it has come
  opens, deaths,
  met      \* history: a process went on from a version that was no longer the
           \* database's

migrationVars == <<store, opener, opens, deaths, met>>

-----------------------------------------------------------------------------
MayFail(text, schema) == \E c \in text.adds : c \in schema \/ <<c[1]>> \notin schema \union text.makes

Objects(text) == text.makes \union text.adds

\* One version's transaction: its text, its row of the ledger and user_version.
Migrated(d, texts, v) ==
  [version |-> v,
   schema |-> d.schema \union Objects(texts[v]),
   ledger |-> [u \in DOMAIN d.ledger \union {v} |-> IF u = v THEN texts[v] ELSE d.ledger[u]]]

\* What ran is what this build has under that number, as far as it is known.
verifyLedger(d, texts, current) ==
  \A v \in DOMAIN d.ledger :
    v <= current /\ d.ledger[v] # None => v <= Len(texts) /\ d.ledger[v] = texts[v]

\* What the newest build's texts from one version to another make.
Due(from, upto) == UNION {Objects(Shipped[v]) : v \in from + 1 .. upto}

\* The newest build can open the database, or refuses it as newer or as edited:
\* each text that is due would run.
Opens(d) ==
  \/ d.version > Len(Shipped)
  \/ ~verifyLedger(d, Shipped, d.version)
  \/ \A v \in d.version + 1 .. Len(Shipped) : ~MayFail(Shipped[v], d.schema \union Due(d.version, v - 1))

\* The databases of the lineages: a ledger that has a row for each version, if it
\* has any, and whose texts have made what they make; and a chain that can go on
\* from there and makes up for what the other lineage ran instead.  ("v10 (common
\* ancestor) ... main lineage @ v11 ... fork lineage @ v11": schema.go.)
ASSUME BuildAssumption ==
  \A texts \in Build : texts \in Seq({texts[v] : v \in DOMAIN texts}) /\ \A v \in DOMAIN texts : texts[v] # None

ASSUME InheritedAssumption ==
  \A d \in Inherited :
    /\ d = [version |-> d.version, schema |-> d.schema, ledger |-> d.ledger]
    /\ d.version \in Nat /\ DOMAIN d.ledger \in {{}, 1 .. d.version}
    /\ \A v \in DOMAIN d.ledger : d.ledger[v] # None => Objects(d.ledger[v]) \subseteq d.schema
    /\ d.version <= Len(Shipped) /\ verifyLedger(d, Shipped, d.version) =>
         \A v \in 1 .. d.version : Objects(Shipped[v]) \subseteq d.schema \union Due(d.version, Len(Shipped))
    /\ Opens(d)

-----------------------------------------------------------------------------
NotOpen == [at |-> "closed", texts |-> <<>>, v |-> 0]

MigrationsInit ==
  /\ store \in Inherited
  /\ opener = [p \in Opener |-> NotOpen]
  /\ opens = 0 /\ deaths = 0 /\ met = FALSE

OpenerAt(p, place) == opener[p].at = place
GoesTo(p, place) == opener' = [opener EXCEPT ![p].at = place]
OpenFails(p) == opener' = [opener EXCEPT ![p] = NotOpen]

\* migrate reads user_version once.  A newer database is refused.
OpenStore(p, texts) ==
  /\ OpenerAt(p, "closed")
  /\ opens < MaxOpens /\ opens' = opens + 1
  /\ store.version <= Len(texts)
  /\ opener' = [opener EXCEPT ![p] = [at |-> "ledger", texts |-> texts, v |-> store.version]]
  /\ UNCHANGED <<store, deaths, met>>

\* The ledger's rows are counted, unless the database was empty,
ensureLedger(p) ==
  /\ OpenerAt(p, "ledger")
  /\ GoesTo(p, IF opener[p].v = 0 \/ DOMAIN store.ledger # {} THEN "verify" ELSE "backfill")
  /\ UNCHANGED <<store, opens, deaths, met>>

\* and versions that have none get one without a checksum.
Backfill(p) ==
  /\ OpenerAt(p, "backfill")
  /\ store' = [store EXCEPT !.ledger =
       [v \in DOMAIN @ \union 1 .. opener[p].v |-> IF v \in DOMAIN @ THEN @[v] ELSE None]]
  /\ GoesTo(p, "verify")
  /\ UNCHANGED <<opens, deaths, met>>

Verify(p) ==
  /\ OpenerAt(p, "verify")
  /\ IF verifyLedger(store, opener[p].texts, opener[p].v) THEN GoesTo(p, "apply") ELSE OpenFails(p)
  /\ UNCHANGED <<store, opens, deaths, met>>

\* Mutant: user_version is set in a transaction of its own, before the text's.
ApplyVersionFirst(p) ==
  /\ OpenerAt(p, "apply")
  /\ LET texts == opener[p].texts
         v == opener[p].v + 1
     IN /\ v <= Len(texts)
        /\ \/ store' = Migrated(store, texts, v) /\ opener' = [opener EXCEPT ![p].v = v] /\ UNCHANGED deaths
           \/ /\ deaths < MaxDeaths /\ deaths' = deaths + 1
              /\ store' = [store EXCEPT !.version = v] /\ OpenFails(p)
        /\ met' = (met \/ store.version # v - 1)
  /\ UNCHANGED opens

\* The next version, in one transaction that takes the write lock first; an error
\* in its text rolls it back and ends the Open.
applyMigration(p) ==
  /\ OpenerAt(p, "apply")
  /\ LET texts == opener[p].texts
         v == opener[p].v + 1
     IN /\ v <= Len(texts)
        /\ IF MayFail(texts[v], store.schema)
           THEN OpenFails(p) /\ UNCHANGED store
           ELSE store' = Migrated(store, texts, v) /\ opener' = [opener EXCEPT ![p].v = v]
        /\ met' = (met \/ store.version # v - 1)
  /\ UNCHANGED <<opens, deaths>>

Opened(p) ==
  /\ OpenerAt(p, "apply") /\ opener[p].v >= Len(opener[p].texts)
  /\ GoesTo(p, "open")
  /\ UNCHANGED <<store, opens, deaths, met>>

CloseStore(p) ==
  /\ OpenerAt(p, "open")
  /\ OpenFails(p)
  /\ UNCHANGED <<store, opens, deaths, met>>

\* A crash, a full disk, a write lock that another process held for five seconds.
Dies(p) ==
  /\ opener[p].at \in {"ledger", "backfill", "verify", "apply"}
  /\ deaths < MaxDeaths /\ deaths' = deaths + 1
  /\ OpenFails(p)
  /\ UNCHANGED <<store, opens, met>>

MigrationsNext == \E p \in Opener :
  \/ \E texts \in Build : OpenStore(p, texts)
  \/ ensureLedger(p) \/ Backfill(p) \/ Verify(p)
  \/ applyMigration(p) \/ Opened(p) \/ CloseStore(p) \/ Dies(p)

MigrationsSpec == MigrationsInit /\ [][MigrationsNext]_migrationVars

-----------------------------------------------------------------------------
\* Whoever has the database open finds the whole schema of its build in it,
\* whichever lineage made it, whatever died on the way and whoever migrated it
\* since; and the ledger names all that ran, up to user_version.
\* (schema.go:662: "Every database converges here regardless of the path it took";
\* migrations.go: "the ledger can never disagree with the schema it describes".)
SchemaIsWhole ==
  /\ \A p \in Opener : OpenerAt(p, "open") =>
       \A v \in 1 .. Len(opener[p].texts) :
         opener[p].texts = Shipped \/ store.ledger[v] # None
           => Objects(opener[p].texts[v]) \subseteq store.schema
  /\ \A v \in DOMAIN store.ledger : store.ledger[v] # None => Objects(store.ledger[v]) \subseteq store.schema
  /\ ~met => DOMAIN store.ledger \in {{}, 1 .. store.version}

\* However often an Open died or was another build's, the next one can go on,
\* unless two processes had migrated at once.
StaysOpenable == ~met => Opens(store)

\* Whatever died on the way, the schema is whole where it is used and can be
\* brought up to date where it is not.
SchemaHolds == SchemaIsWhole /\ StaysOpenable
=============================================================================
