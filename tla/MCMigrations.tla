---------------------------- MODULE MCMigrations -----------------------------
(* Instances of Migrations for TLC.                                        *)
EXTENDS Migrations

Migration(tables, columns) == [makes |-> {<<x>> : x \in tables}, adds |-> columns]

\* The chain from v1 to the columns of v15 and v19 in short: the two tables that
\* two lineages made under one number, and the repair that makes both (v14).
First   == Migration({"messages"}, {})
Second  == Migration({}, {<<"messages", "source">>})
Journal == Migration({"journal"}, {})
Joined   == Migration({"links"}, {})
Repair  == Migration({"journal", "links"}, {})
Counted == Migration({"runs"}, {<<"journal", "count">>})
Named   == Migration({}, {<<"links", "names">>})
MCShipped == <<First, Second, Journal, Joined, Repair, Counted, Named>>

\* The build before, and one in which a shipped text was edited.
Before == SubSeq(MCShipped, 1, 6)
Edited  == [MCShipped EXCEPT ![6] = Migration({"runs"}, {<<"journal", "names">>})]
MCBuild == {MCShipped, Before, Edited}

\* An empty database, one of each lineage from before the ledger, and one of a
\* build to come.
Upto(texts, n) == UNION {Objects(texts[v]) : v \in 1 .. n}
MCInherited ==
  {[version |-> 0, schema |-> {}, ledger |-> <<>>],
   [version |-> 3, schema |-> Upto(MCShipped, 3), ledger |-> <<>>],
   [version |-> 3, schema |-> Upto(<<First, Second, Joined>>, 3), ledger |-> <<>>],
   [version |-> 8, schema |-> Upto(MCShipped, 7), ledger |-> [v \in 1 .. 8 |-> IF v < 8 THEN MCShipped[v] ELSE Journal]]}
=============================================================================
