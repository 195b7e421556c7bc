------------------------------ MODULE MCIngest ------------------------------
(* An instance of Ingest for TLC: a transcript that goes through several    *)
(* contents, and one that cannot be read.                                   *)
EXTENDS Ingest, TLC

CONSTANTS ann, bob, hello, garbled, cli

TwoConvs    == {ann, bob}
Lines       == {hello, garbled}
Garbled     == {garbled}
BobBroken   == {bob}
OneImporter == {cli}

\* Bound: nobody edits what cannot be read.
Small == Len(file'[bob]) <= 1

MCSpec == Init /\ [][Next /\ Small]_vars /\ Fairness
=============================================================================
