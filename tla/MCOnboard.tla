------------------------------ MODULE MCOnboard ------------------------------
(* Instances of Onboard for TLC. Job structs are interchangeable.          *)
EXTENDS Onboard, TLC

CONSTANTS signal, imessage, j1, j2, j3

OneSource  == {signal}
TwoSources == {signal, imessage}
TwoJobs    == {j1, j2}
ThreeJobs  == {j1, j2, j3}

JobSymmetry == Permutations(Job)
=============================================================================
