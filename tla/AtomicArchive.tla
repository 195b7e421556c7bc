---------------------------- MODULE AtomicArchive ----------------------------
(***************************************************************************)
(* What onboarding promises a reader of the Setup page and of the archive: *)
(* each source has one job status that runs through its phases in order,   *)
(* and one archive that a job replaces in a single step, only while it is  *)
(* adopting, by a complete export of its own.                              *)
(***************************************************************************)
CONSTANTS Source, Export, Absent

VARIABLES status, archive
vars == <<status, archive>>

Terminal == {"done", "failed", "cancelled"}

\* The phases one job may move to from each phase (onboard.go, Phase).
After(p) ==
  CASE p = "queued"    -> {"exporting", "importing", "failed", "cancelled"}
    [] p = "exporting" -> {"adopting", "failed", "cancelled"}
    [] p = "adopting"  -> {"importing", "failed", "cancelled"}
    [] p = "importing" -> Terminal
    [] OTHER           -> {}

Init ==
  /\ status = [s \in Source |-> "none"]
  /\ archive \in [Source -> Export \union {Absent}]

\* A new job, once no job of the source is running.
Begin(s) ==
  /\ status[s] \in Terminal \union {"none"}
  /\ status' = [status EXCEPT ![s] = "queued"]
  /\ UNCHANGED archive

Advance(s) ==
  /\ \E p \in After(status[s]) : status' = [status EXCEPT ![s] = p]
  /\ UNCHANGED archive

Replace(s) ==
  /\ status[s] = "adopting"
  /\ \E e \in Export : archive' = [archive EXCEPT ![s] = e]
  /\ UNCHANGED status

\* The process ends and is started again: statuses are gone, archives are not.
Restart ==
  /\ status' = [s \in Source |-> "none"]
  /\ UNCHANGED archive

Next == Restart \/ \E s \in Source : Begin(s) \/ Advance(s) \/ Replace(s)

Spec == Init /\ [][Next]_vars
=============================================================================
