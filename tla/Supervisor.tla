----------------------------- MODULE Supervisor ------------------------------
(***************************************************************************)
(* The Syncthing daemon under msgbrowse (internal/syncthing/supervisor.go, *)
(* started and drained by internal/cli/serve_devicesync.go): Start         *)
(* launches a child and waits until it answers, a loop relaunches a child  *)
(* that exits, and a quit ends both.  The child is an operating-system     *)
(* process: it may answer, hang or exit whenever it likes.                 *)
(***************************************************************************)
EXTENDS Naturals

CONSTANT MaxExits  \* bound: exits that nobody asked for, and failures to launch

VARIABLES
  child,  \* the process: "none", "booting", "up", "hung" or "exited", not yet
          \* noticed
  sup,    \* where Start, and then the loop, is
  quit,   \* the server's context is cancelled
  exits   \* what the bound counts

supervisorVars == <<child, sup, quit, exits>>

SupervisorInit ==
  child = "none" /\ sup = "new" /\ quit = FALSE /\ exits = 0

Running == child \in {"booting", "up", "hung"}
Ended   == sup \in {"failed", "drained"}

Unlucky == exits < MaxExits /\ exits' = exits + 1

\* spawn: a child, or an error.
Spawn(next, failure) ==
  \/ child' = "booting" /\ sup' = next /\ UNCHANGED exits
  \/ Unlucky /\ sup' = failure /\ UNCHANGED child

\* Start: the binary is verified and the configuration written, or nothing is
\* launched.
Launch == sup = "new" /\ Spawn("waiting", "failed") /\ UNCHANGED quit

\* waitReady: a ping is answered,
Ready ==
  /\ sup = "waiting" /\ child = "up"
  /\ sup' = "watching"
  /\ UNCHANGED <<child, quit, exits>>

\* Mutant: Start returns its error, and the child stays.
NotReadyLeft ==
  /\ sup = "waiting"
  /\ child # "up" \/ quit
  /\ sup' = "failed"
  /\ UNCHANGED <<child, quit, exits>>

\* or the child has exited, or the time is up, or the server quits: terminate,
\* which signals a child that is there.
NotReady ==
  /\ sup = "waiting"
  /\ \/ /\ child = "exited" /\ child' = "none" /\ sup' = "failed"
     \/ /\ child # "up" \/ quit
        /\ child # "exited"
        /\ sup' = "aborting" /\ UNCHANGED child
  /\ UNCHANGED <<quit, exits>>

\* supervise: the context first, or the exit; select takes either.
Cancelled ==
  /\ sup = "watching" /\ quit
  /\ IF child = "exited" THEN child' = "none" /\ sup' = "drained"
     ELSE sup' = "terminating" /\ UNCHANGED child
  /\ UNCHANGED <<quit, exits>>

\* One that has raced the cancellation is not relaunched.
Noticed ==
  /\ sup = "watching" /\ child = "exited"
  /\ child' = "none"
  /\ sup' = IF quit THEN "drained" ELSE "backoff"
  /\ UNCHANGED <<quit, exits>>

\* After the backoff, or a quit meanwhile: if both are there, either.
Relaunch ==
  /\ sup = "backoff"
  /\ \/ quit /\ sup' = "drained" /\ UNCHANGED <<child, exits>>
     \/ Spawn("watching", "failed")
  /\ UNCHANGED quit

\* SIGTERM, and SIGKILL after the grace period.  The exit is waited for.
Terminate ==
  /\ sup \in {"terminating", "aborting"}
  /\ child' = "none"
  /\ sup' = IF sup = "aborting" THEN "failed" ELSE "drained"
  /\ UNCHANGED <<quit, exits>>

Quit == ~quit /\ quit' = TRUE /\ UNCHANGED <<child, sup, exits>>

\* The child by itself.
Answer == child = "booting" /\ child' = "up" /\ UNCHANGED <<sup, quit, exits>>
Exit   == Running /\ Unlucky /\ child' = "exited" /\ UNCHANGED <<sup, quit>>
Hang   == child = "booting" /\ Unlucky /\ child' = "hung" /\ UNCHANGED <<sup, quit>>

SupervisorStep ==
  Launch \/ Ready \/ NotReady \/ Cancelled \/ Noticed \/ Relaunch \/ Terminate

SupervisorNext == SupervisorStep \/ Quit \/ Answer \/ Exit \/ Hang

SupervisorFairness ==
  WF_supervisorVars(SupervisorStep) /\ WF_supervisorVars(Answer)

SupervisorSpec ==
  SupervisorInit /\ [][SupervisorNext]_supervisorVars /\ SupervisorFairness

----------------------------------------------------------------------------
(* Properties *)

SupervisorTypeOK ==
  /\ child \in {"none", "booting", "up", "hung", "exited"}
  /\ sup \in {"new", "waiting", "aborting", "watching", "backoff", "terminating",
              "drained", "failed"}
  /\ quit \in BOOLEAN
  /\ exits \in 0 .. MaxExits

\* When Start has failed or Wait has returned there is no daemon: neither one that
\* was launched in the moment of a quit nor one that never answered.
\* (supervisor.go: "Start never leaks a half-started daemon"; "App quit stops the
\* daemon".)
NoOrphan == Ended => ~Running

\* A quit is drained, whatever the child does.
QuitDrains == []<>(~quit \/ Ended)
=============================================================================
