------------------------------ MODULE MCDevices ------------------------------
(***************************************************************************)
(* The process and what it supervises: the start and the stop of serve and *)
(* of the desktop app, and the watcher of the device-sync daemon while it  *)
(* runs.  A behaviour is about one of them, its part; the variables of the *)
(* other keep their initial values.                                        *)
(***************************************************************************)
EXTENDS Watcher, Shell

CONSTANTS
  Part,  \* the parts an instance has
  s1

ASSUME PartAssumption == Part \subseteq {"watcher", "shell"}

VARIABLE part

devicesVars == <<part, watcherVars, shellVars>>

DevicesInit ==
  /\ part \in Part
  /\ WatcherInit /\ ShellInit
  /\ part # "shell" => app = "serve"

WatcherOnly == UNCHANGED <<part, shellVars>>
ShellOnly   == UNCHANGED <<part, watcherVars>>

DevicesNext ==
  \/ part = "watcher" /\ WatcherNext /\ WatcherOnly
  \/ part = "shell" /\ ShellNext /\ ShellOnly

\* WatcherFairness and ShellFairness, each in its part.
WatcherDoes(A) == part = "watcher" /\ A /\ WatcherOnly
ShellDoes(A)   == part = "shell" /\ main # "exited" /\ A /\ ShellOnly

DevicesFairness ==
  /\ WF_devicesVars(WatcherDoes(Supervise)) /\ WF_devicesVars(WatcherDoes(DaemonUp))
  /\ WF_devicesVars(WatcherDoes(Pump))
  /\ SF_devicesVars(WatcherDoes(Receive)) /\ SF_devicesVars(WatcherDoes(Fire))
  /\ \A s \in Source :
       /\ WF_devicesVars(WatcherDoes(Emit(s))) /\ WF_devicesVars(WatcherDoes(Elapse(s)))
       /\ WF_devicesVars(WatcherDoes(Dispatcher(s))) /\ WF_devicesVars(WatcherDoes(Runs(s)))
  /\ WF_devicesVars(ShellDoes(MainStep)) /\ WF_devicesVars(ShellDoes(Drain \/ Drained))
  /\ WF_devicesVars(ShellDoes(runner.stopped /\ WorkerEnds))
  /\ WF_devicesVars(ShellDoes(ended /\ DaemonEnds)) /\ WF_devicesVars(ShellDoes(WatcherEnds))
  /\ WF_devicesVars(ShellDoes(GuardQuits)) /\ WF_devicesVars(ShellDoes(Startup))
  /\ WF_devicesVars(ShellDoes(Obeys))

DevicesSpec == DevicesInit /\ [][DevicesNext]_devicesVars /\ DevicesFairness

DevicesTypeOK == WatcherTypeOK /\ ShellTypeOK

\* Every delta the daemon announces is imported, unless its import failed, and a
\* quit is drained whole.  (DeltasImported, WatcherDrains.)
DevicesLive == DeltasImported /\ WatcherDrains
=============================================================================
