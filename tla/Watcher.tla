------------------------------- MODULE Watcher -------------------------------
(***************************************************************************)
(* The folder watcher (internal/devsync/watcher.go) between the supervised *)
(* daemon and the job runner.  The pump long-polls the daemon's events and *)
(* sends them through a bounded channel; the dispatcher waits for a quiet  *)
(* period after the last event of a folder, asks the daemon whether the    *)
(* folder is complete, and starts an incremental import.                   *)
(*                                                                         *)
(* A folder's content is a version: odd while a transfer is under way.     *)
(* The two accepts of the watcher are in Pairing.                          *)
(***************************************************************************)
EXTENDS Supervisor, Sequences, FiniteSets

CONSTANTS
  Source,        \* managed folders, by their source
  Capacity,      \* events the channel holds; 16 in the code
  MaxVersion,    \* bound: versions of a folder's content
  MaxMishaps     \* bound: failed calls and jobs, and jobs started by others

ASSUME WatcherAssumption == Capacity \in Nat \ {0} /\ MaxVersion \in Nat

VARIABLES
  files,    \* each folder's version on disk
  unsaid,   \* folders about which the daemon has an event to emit
  stream,   \* the events of this daemon, by id
  pump,     \* where the pump is
  since,    \* its event cursor
  batch,    \* events it has received and not sent
  channel,  \* sent, and not yet dispatched
  due,      \* debounce: "none", "armed", "elapsed"
  dispatch, \* the sources whose timers have fired, while it attends to them
  slot,     \* the runner's job of a source: Free, Queued, or the version that the
            \* import has begun to read
  stored,   \* the version in the store
  mishaps,  \* what the bound counts
  forgotten \* history: sources with events that may be lost, or an import that
            \* failed

daemonVars == <<files, unsaid, stream>>
pumpVars   == <<pump, since, batch>>
importVars == <<slot, stored>>
watcherVars == <<supervisorVars, daemonVars, pumpVars, channel, due, dispatch,
                 importVars, mishaps, forgotten>>

Complete(s) == files[s] % 2 = 0

\* What an import has read that a transfer changed meanwhile: no version.
Mixed  == MaxVersion + 1
Free   == MaxVersion + 2
Queued == MaxVersion + 3

WatcherStart ==
  /\ files = [s \in Source |-> 0] /\ unsaid = {} /\ stream = <<>>
  /\ pump = "call" /\ since = 0 /\ batch = <<>> /\ channel = <<>>
  /\ due = [s \in Source |-> "none"] /\ dispatch = {}
  /\ slot = [s \in Source |-> Free] /\ stored = [s \in Source |-> 0]
  /\ mishaps = 0 /\ forgotten = {}

WatcherInit == SupervisorInit /\ WatcherStart

Watching == sup \notin {"new", "waiting", "aborting"}
Mishap == mishaps < MaxMishaps /\ mishaps' = mishaps + 1

----------------------------------------------------------------------------
(* The daemon *)

\* A new process numbers its events from 1, and begins with a summary of every
\* folder.  A pump that has not met the old one's exit keeps a cursor that is
\* ahead of it.
DaemonUp ==
  /\ Answer
  /\ stream' = <<>> /\ unsaid' = Source
  /\ forgotten' = IF pump \in {"call", "sending"} /\ since + Len(batch) > 0
                  THEN Source ELSE forgotten
  /\ UNCHANGED <<files, pumpVars, channel, due, dispatch, importVars, mishaps>>

\* The poll that the process was holding open fails.
DaemonExits ==
  /\ Exit
  /\ pump' = IF pump = "polling" THEN "failed" ELSE pump
  /\ UNCHANGED <<daemonVars, since, batch, channel, due, dispatch, importVars,
                 mishaps, forgotten>>

\* A transfer begins or is completed; the event follows.  (After a quit nobody
\* listens.)
Transfer(s) ==
  /\ child = "up" /\ ~quit /\ files[s] < MaxVersion
  /\ files' = [files EXCEPT ![s] = @ + 1]
  /\ unsaid' = unsaid \union {s}
  /\ UNCHANGED <<supervisorVars, stream, pumpVars, channel, due, dispatch, importVars,
                 mishaps, forgotten>>

Emit(s) ==
  /\ child = "up" /\ ~quit /\ s \in unsaid
  /\ stream' = Append(stream, s)
  /\ unsaid' = unsaid \ {s}
  /\ UNCHANGED <<supervisorVars, files, pumpVars, channel, due, dispatch, importVars,
                 mishaps, forgotten>>

----------------------------------------------------------------------------
(* The pump *)

\* Events: a connection, or none.
Call ==
  /\ pump = "call" /\ Watching /\ ~quit
  /\ pump' = IF child = "up" THEN "polling" ELSE "failed"
  /\ UNCHANGED <<supervisorVars, daemonVars, since, batch, channel, due, dispatch,
                 importVars, mishaps, forgotten>>

\* The events after the cursor.  A poll that times out without any is repeated.
Events ==
  /\ pump = "polling" /\ ~quit
  /\ Len(stream) > since
  /\ batch' = SubSeq(stream, since + 1, Len(stream))
  /\ pump' = "sending"
  /\ UNCHANGED <<supervisorVars, daemonVars, since, channel, due, dispatch, importVars,
                 mishaps, forgotten>>

\* Mutant: the cursor is kept.
BackoffKept ==
  /\ pump = "failed" /\ ~quit
  /\ pump' = "call"
  /\ UNCHANGED <<supervisorVars, daemonVars, since, batch, channel, due, dispatch,
                 importVars, mishaps, forgotten>>

\* After an error the cursor is 0: ids restart with the daemon.  What the same
\* daemon has said already is then said again.
Backoff ==
  /\ pump = "failed" /\ ~quit
  /\ since' = 0 /\ pump' = "call"
  /\ UNCHANGED <<supervisorVars, daemonVars, batch, channel, due, dispatch, importVars,
                 mishaps, forgotten>>

PollFails ==
  /\ pump = "polling" /\ Mishap
  /\ pump' = "failed"
  /\ UNCHANGED <<supervisorVars, daemonVars, since, batch, channel, due, dispatch,
                 importVars, forgotten>>

\* The pump sends one event after the other, and waits when the channel is full.
Send ==
  /\ pump = "sending" /\ ~quit
  /\ IF batch = <<>>
     THEN /\ pump' = "call"
          /\ UNCHANGED <<since, batch, channel>>
     ELSE /\ Len(channel) < Capacity
          /\ channel' = Append(channel, Head(batch))
          /\ batch' = Tail(batch) /\ since' = since + 1
          /\ UNCHANGED pump
  /\ UNCHANGED <<supervisorVars, daemonVars, due, dispatch, importVars, mishaps, forgotten>>

\* Every wait of the pump ends with the context.
PumpStops ==
  /\ pump # "stopped" /\ Watching /\ quit
  /\ pump' = "stopped"
  /\ UNCHANGED <<supervisorVars, daemonVars, since, batch, channel, due, dispatch,
                 importVars, mishaps, forgotten>>

----------------------------------------------------------------------------
(* The dispatcher *)

Selecting == dispatch = {} /\ Watching /\ ~quit

\* An event puts the deadline off.
Receive ==
  /\ Selecting /\ channel # <<>>
  /\ due' = [due EXCEPT ![Head(channel)] = "armed"]
  /\ channel' = Tail(channel)
  /\ UNCHANGED <<supervisorVars, daemonVars, pumpVars, dispatch, importVars, mishaps, forgotten>>

\* The quiet period passes.
Elapse(s) ==
  /\ due[s] = "armed"
  /\ due' = [due EXCEPT ![s] = "elapsed"]
  /\ UNCHANGED <<supervisorVars, daemonVars, pumpVars, channel, dispatch, importVars,
                 mishaps, forgotten>>

\* The timer: every source whose deadline has passed.
Fire ==
  /\ Selecting /\ \E s \in Source : due[s] = "elapsed"
  /\ dispatch' = {<<s, "ask">> : s \in {t \in Source : due[t] = "elapsed"}}
  /\ UNCHANGED <<supervisorVars, daemonVars, pumpVars, channel, due, importVars,
                 mishaps, forgotten>>

Turns(s, state) == due' = [due EXCEPT ![s] = state]

\* FolderCompletion.  Incomplete, or no answer: again after a quiet period.
TryImport(s) ==
  /\ <<s, "ask">> \in dispatch
  /\ \/ /\ child = "up" /\ Complete(s)
        /\ dispatch' = (dispatch \ {<<s, "ask">>}) \union {<<s, "start">>}
        /\ UNCHANGED <<due, mishaps>>
     \/ /\ (child = "up" /\ ~Complete(s)) \/ child # "up"
        /\ Turns(s, "armed")
        /\ dispatch' = dispatch \ {<<s, "ask">>}
        /\ UNCHANGED mishaps
     \/ /\ child = "up" /\ Mishap
        /\ Turns(s, "armed")
        /\ dispatch' = dispatch \ {<<s, "ask">>}
  /\ UNCHANGED <<supervisorVars, daemonVars, pumpVars, channel, importVars, forgotten>>

\* Mutant: a job under way is taken for one that will import this too.
StartImportOrJoin(s) ==
  /\ <<s, "start">> \in dispatch
  /\ dispatch' = dispatch \ {<<s, "start">>}
  /\ slot' = [slot EXCEPT ![s] = IF @ = Free THEN Queued ELSE @]
  /\ Turns(s, "none")
  /\ UNCHANGED <<supervisorVars, daemonVars, pumpVars, channel, stored, mishaps, forgotten>>

\* SyncImport, after what the answer said.  A job under way: again after a quiet
\* period.  Any other error ends the matter.
StartImport(s) ==
  /\ <<s, "start">> \in dispatch
  /\ dispatch' = dispatch \ {<<s, "start">>}
  /\ \/ /\ slot[s] = Free
        /\ slot' = [slot EXCEPT ![s] = Queued]
        /\ Turns(s, "none")
        /\ UNCHANGED <<mishaps, forgotten>>
     \/ /\ slot[s] # Free
        /\ Turns(s, "armed")
        /\ UNCHANGED <<slot, mishaps, forgotten>>
     \/ /\ Mishap
        /\ Turns(s, "none")
        /\ forgotten' = forgotten \union {s}
        /\ UNCHANGED slot
  /\ UNCHANGED <<supervisorVars, daemonVars, pumpVars, channel, stored>>

----------------------------------------------------------------------------
(* The runner's import jobs (Onboard has them whole) *)

\* A Refresh or an Enable has the source's slot.
OtherJob(s) ==
  /\ slot[s] = Free /\ Mishap
  /\ slot' = [slot EXCEPT ![s] = Queued]
  /\ UNCHANGED <<supervisorVars, daemonVars, pumpVars, channel, due, dispatch, stored, forgotten>>

JobBegins(s) ==
  /\ slot[s] = Queued
  /\ slot' = [slot EXCEPT ![s] = files[s]]
  /\ UNCHANGED <<supervisorVars, daemonVars, pumpVars, channel, due, dispatch, stored,
                 mishaps, forgotten>>

JobEnds(s) ==
  /\ slot[s] \notin {Free, Queued}
  /\ stored' = [stored EXCEPT ![s] = IF slot[s] = files[s] THEN files[s] ELSE Mixed]
  /\ slot' = [slot EXCEPT ![s] = Free]
  /\ UNCHANGED <<supervisorVars, daemonVars, pumpVars, channel, due, dispatch,
                 mishaps, forgotten>>

JobFails(s) ==
  /\ slot[s] # Free /\ Mishap
  /\ slot' = [slot EXCEPT ![s] = Free]
  /\ forgotten' = forgotten \union {s}
  /\ UNCHANGED <<supervisorVars, daemonVars, pumpVars, channel, due, dispatch, stored>>

----------------------------------------------------------------------------
Calm == UNCHANGED <<daemonVars, pumpVars, channel, due, dispatch, importVars,
                     mishaps, forgotten>>

Supervise == SupervisorStep /\ Calm

Pump       == Call \/ Events \/ Backoff \/ Send \/ PumpStops
Dispatcher(s) == TryImport(s) \/ StartImport(s)
Runs(s)    == JobBegins(s) \/ JobEnds(s)

WatcherNext ==
  \/ Supervise \/ (Quit /\ Calm) \/ (Hang /\ Calm)
  \/ DaemonUp \/ DaemonExits
  \/ Pump \/ PollFails \/ Receive \/ Fire
  \/ \E s \in Source : \/ Transfer(s) \/ Emit(s) \/ Elapse(s) \/ Dispatcher(s)
                       \/ OtherJob(s) \/ Runs(s) \/ JobFails(s)

\* Go schedules the goroutines and picks among the ready cases of a select; a
\* clock passes; the daemon says what it has to.
WatcherFairness ==
  /\ WF_watcherVars(Supervise) /\ WF_watcherVars(DaemonUp)
  /\ WF_watcherVars(Pump) /\ SF_watcherVars(Receive) /\ SF_watcherVars(Fire)
  /\ \A s \in Source :
       /\ WF_watcherVars(Emit(s)) /\ WF_watcherVars(Elapse(s))
       /\ WF_watcherVars(Dispatcher(s)) /\ WF_watcherVars(Runs(s))

WatcherSpec == WatcherInit /\ [][WatcherNext]_watcherVars /\ WatcherFairness

----------------------------------------------------------------------------
(* Properties *)

WatcherTypeOK ==
  /\ SupervisorTypeOK
  /\ files \in [Source -> 0 .. MaxVersion]
  /\ stream \in Seq(Source) /\ batch \in Seq(Source) /\ channel \in Seq(Source)
  /\ pump \in {"call", "polling", "failed", "sending", "stopped"}
  /\ Len(channel) <= Capacity
  /\ since \in Nat
  /\ due \in [Source -> {"none", "armed", "elapsed"}]
  /\ dispatch \subseteq Source \X {"ask", "start"}
  /\ stored \in [Source -> 0 .. Mixed]

Has(q, s) == \E i \in 1 .. Len(q) : q[i] = s

\* Events the pump has yet to receive.
Unread == SubSeq(stream, (IF pump = "failed" THEN 0 ELSE since) + 1, Len(stream))

\* Something that will lead to another import of s.
Pending(s) ==
  \/ s \in unsaid \/ child # "up"
  \/ Has(Unread, s) \/ Has(batch, s) \/ Has(channel, s)
  \/ due[s] # "none" \/ \E step \in {"ask", "start"} : <<s, step>> \in dispatch
  \/ slot[s] = Queued \/ slot[s] = files[s]

\* No delta is forgotten: while the store differs from a folder that is complete,
\* an event, a deadline, a check or a job is on its way, whatever was in flight,
\* asked again, read half-way or restarted when the transfer was completed.
\* (tryImport returns true only of what needs no further attention.)
NoDeltaForgotten ==
  \A s \in Source :
    Complete(s) /\ stored[s] # files[s] /\ s \notin forgotten => quit \/ Pending(s)

\* Every complete transfer is imported, unless the daemon is lost or an import
\* fails.
DeltasImported ==
  \A s \in Source :
    []<>(stored[s] = files[s] \/ ~Complete(s) \/ s \in forgotten \/ quit \/ Ended
           \/ child = "hung")

\* A quit is drained by the supervisor and by the pump, although the channel may
\* be full.
WatcherDrains == QuitDrains /\ []<>(~quit \/ pump = "stopped" \/ ~Watching)
=============================================================================
